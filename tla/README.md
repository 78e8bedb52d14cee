# pyModules: a TLA+ verification project

The repository holds four CPython 3.5 extension modules for a Toradex Apalis
iMX6 board, all under `src/c_modules/`: `me909s` (a Huawei ME909s LTE modem on a
serial line), `pymodbus` (a wrapper of libmodbus 3.1.4), `pwm` and
`imx6_ixora_led` (sysfs files). Everything else in the tree is third-party code,
build output or configuration. The modules here are translated from those four
modules' C code; line numbers below are the code's.

## 1. Inventory

| component | source | state | operations | model |
|---|---|---|---|---|
| AT dialogue | me909s.c, CoraSerial.c `_uarts_send/_recv/_select` | a loop index in each function; the bytes that lie unread on the line; what the modem still owes | init, cmd_lte, led, status, online, offline, restart, call, hangup | `Me909s` |
| serial handle | me909s.c `ctx`, CoraSerial.c `module_new` ... `module_free`, `_uarts_connect/_close` | `ctx`, heap objects, descriptors, the line's termios settings and the copies saved of them | new_lte, del_lte, free_lte (interpreter exit) | `LteHandle` |
| me909s as a whole | me909s.c, CoraSerial.c | both of the above over one terminal | all of the above but restart | `Lte` |
| pattern search | me909s.c `KMP_GetNext`, `KMP_Match` | the table of borders, loop indices | search in one read's bytes | `Kmp` |
| pwm | pwm.c | three static paths; per chip in the kernel: exported, enabled, period, duty cycle | new_pwm, start, attrs, rate, stop, del_pwm (exit) | `Pwm` |
| ixora_led | imx6_ixora_led.c | four brightness files | ioctl, clear, led_exit (exit) | `Led` |
| pymodbus handle and polling | pymodbus.c | `mb`, `slave_addr`; inside libmodbus a slave per handle; requests and answers in flight | new_rtu, new_tcp, set_slave, set_timeout, read_registers, free_rtu, free_tcp | `Pymodbus` |
| pymodbus decoding | pymodbus.c `read_registers` | two arrays, loop variables, an accumulator | one call, from arguments to list | `ModbusDecode` |
| pymodbus example | src/libmodbus-3.1.4/example | the same C file again, a polling script | | not modelled; the script is quoted by a finding |
| libmodbus, openssl, openswan, readline, termcap, sysv_ipc | src/\<name\> | | | third-party, not modelled |
| strongswan setup, release archives | src/strongswan-5.5.3, src/release | | | nothing that runs here |

**How they interact.** Nothing connects the four extension modules to each
other; each talks to one thing outside. `me909s.c` calls CoraSerial.c, which
calls the terminal driver; the modem at the other end acts by itself.
`pymodbus.c` calls libmodbus, with slaves at the other end of a shared bus or of
a TCP connection. `pwm.c` and `imx6_ixora_led.c` write files whose values the
kernel keeps when the process is gone. Inside `me909s`, the dialogue uses the
handle and the pattern search. Every function runs from entry to return with the
interpreter lock held, so two functions of a module never overlap; what
interleaves with a function is its environment.

**What is hard.**

* AT dialogue: answers that arrive after the call that asked for them gave up;
  reports that the modem sends unasked; reads that end inside a message; short
  writes; a modem that reboots; and patterns that mean something else: cmd_lte writes any
  string, and the code looks for `OK`, or for the words of a report, in whatever text
  holds them. Correct means: a call that says success was
  answered (`InSync`), its commands and answers go in lock step
  (`ImplementsExchange`), a state it returns was true (`StateReport`), each up to the
  exceptions that the code leaves open (end of section 3), and it
  returns (`CallReturns`) after a bounded number of waits (`BoundedWait`).
* Handles (`ctx` and `mb` alike): they are overwritten, freed and left dangling on
  several error paths. Correct means: settings restored in order, no descriptor
  lost on a failure, freed memory used only after the two outcomes that leave the
  pointer behind, and a handle that is usable exactly when its caller was told so
  (`OutcomeHolds`, `CommandsFollowConnect`).
* pwm: the kernel refuses values silently (the buffered `fwrite` succeeds and
  `fclose`'s result is dropped), so the order of the writes has to make every legal
  value acceptable; calls fail half way; the kernel remembers an earlier process.
* pymodbus: late answers are never flushed; a serial answer names no address.
* KMP and decoding: indices, borders, word order, widths, signs, and products of
  ints that do not fit.

`PROJECT.json` lists each hazard at its line with the properties that cover it,
or a note why none does.

## 2. Modules

`Exchange` is an abstract specification: what a caller who starts with nothing
outstanding may rely on. A call asks its questions one at a time, the next only when
the one before has been answered, and reports success only when each was. With
`MayForfeit` a driver may give the promise up in the middle of a call (`Forfeit`): `Me909s`
may, `Pymodbus` may not.
`Me909s` and `Pymodbus` implement it (`ImplementsExchange`) by a refinement
mapping: a call that began with something outstanding is mapped to "nothing is
promised".

`LteHandle` with `MCLteHandle`. One call is one step (the lock is held and nothing
outside changes this state). `ctx`, `s`, `uart`, `old_tios` and `line` are the code's
fields and the termios settings; `live` is what malloc has given out. `new_lte` is six actions, one per way
it ends: `NewLteRefused`, `NewLteAbsent`, `NewLteBadParity` (module_new),
`NewLteOpenFails`, `NewLteSetupFails` (_uarts_connect), `NewLte`. `DelLte` and `Exit`
share `CloseAndFree`. A step that touches freed memory sets `fault`, after which
nothing is defined and nothing happens.

`Me909s`. The program counter `pc` is in `send` before module_send, in `recv` before module_recv, in
`sleep` before usleep; `tries` is the loop index. Messages are two half
cells, so that a read can end inside one; `avail` says how many cells the
terminal has. A message is a result code (`ok`, `err`), a text, a report (`qry`, `stat`), or a
`word`: a text or a report of something else that holds what the code looks for, be it a name
with an OK in it or the words of a link report. It comes in an answer to a caller's text
(`FreeText`) or unasked (`Announce`). `Send`/`SendFails`, `Read`/`ReadFails` and `Sleep` are the module's
steps (`CallStep`); `Answer`, `LinkChange`, `Announce`, `Deliver`, `Drop` and `Reboot` are the
modem's and the driver's. What a call writes is a number of command lines and perhaps the beginning
of one more (`Strings`): one line for most functions, one or more for call, any number for
cmd_lte. A write that does not take everything takes nothing, a part, or all but what follows the last CR
(`Beginnings`). What the modem makes of it is `Receives`: a command in its `queue` for each
line, and an unfinished line that waits for its end in `stub` and turns the next line into
`garbled`. `Close` and `Open` stand for new_lte and del_lte as far as the dialogue sees
them: the terminal `tty` is open by the handle in use, held open by a lost one only, or
closed; closing discards what has arrived, and what arrives at a closed
terminal is lost (`Drop`). `FoundOk`, `FoundStat` and `FirstQry` say what KMP_Match finds; that
KMP_Match computes this is the business of `Kmp`. `DigitBehind` is the read of me909s.c:194 behind a
full buffer: status then returns either state or finds none, whatever that byte says. `Misleads` says that what a read
returned only looks like what the function wants, and the history variable `misled` that the
running call has acted on such a read. `InStep` is a synchronous call that began with nothing outstanding and
no unfinished line, has written one command at a time and was not misled; the properties of
the synchronous calls speak of those.

`Lte` with `MCLte` composes the two by INSTANCE. `LteHandle` (`Serial`) runs with its `line` named
`termios`, and `Me909s` (`Dialogue`) with `tty` computed from the descriptors that
new_lte and del_lte left open. `Manage` is any handle call between AT calls, and `Discard` what
the terminal does when its last descriptor closes; `Call`, `Proceed` and `Outside`
are the steps of the dialogue. That `Me909s` may
be read on its own is its property `ImplementsDialogue`. restart is left out of the
composition: the device that comes back after it is a new one, with its own
settings; in `Me909s` it is there. `LteHandle` and `Lte` begin the names of their
`Init`, `Next`, `Spec` and `TypeOK` with their own, so that the theorems of both halves can
stand in one module, `LteProofs`.

`Kmp`. One step per turn of the inner `while` and of the `for` loops of
KMP_GetNext (`FallBack`, `Extend`, `TableDone`) and KMP_Match (`Shift`, `Advance`,
`NotFound`), with the code's zero-based indices.

`Pwm` with `MCPwm`. A call is the list `todo` of the file writes still to be done, and
each write is a step, because the process can die between two of them (`Dies`;
`Load` is the next process). new_pwm builds each path just before the file it names
is opened (`NewPwmWrite`, `NewPwmRaises`), and the path of `enable` only when it returns. In the other
functions a file that does not open is passed to fwrite as NULL: the process
dies. `Accepts` is the kernel's rule (external). Calls refused before they touch
anything (bad arguments, a chip without `export`) are not steps. Attrs multiplies
in a `long` (`Wrap`), which is 32 bits on the target.

`Led` with `MCLed`. `Darken` is one turn of led_exit's double loop, `GiveUp` its return at a
file that does not open; `Killed` can come between two files and `Load` is the next process.
`clear` returns True in any case; that the
interpreter turns a result with a pending exception into SystemError is external.

`Pymodbus` with `MCPymodbus`. `heap`, `slave` and the lines (`asked`, `queue`) stand for what
libmodbus and its peers keep: the shared serial `Bus`, or the connection of one TCP
handle. An RTU answer matches by slave, function and length, a TCP answer by
transaction number (`Matches`); after a timeout nothing is flushed, so late answers
and the rest of split frames stay in `queue`. A request is sent by `Read`; the
call ends by `Receive` or `Timeout` and `Return`. set_timeout has no action of its own: `Timeout`
can happen at any time, whatever the timeout is.

`ModbusDecode` with `MCModbusDecode`. `nb` is the product the code computes, wrapped to
an int as the build does it, and `Quantity` the 16 bits of it that
go into the request. `FetchBits` and `FetchRegisters` fill the array of the function
called; `AddWord` is one turn of the inner loop, `AddItem` the Py_BuildValue of one
item. The loops go by the caller's count and not by `nb`: `ReadBeyond` is where they leave the
array. `Accumulator` gives `ieee` the width of its C type. A float is represented
by its bits, because the code only copies them. In `overrun` memory outside an array
has been touched; what follows is undefined and only `StaysInArrays`, which says when this
happens, speaks of it.

The proofs are in `LteHandleProofs`, `Me909sProofs`, `LteProofs`, `KmpProofs`, `PwmProofs`,
`LedProofs`, `PymodbusProofs` and `ModbusDecodeProofs` (section 4). A definition
marked "Variant" in a module is a fault that a property of that module must notice;
no specification uses it.

## 3. What each run checks

All passing runs are exhaustive over the bounds given.

| run | cfg | shows |
|---|---|---|
| `lte_handle` | LteHandle.cfg | termios settings are a stack, descriptors belong to live handles, freed memory is used only after a failed connect or del_lte, the module is connected exactly when its caller was told so |
| `lte_sync` | Me909sSync.cfg | init, cmd_lte and led, with restart, call, hangup and handles closed and opened between them; strings of no, one or two lines and unfinished ones, short writes, texts and reports with an OK in them: a call that begins with nothing outstanding implements `Exchange` for as long as it stays in step, and if it does, success means accepted and nothing outstanding |
| `lte_report` | Me909sReport.cfg | a link state returned was true during the call or lay unread before it, unless the call was misled by another text or by the byte behind a full buffer; every call returns, and each of its writes, waits and sleeps uses up one of a number fixed at its beginning |
| `lte` | Lte.cfg | the terminal of the handles is the one of the dialogue, through failing, lost and deleted handles, with answers under way; nothing, not even an unfinished line, is written after a failed new_lte or a del_lte |
| `lte_stale_status` | Me909sStale.cfg | violation: status can return the late answer of an earlier status |
| `kmp` | Kmp.cfg | the table holds longest borders, the result is the first occurrence, the search ends after at most two turns for each character |
| `pwm` | Pwm.cfg | attrs and rate take effect, new_pwm sets half a second on, no foreign duty cycle on the line, one chip touched, the chip that runs is stopped at exit |
| `led` | Led.cfg | True from clear means dark; led_exit leaves a dark prefix, also when it is killed |
| `modbus` | Pymodbus.cfg | a poll over TCP, or over a bus with nothing outstanding, implements `Exchange` and returns its own answer; the accepted slave is in force; `mb` is connected exactly when the caller was told so; freed memory only after a failed connect or free |
| `modbus_address` | PymodbusAddress.cfg | violation: on the bus the values of another address can be returned |
| `decode` | ModbusDecode.cfg | items have the bits of their registers, in their type's range; a misfit of type and function gives zeros; when the arrays are left |
| `decode_u32` | ModbusDecodeU32.cfg | violation: U32 comes out negative |

**Bounds and why they are enough.**

* LteHandle: three addresses let two handles be open while a third new_lte
  fails; four configurations cover a default, a rate and a width that fall back to
  others, a refused parity and a refused rate.
* Me909s: `MaxCmd` is two command lines in a behaviour: one call that gives up and a
  later one that reads its answer, an init of two commands (of seven: enough for a loop that goes on and one
  that ends), or one string of two lines (`MaxLines`), whose first OK is
  taken for both. Calls that write no whole line, because a write fails or the string has none, are not bounded. `RxCap`
  is odd, so that a full read splits a message. `LineCap` bounds messages that come unasked: one of them is in
  the line at a time, three in `lte_stale_status`. `MaxCmd` is a guard of `Begin` and
  `Receives`, `LineCap` of `LinkChange` and `Announce`.
* Lte: two addresses (one handle lost while another is used), one
  configuration (the settings do not reach the dialogue), one synchronous and one
  polling function, one command line (strings of two are in `lte_sync`). Addresses are alike, so the states are taken modulo their permutation; no property here is
  a liveness property.
* Kmp: two letters, patterns up to 5 and buffers up to 7 characters: every
  shape of border and of overlapping occurrence of that length.
* Pwm: a `long` of four bits, a second of 4 ns and a millisecond of 2 ns: products
  that fit, that wrap to negative and that wrap to positive values; rates above what a
  period can express; settings longer than a second, which a later new_pwm meets.
* Led: the four files of the code, and one name the board does not have.
* Pymodbus: two addresses; three requests (`MaxReads`, a guard of `Read`): a late answer, its
  victim and the one after that; slave arguments that are a broadcast, a second slave and out
  of range. One shape in `modbus` (other shapes never match), two in `modbus_address`.
  The states are taken modulo permutation of handle addresses, which no
  definition tells apart.
* ModbusDecode: two-bit registers and four of them hold one double, two 32-bit
  items or four single ones. An int has five bits and a request count four, so that the
  counts include negative ones, ones beyond the arrays, and ones whose double or quadruple
  wraps to a negative, a small or an acceptable number.

`CHECK_DEADLOCK FALSE` is set where the program may stop: after undefined behaviour or
exit (LteHandle, Lte, Pymodbus), when the bound on commands is used up (Me909s), and at
the end of an algorithm (Kmp, ModbusDecode).

**Fairness.** `Me909s!FairSpec` assumes weak fairness of `CallStep`: a function that was
entered keeps executing, since select has a timeout and usleep ends. Nothing is assumed of
the modem or of delivery. `Kmp!Spec` assumes that the running loop runs on.
The other specifications state safety only and assume nothing: their calls have no loop
that waits for anybody.

**Findings.** (1) `status` has no way to tell its answer from an earlier one
(me909s.c:190). (2) On the serial bus the example's polling loop can print the values of
one address beside another (pymodbus.c:208): a Modbus RTU answer carries no address
and nothing flushes the line after a timeout; the TCP transaction number prevents it
there. (3) `U32` is returned through the format "i" (pymodbus.c:239).

Weaker statements that the code forces on a property are spelled out in it: `InSync` and
`ImplementsExchange` (a string of cmd_lte may hold several lines or none, and an OK inside another text is taken for
the result code, so only a call in step can be trusted), `StateReport` and `StatusIsCurrent` (the words of
a report may stand in another text, and the digit is read without a look at the buffer's end), `OneSecondOrLonger` (new_pwm
does not take the old duty cycle away, so its period can be refused), `OneChip`
(a new_pwm that raises half way leaves two chips in the paths), `SlaveInForce`
(set_slave stores an address before it refuses it), `NoUseAfterFree` (two
outcomes leave a dangling pointer), `AnswersItsRequest` (only a clean bus is safe),
`StaysInArrays` (a bit read is not limited to the array, and a product of ints can overflow).

## 4. What is proved

TLAPS checks these for every value of the constants that the named ASSUMEs admit: any
number of handles, commands, chips, files, requests and registers, and any widths.
Every safety property of every passing run is proved.

`LteHandleProofs`
* `HandleTypeCorrect`, `SettingsStackCorrect`, `NoOrphanDescriptorCorrect`. The invariant is
  `HandleInv`: `HandleTypeOK`, `SettingsStack` and `NoOrphanDescriptor` together with
  `OpenedOnce` (no address occurs twice in `opened`). None is inductive alone: closing
  removes `ctx` from `opened`, which keeps the stack only because a live `ctx` is the newest
  entry and occurs once; opening appends an address that is not live, which by
  `NoOrphanDescriptor` is not yet in `opened`. `CloseStep`, `OpenStep` and `FailedNew` are the
  three kinds of step.
* `NoUseAfterFreeCorrect`, from `DanglingKnown`: a dangling `ctx` was left by a failed
  connect or by del_lte, and `last` still says so.
* `OutcomeHoldsCorrect`. `OutcomeHolds` is inductive with the types: every failure leaves in `ctx`
  NULL or an address that is not allocated, and no later call allocates that address without
  storing something else in `ctx`.

`Me909sProofs`
* `TypeCorrect`. `StringShape`, `Written1` and `Sent` say what a string, or the beginning of one, adds to the
  modem's queue.
* `InSyncCorrect`, from `InCall`: a call in step either waits for the answer to the command it wrote last and
  for nothing else (`Waits`), the earlier commands of init having been accepted, or has nothing
  outstanding (`Quiet`). `TrueOk` says that an OK found by a call that is not misled is a result code,
  `OneAnswer` and `OwnOk` that it is then the awaited one, and
  that reading it leaves nothing. A call that is out of step stays so until it returns (`StaysOut`).
* `ExchangeImplemented`, from `InCall` and `IdsKnown` (no message names a command that was not
  sent): every step is a step of `Exchange` or leaves its variables alone; the step by which a call gets
  out of step is `Forfeit`.
* `StateReportCorrect`, from `ReportsKnown`: each report that the running function may read, on the line or
  still to come, is of a state in `seen` or in `unread`. `ReadReport` says that a state returned by a call
  that is not misled is that of such a report.
* `BoundedWaitCorrect`, from `TurnsInv`: the loop indices are within their turns, the functions
  that wait for nothing never reach `recv`, and only the polling ones reach `sleep`. `StepsLeft`
  is then a natural number that each step of the call lowers (`CallTurn`) and no other step
  changes (`OtherTurn`). This is the argument for `CallReturns` but for fairness: a call takes at
  most `2 * Commands(op)` steps, or 7 for status, online and offline.

`LteProofs` takes in the theorems of both halves by INSTANCE, each over what the other provides;
`SameDialogue` and `SameHandles` say that these are the formulas that `Lte` uses.
* `DialogueImplemented`. What a handle call can do to the terminal is one of four
  things (`HandleEffect`): nothing, losing the open handle, opening, closing. Each is `Close`, `Open`
  or a stutter of `Me909s`, for which `HandleInv` adds that a connected `ctx` is among the
  opened ones.
* `LteTypeCorrect`: types and bounds of the whole; a terminal that nobody has open holds nothing to read. (While a
  lost handle keeps it open it does, and the next handle reads what came for an earlier one.)
* `LteInSync`, `LteExchange`, `LteStateReport`, `LteBoundedWait`: by
  `DialogueImplemented`, what is proved of `Me909s` holds of the module as a whole, whose
  terminal is the handles' and not a variable of its own. `LteLineRestored` is the same for the
  handles, between whose calls any number of AT calls may run.
* `LteCommandsFollowConnect` needs both halves: a command, or an unfinished line, is written through a connected `ctx`, which
  by `OutcomeHolds` means that the last new_lte said so, and the interpreter cannot exit
  while a call runs.

`KmpProofs`
* `TypeCorrect`, `TableIsBordersCorrect`, `FirstOccurrenceCorrect`, from `KmpInv`. In the first
  loop `k` is a border of what has been read, the entries so far are longest borders, and every border
  longer than `k` fails at the next character. In the second the last `j` characters are
  the pattern's first, and no earlier position is an occurrence. Falling back keeps
  both because a border of a border is a border, and the longest border's longest border
  is the next longest.
* `LinearTimeCorrect`: `TurnsLeft` is at first twice the number of characters, and each turn lowers it,
  because falling back shortens the border or the match, and lengthening it takes a character
  (an entry of the table is at most its index, by `KmpInv`).

`PwmProofs`
* `TypeCorrect`, `AppliedCorrect`, `NoForeignRatioCorrect`, `OneSecondOrLongerCorrect`,
  `StoppedAtExitCorrect`, `OneChipCorrect`, from `PwmInv`. For each suffix of `todo` it
  says what the chip holds by then: attrs and rate begin with duty cycle 0, so the kernel accepts the
  period, and then the duty cycle; new_pwm's second can be refused, but only for a duty
  cycle, and with it a period, that is longer than a second already. What runs is the chip in the path of
  `enable`, or one that a new_pwm replaced.

`LedProofs`
* `TypeCorrect`, `PrefixDarkCorrect`, `TrueMeansDarkCorrect`, from `LedInv` (an exception is pending only
  inside a call).

`PymodbusProofs`
* `TypeCorrect`, from `HandleKnown`; `SlaveInForceCorrect`, from `ForceInv` (unless an address
  was refused, the static variable holds the accepted one); `NoUseAfterFreeCorrect`, from
  `DanglingKnown`; `OutcomeHoldsCorrect`: only new_rtu, new_tcp and free decide what `mb` is,
  and each failure of theirs leaves it NULL or freed, never the earlier connection.
* `AnswersItsRequestCorrect`, from `AnswerInv`: on a line that was clean when the request was sent, all that is
  asked or queued is of this request; on TCP the number decides. `ExchangeImplemented` adds that no
  frame is of a request still to come.

`ModbusDecodeProofs`
* `TypeCorrect`: the types, and that what has been decoded lay in the array (a turn beyond it
  ends in `overrun`, where nothing is added). `LoopInv` adds that only the array of the function called has been filled
  and that nothing has been read before the request.
* `StaysInArraysCorrect`: a turn beyond the array means that the product is more than
  `MaxRegs`, which libmodbus would have refused had it fitted.
* `BitsExactCorrect`, from `Exact`: modulo the width of the item, `ieee` is the sum of the registers
  added so far (`Upto`), and each item in the list is the number of its registers. Wrapping and
  casting change a number by a multiple of the width (`Cong`, `SignedFacts`). That a list was returned at all
  means that the loops stayed in the array, hence that the product fitted.
* `RangeOfTypeCorrect` and `MisfitIsZeroCorrect`.

**Only model-checked.** Liveness (`CallReturns`, `SearchEnds`): fairness is out of the proof
system's reach. The bounds they rest on are proved (`BoundedWaitCorrect`, `LinearTimeCorrect`);
what TLC adds is that the code is never stuck before its end.

## 5. What is not modelled

* The wording of AT commands: a string is its lines, and a message is what the patterns make of it. The
  NULs that init writes behind its commands mean nothing to the modem. Result codes are words: nobody sends
  ATV0, after which no call would find an OK at all.
* The length of the number in `call`, which the code never
  compares with its buffer; the udhcpc process that online starts.
* What cmd_lte returns behind a full buffer, which has no terminator. The byte that status reads there is
  modelled as any value (`DigitBehind`).
* The Windows branches, and module_set_byte_timeout, module_get_byte_timeout
  and _uarts_flush, which are not compiled or not called.
* libmodbus, the modem, the kernel's pwm and leds drivers and the interpreter, except for
  what the code relies on; those definitions are marked external.
* Several processes that use one chip, one board or one line at once.
* The number of open descriptors: new_pwm never closes its directory
  stream, so opens may fail, and every open in Pwm may. Connections that new_rtu or new_tcp
  replaces stay open in `Pymodbus` and are not counted.
* The parsing of argument lists (a new_lte that cannot parse its own changes nothing) and of the type name in read_registers.
* restart inside `Lte` (section 2), and with it a reset that a string of cmd_lte asks for there.
* Third-party code. The repository's own code is the six files under `src/c_modules` that
  the map covers, about 2,200 lines. The rest, more than 99% of the lines, is
  openssl 1.0.2j, openswan, readline, termcap, strongswan and sysv_ipc as their projects released them, with
  build scripts: nothing in the six files calls it, but for libmodbus, whose source is here only
  as an archive. Modelling some of it would say nothing about this
  program, so the share of all lines that is mapped stays small.
* `src/libmodbus-3.1.4/example/pymodbus.c` is the same file as the one in
  `src/c_modules/modbus`, and is not mapped a second time.

## 6. What is left

Everything the plan listed is done: the six sources, the composition, the abstract
exchange and both refinements, and a proof of every safety property, of the components and of
the composition.
What could still be added:

* a careful caller: a program on top of `Lte` that never calls while something is
  outstanding, with liveness under a modem that answers in time;
* the argument of call as a sequence of characters, for the bound of `cmd` (me909s.c:276), and
  a count of descriptors (pwm.c:67, pymodbus.c:59); both are hazards without a
  property, because the code does nothing about them that a property could state.

------------------------------- MODULE Pymodbus -------------------------------
(***************************************************************************)
(* pymodbus.c: the one static modbus_t that new_rtu and new_tcp create,    *)
(* free_rtu and free_tcp free, and read_registers polls with, over the     *)
(* libmodbus 3.1.4 it is linked with and the slaves at the other end.      *)
(*                                                                         *)
(* libmodbus is external and modelled by what these calls do in it: no     *)
(* error recovery (the default), so nothing that comes late is ever        *)
(* flushed; an RTU answer is accepted by its slave, function and length, a *)
(* TCP answer by its transaction number.                                   *)
(***************************************************************************)
EXTENDS Integers, Sequences, FiniteSets

CONSTANTS
    Handles,      \* addresses modbus_new_* can return
    NULL,
    Bus,          \* the serial line, shared by all RTU handles
    MaxSlave,     \* the highest slave address: 247 in the code
    Present,      \* the slaves that answer on the bus
    AddrArgs,     \* what callers pass to set_slave
    Shapes,       \* function code and number of items of a request
    MaxReads      \* bound: number of read_registers calls that send something

ASSUME HandlesAssumption == IsFiniteSet(Handles) /\ NULL \notin Handles /\ Bus \notin Handles
ASSUME SlavesAssumption ==
    /\ MaxSlave \in Nat \ {0}
    /\ Present \subseteq 1 .. MaxSlave
    /\ AddrArgs \subseteq Int
    /\ MaxReads \in Nat

VARIABLES
    mb,          \* the static handle
    slave_addr,  \* the static slave address
    heap,        \* what is at each address: "free", "freed", "rtu" or "tcp"
    slave,       \* the slave address inside each handle
    asked,       \* per line: requests that nobody has answered yet
    queue,       \* per line: answers received and not read
    req,         \* the request of the read_registers that runs, or NoReq
    outcome,     \* what libmodbus made of it: "none", "error", or an answer
    reads,       \* number of requests sent
    fault,       \* "none", "freed" (freed memory used), "abort" (an assertion)
    \* history, read by the properties only:
    clean,       \* nothing was outstanding on the line when req was sent
    accepted,    \* the latest address that set_slave accepted
    refused,     \* set_slave has refused an address since
    last         \* what left mb as it is

line  == <<asked, queue>>
poll  == <<req, outcome, reads, clean>>
names == <<accepted, refused>>
vars  == <<mb, slave_addr, heap, slave, line, poll, fault, names, last>>

NotSet   == -1     \* the slave of a new RTU handle
TcpSlave == 255    \* the unit of a new TCP handle
NoReq    == [id |-> 0, slave |-> 0, shape |-> "none"]
None     == [kind |-> "none", id |-> 0]
Error    == [kind |-> "error", id |-> 0]
Data(n)  == [kind |-> "data", id |-> n]

Open(h)  == heap[h] \in {"rtu", "tcp"}
LineOf(h) == IF heap[h] = "rtu" THEN Bus ELSE h
Dangling == mb # NULL /\ heap[mb] = "freed"
Idle     == fault = "none" /\ req = NoReq

-----------------------------------------------------------------------------
(* new_rtu and new_tcp *)

\* Variant: the new handle goes to mb only once there is one, so a refusal keeps
\* the connection that mb had.
RefusedKeepsHandle ==
    /\ Idle
    /\ last' = "refused"
    /\ UNCHANGED <<mb, slave_addr, heap, slave, line, poll, fault, names>>

\* modbus_new_rtu or modbus_new_tcp refuses the parameters.
NewRefused ==
    /\ Idle
    /\ mb' = NULL /\ last' = "refused"
    /\ UNCHANGED <<slave_addr, heap, slave, line, poll, fault, names>>

\* Variant: the connection that fails keeps its modbus_t.
ConnectFailureLeaks ==
    /\ Idle
    /\ \E h \in Handles :
          /\ ~Open(h)
          /\ heap' = [heap EXCEPT ![h] = "unconnected"]
          /\ mb' = h
    /\ last' = "connect_failed"
    /\ UNCHANGED <<slave_addr, slave, line, poll, fault, names>>

\* Variant: a second new_rtu frees the handle of the first one before it connects,
\* and a failure leaves mb naming it.
ConnectFailureFreesOld ==
    /\ Idle /\ mb # NULL /\ Open(mb)
    /\ heap' = [heap EXCEPT ![mb] = "freed"]
    /\ last' = "refused"
    /\ UNCHANGED <<mb, slave_addr, slave, line, poll, fault, names>>

\* modbus_connect fails: the object is freed and mb still names it.
ConnectFails ==
    /\ Idle
    /\ \E h \in Handles :
          /\ ~Open(h)
          /\ heap' = [heap EXCEPT ![h] = "freed"]
          /\ mb' = h
    /\ last' = "connect_failed"
    /\ UNCHANGED <<slave_addr, slave, line, poll, fault, names>>

\* modbus_set_slave, whose result is ignored: out of range, the handle keeps what
\* it had.
SetIn(old, a) == IF a \in 0 .. MaxSlave THEN a ELSE old

\* Variant: the new handle is not told the slave address.
DefaultSlave(kind, a) == IF kind = "rtu" THEN NotSet ELSE TcpSlave

NewSlave(kind, a) == SetIn(IF kind = "rtu" THEN NotSet ELSE TcpSlave, a)

\* The handle that mb held, if any, stays open.
Connect(kind) ==
    /\ Idle
    /\ \E h \in Handles :
          /\ ~Open(h)
          /\ heap' = [heap EXCEPT ![h] = kind]
          /\ slave' = [slave EXCEPT ![h] = NewSlave(kind, slave_addr)]
          /\ mb' = h
    /\ last' = "connected"
    /\ UNCHANGED <<slave_addr, line, poll, fault, names>>

-----------------------------------------------------------------------------
(* free_rtu, free_tcp, set_slave *)

UseFreed ==
    /\ fault' = "freed"
    /\ UNCHANGED <<mb, slave_addr, heap, slave, line, poll, names, last>>

\* The last one to close a line loses what it received; a TCP connection ends.
Free ==
    /\ Idle /\ mb # NULL /\ ~Dangling
    /\ heap' = [heap EXCEPT ![mb] = "freed"]
    /\ LET silent == IF heap[mb] = "tcp" THEN {mb}
                     ELSE IF \E h \in Handles \ {mb} : heap[h] = "rtu" THEN {} ELSE {Bus}
       IN  queue' = [l \in DOMAIN queue |-> IF l \in silent THEN <<>> ELSE queue[l]]
    /\ asked' = IF heap[mb] = "tcp" THEN [asked EXCEPT ![mb] = <<>>] ELSE asked
    /\ last' = "freed"
    /\ UNCHANGED <<mb, slave_addr, slave, poll, fault, names>>

FreeTwice == Idle /\ Dangling /\ UseFreed

\* The argument is parsed into the static variable before its range is checked.
SetSlaveRefused(a) ==
    /\ Idle /\ a \notin 0 .. MaxSlave
    /\ slave_addr' = a /\ refused' = TRUE
    /\ UNCHANGED <<mb, heap, slave, line, poll, fault, accepted, last>>

SetSlave(a) ==
    /\ Idle /\ a \in 0 .. MaxSlave
    /\ slave_addr' = a /\ accepted' = a /\ refused' = FALSE
    /\ IF mb = NULL THEN UNCHANGED <<slave, fault>>
       ELSE IF Dangling THEN fault' = "freed" /\ UNCHANGED slave
       ELSE slave' = [slave EXCEPT ![mb] = SetIn(@, a)] /\ UNCHANGED fault
    /\ UNCHANGED <<mb, heap, line, poll, last>>

-----------------------------------------------------------------------------
(* read_registers *)

\* libmodbus sends the request; without a handle it only returns an error.
Read(s) ==
    /\ Idle /\ mb # NULL /\ ~Dangling /\ reads < MaxReads
    /\ slave[mb] # NotSet
    /\ LET l == LineOf(mb)
           r == [id |-> reads + 1, slave |-> slave[mb], shape |-> s]
       IN  /\ req' = r
           /\ asked' = [asked EXCEPT ![l] = Append(@, r)]
           /\ clean' = (asked[l] = <<>> /\ queue[l] = <<>>)
    /\ reads' = reads + 1
    /\ UNCHANGED <<mb, slave_addr, heap, slave, queue, outcome, fault, names, last>>

\* assert(ctx->slave != -1) in the RTU backend.
ReadAborts ==
    /\ Idle /\ mb # NULL /\ ~Dangling /\ slave[mb] = NotSet
    /\ fault' = "abort"
    /\ UNCHANGED <<mb, slave_addr, heap, slave, line, poll, names, last>>

\* read_registers, or set_timeout, which changes nothing else that matters here.
ReadFreed == Idle /\ Dangling /\ UseFreed

Reading == fault = "none" /\ req # NoReq /\ outcome = None

\* An answer is taken for the request's; any slave may answer a broadcast.
Matches(r, a) ==
    /\ a.kind = "data"
    /\ IF heap[mb] = "tcp" THEN a.id = r.id
       ELSE a.shape = r.shape /\ (a.slave = r.slave \/ r.slave = 0)

\* Variant: the result -1 is not looked at.
AnyResult(r, a) == Data(a.id)

\* modbus_read_* returns the number of items, or -1 and read_registers raises.
Result(r, a) == IF Matches(r, a) THEN Data(a.id) ELSE Error

\* One frame is read, or the rest of one that came in two parts, which takes the
\* beginning of the next along when there is one.
Receive ==
    /\ Reading
    /\ LET l == LineOf(mb)
           q == queue[l]
       IN  /\ q # <<>>
           /\ outcome' = Result(req, Head(q))
           /\ \/ queue' = [queue EXCEPT ![l] = Tail(q)]
              \/ /\ Head(q).kind = "rest" /\ Tail(q) # <<>>
                 /\ queue' = [queue EXCEPT ![l] = [Tail(q) EXCEPT ![1].kind = "rest"]]
    /\ UNCHANGED <<mb, slave_addr, heap, slave, asked, req, reads, clean, fault, names, last>>

\* Nothing came within the response timeout, or only a part of a frame.
Timeout ==
    /\ Reading
    /\ LET l == LineOf(mb)
           q == queue[l]
       IN  \/ q = <<>> /\ UNCHANGED queue
           \/ Len(q) = 1 /\ queue' = [queue EXCEPT ![l] = [q EXCEPT ![1].kind = "rest"]]
    /\ outcome' = Error
    /\ UNCHANGED <<mb, slave_addr, heap, slave, asked, req, reads, clean, fault, names, last>>

Return ==
    /\ fault = "none" /\ outcome # None
    /\ req' = NoReq /\ outcome' = None /\ clean' = FALSE
    /\ UNCHANGED <<mb, slave_addr, heap, slave, line, reads, fault, names, last>>

-----------------------------------------------------------------------------
(* The other end *)

\* Somebody can read what arrives on line l.
Held(l) == \E h \in Handles : Open(h) /\ LineOf(h) = l

\* The next request of a line is answered, with data or with an exception, or
\* never: its slave is absent, or a frame is lost.  A broadcast is not answered.
Answer(l) ==
    /\ fault = "none" /\ asked[l] # <<>>
    /\ asked' = [asked EXCEPT ![l] = Tail(@)]
    /\ \/ UNCHANGED queue
       \/ /\ Held(l)
          /\ l = Bus => Head(asked[l]).slave \in Present
          /\ \E kind \in {"data", "exception"} :
                queue' = [queue EXCEPT ![l] =
                   Append(@, [kind |-> kind, id |-> Head(asked[l]).id,
                              slave |-> Head(asked[l]).slave,
                              shape |-> Head(asked[l]).shape])]
    /\ UNCHANGED <<mb, slave_addr, heap, slave, poll, fault, names, last>>

-----------------------------------------------------------------------------
Init ==
    /\ mb = NULL /\ slave_addr = 1
    /\ heap = [h \in Handles |-> "free"] /\ slave = [h \in Handles |-> NotSet]
    /\ asked = [l \in Handles \cup {Bus} |-> <<>>]
    /\ queue = [l \in Handles \cup {Bus} |-> <<>>]
    /\ req = NoReq /\ outcome = None /\ reads = 0 /\ clean = FALSE
    /\ fault = "none"
    /\ accepted = 1 /\ refused = FALSE /\ last = "none"

Next ==
    \/ NewRefused \/ ConnectFails
    \/ \E kind \in {"rtu", "tcp"} : Connect(kind)
    \/ Free \/ FreeTwice
    \/ \E a \in AddrArgs : SetSlaveRefused(a) \/ SetSlave(a)
    \/ \E s \in Shapes : Read(s)
    \/ ReadAborts \/ ReadFreed \/ Receive \/ Timeout \/ Return
    \/ \E l \in Handles \cup {Bus} : Answer(l)

Spec == Init /\ [][Next]_vars

-----------------------------------------------------------------------------
(* Properties *)

Lines    == Handles \cup {Bus}
Requests == [id : 1 .. MaxReads, slave : AddrArgs \cup {1, TcpSlave}, shape : Shapes]
Frames   == [kind : {"data", "exception", "rest"}, id : 1 .. MaxReads,
             slave : AddrArgs \cup {1, TcpSlave}, shape : Shapes]

\* Types; a handle is either free or connected; and only a connected one is read
\* from: whatever fails gives back what it allocated.
TypeOK ==
    /\ mb \in Handles \cup {NULL}
    /\ slave_addr \in AddrArgs \cup {1}
    /\ heap \in [Handles -> {"free", "freed", "rtu", "tcp"}]
    /\ slave \in [Handles -> AddrArgs \cup {1, NotSet, TcpSlave}]
    /\ asked \in [Lines -> Seq(Requests)]
    /\ queue \in [Lines -> Seq(Frames)]
    /\ req \in Requests \cup {NoReq}
    /\ outcome \in {None, Error} \cup {Data(n) : n \in 1 .. MaxReads}
    /\ req # NoReq => mb # NULL /\ Open(mb)
    /\ reads \in 0 .. MaxReads
    /\ fault \in {"none", "freed", "abort"}
    /\ clean \in BOOLEAN /\ refused \in BOOLEAN
    /\ accepted \in 0 .. MaxSlave
    /\ last \in {"none", "refused", "connect_failed", "connected", "freed"}

\* read_registers returns what was asked for: always over TCP, and on the bus when
\* nothing was outstanding before it.  It then leaves nothing outstanding.
AnswersItsRequest ==
    outcome.kind = "data" =>
       /\ heap[mb] = "tcp" \/ clean => outcome.id = req.id
       /\ clean => asked[LineOf(mb)] = <<>> /\ queue[LineOf(mb)] = <<>>

\* A call whose answer can be relied on: the transaction number tells it from any
\* other over TCP, and on the bus nothing else is under way.
Trusted    == req # NoReq /\ (heap[mb] = "tcp" \/ clean)
TrustedNow == Trusted /\ outcome = None

IsAnswer(k) ==
    LET a == queue[LineOf(mb)][k] IN a.kind = "data" /\ a.id = req.id

Size     == IF TrustedNow THEN 1 ELSE 0
Answered ==
    IF TrustedNow /\ \E k \in 1 .. Len(queue[LineOf(mb)]) : IsAnswer(k) THEN {1} ELSE {}
Report   ==
    IF ~Trusted \/ outcome = None THEN "none" ELSE IF outcome = Error THEN "failed" ELSE "ok"

Promise == INSTANCE Exchange WITH
    MayForfeit <- FALSE,
    size <- Size, asked <- Size, answered <- Answered, result <- Report

\* Such a call is an exchange of one question: it returns a list only when the
\* slave has answered this very request with data, and no answer to an earlier or
\* a refused request, nor a piece of one, makes it succeed.
ImplementsExchange == Promise!Spec

\* The handle talks to the slave that set_slave accepted last, however it and
\* new_rtu, new_tcp and free came one after the other, unless set_slave has refused
\* an address since; the assertion in libmodbus fails only then.
SlaveInForce ==
    /\ ~refused /\ mb # NULL => (Open(mb) => slave[mb] = accepted)
    /\ fault = "abort" => refused

\* mb is connected exactly when the last new_rtu, new_tcp (of arguments it could parse)
\* or free told its caller so: after a new_tcp that failed nothing is polled through
\* the earlier connection, though that one is still open and never closed.
OutcomeHolds == last = "connected" <=> mb # NULL /\ Open(mb)

\* Freed memory is used only after a connection that failed or a free.
NoUseAfterFree ==
    [][fault' = "freed" /\ fault # "freed" => last \in {"connect_failed", "freed"}]_vars

\* test.py prints the values of a read_registers beside the address it asked for:
\* they belong together.
ReadsItsAddress == outcome.kind = "data" => outcome.id = req.id
==============================================================================

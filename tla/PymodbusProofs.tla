---------------------------- MODULE PymodbusProofs ----------------------------
(***************************************************************************)
(* Proofs about Pymodbus, for any number of handles, slaves and requests.  *)
(***************************************************************************)
EXTENDS Pymodbus, TLAPS, SequenceTheorems

-----------------------------------------------------------------------------
(* Sequences of records *)

\* A sequence of one.
LEMMA SingleFrame ==
    ASSUME NEW S, NEW s \in Seq(S), Len(s) = 1
    PROVE  s # <<>> /\ Head(s) = s[1] /\ Tail(s) = <<>>
  <1>1. s # <<>> /\ Head(s) = s[1]
    OBVIOUS
  <1>2. Tail(s) \in Seq(S) /\ Len(Tail(s)) = 0
    BY <1>1
  <1> QED BY <1>1, <1>2, EmptySeq

\* A sequence written as one.
LEMMA Single ==
    ASSUME NEW e
    PROVE  Head(<<e>>) = e /\ Tail(<<e>>) = <<>> /\ Len(<<e>>) = 1 /\ <<e>>[1] = e
  <1>1. <<e>> \in Seq({e}) /\ Len(<<e>>) = 1 /\ <<e>>[1] = e
    OBVIOUS
  <1> QED BY <1>1, SingleFrame

\* Appending keeps the type.
LEMMA AppendType ==
    ASSUME NEW S, NEW s \in Seq(S), NEW e \in S
    PROVE  Append(s, e) \in Seq(S)
  OBVIOUS

\* Taking the first keeps the type.
LEMMA TailType ==
    ASSUME NEW S, NEW s \in Seq(S), s # <<>>
    PROVE  Tail(s) \in Seq(S) /\ Head(s) \in S
  BY EmptySeq

\* What a frame becomes when its first part has been read.
LEMMA RestType ==
    ASSUME NEW q \in Seq(Frames), q # <<>>
    PROVE  /\ [q EXCEPT ![1].kind = "rest"] \in Seq(Frames)
           /\ Len([q EXCEPT ![1].kind = "rest"]) = Len(q)
  <1>1. 1 \in 1 .. Len(q) /\ q[1] \in Frames
    BY EmptySeq
  <1>2. [q[1] EXCEPT !.kind = "rest"] \in Frames
    BY <1>1 DEF Frames
  <1> QED BY <1>1, <1>2

-----------------------------------------------------------------------------
(* TypeOK *)

\* modbus_set_slave stores an argument or leaves what it had.
LEMMA SetInRange ==
    ASSUME NEW old, NEW a \in AddrArgs \cup {1}
    PROVE  SetIn(old, a) = old \/ SetIn(old, a) \in AddrArgs \cup {1}
  BY DEF SetIn

\* new_rtu and new_tcp keep the types.
LEMMA ConnectType ==
    ASSUME TypeOK, NEW kind \in {"rtu", "tcp"}, Connect(kind)
    PROVE  TypeOK'
  <1>1. PICK h \in Handles :
           /\ heap' = [heap EXCEPT ![h] = kind]
           /\ slave' = [slave EXCEPT ![h] = NewSlave(kind, slave_addr)]
           /\ mb' = h
    BY DEF Connect
  <1>2. NewSlave(kind, slave_addr) \in AddrArgs \cup {1, NotSet, TcpSlave}
    BY SetInRange DEF NewSlave, TypeOK
  <1>3. /\ heap' \in [Handles -> {"free", "freed", "rtu", "tcp"}]
        /\ slave' \in [Handles -> AddrArgs \cup {1, NotSet, TcpSlave}]
        /\ mb' \in Handles \cup {NULL}
    BY <1>1, <1>2 DEF TypeOK
  <1> QED BY <1>3 DEF Connect, Idle, TypeOK, Open, line, poll, names

\* So do their failures and free_rtu and free_tcp.
LEMMA HandleType ==
    ASSUME TypeOK, NewRefused \/ ConnectFails \/ Free
    PROVE  TypeOK'
  <1>1. CASE NewRefused
    BY <1>1 DEF NewRefused, Idle, TypeOK, Open, line, poll, names
  <1>2. CASE ConnectFails
    BY <1>2 DEF ConnectFails, Idle, TypeOK, Open, line, poll, names
  <1>3. CASE Free
    <2>1. /\ mb \in Handles /\ req = NoReq
          /\ heap' = [heap EXCEPT ![mb] = "freed"]
          /\ asked' = IF heap[mb] = "tcp" THEN [asked EXCEPT ![mb] = <<>>] ELSE asked
          /\ UNCHANGED <<mb, slave_addr, slave, poll, fault, names>> /\ last' = "freed"
      BY <1>3 DEF Free, Idle, TypeOK
    <2>2. queue' \in [Lines -> Seq(Frames)]
      <3>1. PICK silent : queue' = [l \in DOMAIN queue |->
                                      IF l \in silent THEN <<>> ELSE queue[l]]
        BY <1>3 DEF Free
      <3> QED BY <3>1 DEF TypeOK
    <2>3. asked' \in [Lines -> Seq(Requests)]
      BY <2>1 DEF TypeOK, Lines
    <2>4. heap' \in [Handles -> {"free", "freed", "rtu", "tcp"}]
      BY <2>1 DEF TypeOK
    <2> QED BY <2>1, <2>2, <2>3, <2>4 DEF TypeOK, poll, names
  <1> QED BY <1>1, <1>2, <1>3

\* So do set_slave, the calls that abort, and the return.
LEMMA CallType ==
    ASSUME TypeOK,
           \/ FreeTwice \/ ReadAborts \/ ReadFreed \/ Return
           \/ \E a \in AddrArgs : SetSlaveRefused(a) \/ SetSlave(a)
    PROVE  TypeOK'
  <1>1. CASE FreeTwice \/ ReadFreed
    BY <1>1 DEF FreeTwice, ReadFreed, UseFreed, TypeOK, Open, line, poll, names
  <1>2. CASE ReadAborts
    BY <1>2 DEF ReadAborts, TypeOK, Open, line, poll, names
  <1>3. CASE Return
    BY <1>3 DEF Return, TypeOK, Open, line, names
  <1>4. ASSUME NEW a \in AddrArgs, SetSlaveRefused(a) PROVE TypeOK'
    BY <1>4 DEF SetSlaveRefused, TypeOK, Open, line, poll
  <1>5. ASSUME NEW a \in AddrArgs, SetSlave(a) PROVE TypeOK'
    <2>1. slave' \in [Handles -> AddrArgs \cup {1, NotSet, TcpSlave}]
      BY <1>5, SetInRange DEF SetSlave, TypeOK
    <2>2. fault' \in {"none", "freed", "abort"}
      BY <1>5 DEF SetSlave, TypeOK
    <2> QED BY <1>5, <2>1, <2>2 DEF SetSlave, TypeOK, Open, line, poll
  <1> QED BY <1>1, <1>2, <1>3, <1>4, <1>5

\* The handle in use has a line.
LEMMA LineIsLine ==
    ASSUME TypeOK, mb \in Handles
    PROVE  LineOf(mb) \in Lines
  BY DEF LineOf, Lines

\* mb names an address that modbus_new_* has returned, never a fresh one.
HandleKnown == mb # NULL => heap[mb] # "free"

\* Every step keeps mb at memory that was given out at some time.
LEMMA HandleKnownStep ==
    ASSUME TypeOK, HandleKnown, [Next]_vars
    PROVE  HandleKnown'
  <1>1. CASE NewRefused \/ ConnectFails
    BY <1>1 DEF NewRefused, ConnectFails, HandleKnown, TypeOK
  <1>2. ASSUME NEW kind \in {"rtu", "tcp"}, Connect(kind) PROVE HandleKnown'
    BY <1>2 DEF Connect, HandleKnown, TypeOK
  <1>3. CASE Free
    BY <1>3 DEF Free, HandleKnown, TypeOK
  <1>4. CASE UNCHANGED <<mb, heap>>
    BY <1>4 DEF HandleKnown
  <1>5. \/ NewRefused \/ ConnectFails \/ Free \/ UNCHANGED <<mb, heap>>
        \/ \E kind \in {"rtu", "tcp"} : Connect(kind)
    BY DEF Next, FreeTwice, ReadFreed, UseFreed, SetSlaveRefused, SetSlave, Read,
           ReadAborts, Receive, Timeout, Return, Answer, vars
  <1> QED BY <1>1, <1>2, <1>3, <1>4, <1>5

\* read_registers keeps the types when it sends its request,
LEMMA ReadType ==
    ASSUME TypeOK, HandleKnown, NEW s \in Shapes, Read(s)
    PROVE  TypeOK'
  <1>1. /\ mb \in Handles /\ Open(mb)
    BY DEF Read, Dangling, Open, HandleKnown, TypeOK
  <1> DEFINE l == LineOf(mb)
             r == [id |-> reads + 1, slave |-> slave[mb], shape |-> s]
  <1>2. /\ req' = r /\ asked' = [asked EXCEPT ![l] = Append(@, r)] /\ reads' = reads + 1
        /\ UNCHANGED <<mb, slave_addr, heap, slave, queue, outcome, fault, names, last>>
        /\ clean' \in BOOLEAN
    BY DEF Read
  <1>3. r \in Requests
    <2>1. reads + 1 \in 1 .. MaxReads
      BY SlavesAssumption DEF Read, TypeOK
    <2>2. slave[mb] \in AddrArgs \cup {1, TcpSlave}
      BY <1>1 DEF Read, TypeOK
    <2> QED BY <2>1, <2>2 DEF Requests
  <1>4. asked' \in [Lines -> Seq(Requests)]
    <2>1. asked[l] \in Seq(Requests) /\ l \in Lines
      BY <1>1, LineIsLine DEF TypeOK
    <2> HIDE DEF l, r
    <2>2. Append(asked[l], r) \in Seq(Requests)
      BY <1>3, <2>1, AppendType
    <2> QED BY <1>2, <2>1, <2>2 DEF TypeOK
  <1>5. reads' \in 0 .. MaxReads
    BY <1>2, SlavesAssumption DEF Read, TypeOK
  <1> HIDE DEF r
  <1>6. Open(mb)' /\ mb' # NULL
    BY <1>1, <1>2, HandlesAssumption DEF Open
  <1> QED BY <1>2, <1>3, <1>4, <1>5, <1>6 DEF TypeOK, names

\* when it gets an answer or times out,
LEMMA ReceiveType ==
    ASSUME TypeOK, Receive \/ Timeout
    PROVE  TypeOK'
  <1>1. /\ mb \in Handles
        /\ UNCHANGED <<mb, slave_addr, heap, slave, asked, req, reads, clean, fault, names, last>>
    BY DEF Receive, Timeout, Reading, TypeOK
  <1> DEFINE l == LineOf(mb)
             q == queue[l]
  <1>2. l \in Lines /\ q \in Seq(Frames)
    BY <1>1, LineIsLine DEF TypeOK
  <1>3. CASE Receive
    <2>1. /\ q # <<>> /\ outcome' = Result(req, Head(q))
          /\ \/ queue' = [queue EXCEPT ![l] = Tail(q)]
             \/ /\ Tail(q) # <<>>
                /\ queue' = [queue EXCEPT ![l] = [Tail(q) EXCEPT ![1].kind = "rest"]]
      BY <1>3 DEF Receive
    <2> HIDE DEF l, q
    <2>2. Tail(q) \in Seq(Frames) /\ Head(q) \in Frames
      BY <1>2, <2>1, TailType
    <2>3. queue' \in [Lines -> Seq(Frames)]
      BY <1>2, <2>1, <2>2, RestType DEF TypeOK
    <2>4. outcome' \in {None, Error} \cup {Data(n) : n \in 1 .. MaxReads}
      <3>1. Head(q).id \in 1 .. MaxReads
        BY <2>2 DEF Frames
      <3> QED BY <2>1, <3>1 DEF Result
    <2> QED BY <1>1, <2>3, <2>4 DEF TypeOK, names, Open
  <1>4. CASE Timeout
    <2>1. /\ outcome' = Error
          /\ \/ UNCHANGED queue
             \/ Len(q) = 1 /\ queue' = [queue EXCEPT ![l] = [q EXCEPT ![1].kind = "rest"]]
      BY <1>4 DEF Timeout
    <2> HIDE DEF l, q
    <2>2. Len(q) = 1 => q # <<>>
      OBVIOUS
    <2>3. queue' \in [Lines -> Seq(Frames)]
      BY <1>2, <2>1, <2>2, RestType DEF TypeOK
    <2> QED BY <1>1, <2>1, <2>3 DEF TypeOK, names, Open
  <1> QED BY <1>3, <1>4

\* and so does a slave that answers.
LEMMA AnswerType ==
    ASSUME TypeOK, NEW l \in Lines, Answer(l)
    PROVE  TypeOK'
  <1>1. /\ asked[l] # <<>> /\ asked' = [asked EXCEPT ![l] = Tail(@)]
        /\ UNCHANGED <<mb, slave_addr, heap, slave, poll, fault, names, last>>
    BY DEF Answer
  <1>2. Tail(asked[l]) \in Seq(Requests) /\ Head(asked[l]) \in Requests
    BY <1>1, TailType DEF TypeOK
  <1>3. asked' \in [Lines -> Seq(Requests)]
    BY <1>1, <1>2 DEF TypeOK
  <1>4. CASE UNCHANGED queue
    BY <1>1, <1>3, <1>4 DEF TypeOK, poll, names, Open
  <1>5. ASSUME NEW kind \in {"data", "exception"},
               queue' = [queue EXCEPT ![l] =
                   Append(@, [kind |-> kind, id |-> Head(asked[l]).id,
                              slave |-> Head(asked[l]).slave,
                              shape |-> Head(asked[l]).shape])]
        PROVE  TypeOK'
    <2> DEFINE a == [kind |-> kind, id |-> Head(asked[l]).id,
                     slave |-> Head(asked[l]).slave, shape |-> Head(asked[l]).shape]
    <2>1. a \in Frames
      BY <1>2 DEF Requests, Frames
    <2>2. queue[l] \in Seq(Frames)
      BY DEF TypeOK
    <2>3. queue' = [queue EXCEPT ![l] = Append(queue[l], a)]
      BY <1>5
    <2> HIDE DEF a
    <2>4. queue' \in [Lines -> Seq(Frames)]
      BY <2>1, <2>2, <2>3, AppendType DEF TypeOK
    <2> QED BY <1>1, <1>3, <2>4 DEF TypeOK, poll, names, Open
  <1> QED BY <1>4, <1>5 DEF Answer

TypeInv == TypeOK /\ HandleKnown

\* The types, together with what mb can be.
LEMMA TypeInvCorrect == Spec => []TypeInv
  <1>1. Init => TypeInv
    <2> SUFFICES ASSUME Init PROVE TypeInv
      OBVIOUS
    <2>1. <<>> \in Seq(Requests) /\ <<>> \in Seq(Frames)
      OBVIOUS
    <2>2. /\ asked \in [Lines -> Seq(Requests)] /\ queue \in [Lines -> Seq(Frames)]
          /\ heap \in [Handles -> {"free", "freed", "rtu", "tcp"}]
          /\ slave \in [Handles -> AddrArgs \cup {1, NotSet, TcpSlave}]
      BY <2>1 DEF Init, Lines
    <2>3. 0 \in 0 .. MaxReads /\ 1 \in 0 .. MaxSlave
      BY SlavesAssumption
    <2> QED BY <2>2, <2>3 DEF Init, TypeInv, TypeOK, HandleKnown
  <1>2. TypeInv /\ [Next]_vars => TypeInv'
    <2> SUFFICES ASSUME TypeOK, HandleKnown, [Next]_vars PROVE TypeOK'
      BY HandleKnownStep DEF TypeInv
    <2>1. CASE \E kind \in {"rtu", "tcp"} : Connect(kind)
      BY <2>1, ConnectType
    <2>2. CASE NewRefused \/ ConnectFails \/ Free
      BY <2>2, HandleType
    <2>3. CASE \/ FreeTwice \/ ReadAborts \/ ReadFreed \/ Return
               \/ \E a \in AddrArgs : SetSlaveRefused(a) \/ SetSlave(a)
      BY <2>3, CallType
    <2>4. CASE \E s \in Shapes : Read(s)
      BY <2>4, ReadType
    <2>5. CASE Receive \/ Timeout
      BY <2>5, ReceiveType
    <2>6. CASE \E l \in Handles \cup {Bus} : Answer(l)
      BY <2>6, AnswerType DEF Lines
    <2>7. CASE UNCHANGED vars
      BY <2>7 DEF TypeOK, vars, line, poll, names, Open
    <2> QED BY <2>1, <2>2, <2>3, <2>4, <2>5, <2>6, <2>7 DEF Next
  <1> QED BY <1>1, <1>2, PTL DEF Spec

\* The handle, the lines and the call that runs keep their types, and a call runs
\* only on an open handle.
THEOREM TypeCorrect == Spec => []TypeOK
  BY TypeInvCorrect, PTL DEF TypeInv
-----------------------------------------------------------------------------
(* SlaveInForce *)

\* Unless the latest address was refused, the static variable holds the accepted
\* one, which is a proper address and therefore not the one of a fresh handle.
ForceInv ==
    /\ SlaveInForce
    /\ ~refused => slave_addr = accepted

\* Every step keeps the handle at the slave accepted last.
LEMMA ForceStep ==
    ASSUME TypeInv, ForceInv, [Next]_vars
    PROVE  ForceInv'
  <1> USE HandlesAssumption, SlavesAssumption
  <1>0. accepted \in 0 .. MaxSlave /\ MaxSlave \in Nat
    BY DEF TypeInv, TypeOK
  <1>1. ASSUME NEW kind \in {"rtu", "tcp"}, Connect(kind) PROVE ForceInv'
    <2>1. PICK h \in Handles :
             /\ slave' = [slave EXCEPT ![h] = NewSlave(kind, slave_addr)] /\ mb' = h
             /\ UNCHANGED <<slave_addr, fault, accepted, refused>>
      BY <1>1 DEF Connect, names
    <2>2. ~refused => NewSlave(kind, slave_addr) = accepted
      BY <1>0 DEF NewSlave, SetIn, ForceInv
    <2>3. slave'[mb'] = NewSlave(kind, slave_addr)
      BY <2>1 DEF TypeInv, TypeOK
    <2> QED BY <2>1, <2>2, <2>3 DEF ForceInv, SlaveInForce
  <1>2. CASE NewRefused
    BY <1>2 DEF NewRefused, ForceInv, SlaveInForce, names
  <1>3. CASE ConnectFails \/ Free
    <2>1. /\ mb' \in Handles /\ heap'[mb'] = "freed"
          /\ UNCHANGED <<slave_addr, fault, accepted, refused>>
      BY <1>3 DEF ConnectFails, Free, names, TypeInv, TypeOK
    <2> QED BY <2>1 DEF ForceInv, SlaveInForce, Open
  <1>4. ASSUME NEW a \in AddrArgs, SetSlaveRefused(a) PROVE ForceInv'
    BY <1>4 DEF SetSlaveRefused, ForceInv, SlaveInForce
  <1>5. ASSUME NEW a \in AddrArgs, SetSlave(a) PROVE ForceInv'
    <2>1. /\ slave_addr' = a /\ accepted' = a /\ refused' = FALSE
          /\ fault' # "abort" /\ UNCHANGED <<mb, heap>>
      BY <1>5 DEF SetSlave, Idle
    <2>2. ASSUME mb # NULL, Open(mb) PROVE slave'[mb] = a
      <3>1. slave' = [slave EXCEPT ![mb] = SetIn(@, a)] /\ a \in 0 .. MaxSlave
        BY <1>5, <2>2 DEF SetSlave, Dangling, Open
      <3> QED BY <2>2, <3>1 DEF SetIn, TypeInv, TypeOK
    <2> QED BY <2>1, <2>2 DEF ForceInv, SlaveInForce, Open
  <1>6. CASE ReadAborts
    <2>1. /\ mb # NULL /\ Open(mb) /\ slave[mb] = -1
          /\ UNCHANGED <<mb, slave_addr, heap, slave, accepted, refused>>
      BY <1>6 DEF ReadAborts, Dangling, Open, NotSet, names, TypeInv, TypeOK, HandleKnown
    <2>2. refused
      BY <1>0, <2>1 DEF ForceInv, SlaveInForce
    <2> QED BY <2>1, <2>2 DEF ForceInv, SlaveInForce
  <1>7. CASE \/ FreeTwice \/ ReadFreed \/ Receive \/ Timeout \/ Return \/ UNCHANGED vars
             \/ \E s \in Shapes : Read(s)
             \/ \E l \in Handles \cup {Bus} : Answer(l)
    <2>1. /\ UNCHANGED <<mb, slave_addr, heap, slave, accepted, refused>>
          /\ fault' = fault \/ fault' = "freed"
      BY <1>7 DEF FreeTwice, ReadFreed, UseFreed, Receive, Timeout, Return, Read, Answer,
                  vars, names
    <2> QED BY <2>1 DEF ForceInv, SlaveInForce, Open
  <1> QED BY <1>1, <1>2, <1>3, <1>4, <1>5, <1>6, <1>7 DEF Next

\* The slave that set_slave accepted last is the one inside the handle, whatever
\* calls of new_rtu, new_tcp, free and read_registers lie between.
THEOREM SlaveInForceCorrect == Spec => []SlaveInForce
  <1>1. Init => ForceInv
    BY DEF Init, ForceInv, SlaveInForce
  <1>2. TypeInv /\ ForceInv /\ [Next]_vars => ForceInv'
    BY ForceStep
  <1>3. ForceInv => SlaveInForce
    BY DEF ForceInv
  <1> QED BY <1>1, <1>2, <1>3, TypeInvCorrect, PTL DEF Spec

-----------------------------------------------------------------------------
(* OutcomeHolds *)

\* Only new_rtu, new_tcp and free change what mb names or whether that is connected.
LEMMA OutcomeStep ==
    ASSUME TypeInv, OutcomeHolds, [Next]_vars
    PROVE  OutcomeHolds'
  <1>1. CASE NewRefused
    BY <1>1 DEF NewRefused, OutcomeHolds
  <1>2. CASE ConnectFails
    <2>1. PICK h \in Handles : heap' = [heap EXCEPT ![h] = "freed"] /\ mb' = h
      BY <1>2 DEF ConnectFails
    <2>2. heap'[mb'] = "freed" /\ last' = "connect_failed"
      BY <1>2, <2>1 DEF ConnectFails, TypeInv, TypeOK
    <2> QED BY <2>2 DEF OutcomeHolds, Open
  <1>3. ASSUME NEW kind \in {"rtu", "tcp"}, Connect(kind) PROVE OutcomeHolds'
    <2>1. PICK h \in Handles : heap' = [heap EXCEPT ![h] = kind] /\ mb' = h
      BY <1>3 DEF Connect
    <2>2. heap'[mb'] = kind /\ mb' # NULL /\ last' = "connected"
      BY <1>3, <2>1, HandlesAssumption DEF Connect, TypeInv, TypeOK
    <2> QED BY <2>2 DEF OutcomeHolds, Open
  <1>4. CASE Free
    <2>1. heap' = [heap EXCEPT ![mb] = "freed"] /\ mb' = mb /\ mb # NULL /\ last' = "freed"
      BY <1>4 DEF Free
    <2>2. heap'[mb'] = "freed"
      BY <2>1 DEF TypeInv, TypeOK
    <2> QED BY <2>1, <2>2 DEF OutcomeHolds, Open
  <1>5. CASE UNCHANGED <<mb, heap, last>>
    BY <1>5 DEF OutcomeHolds, Open
  <1>6. \/ NewRefused \/ ConnectFails \/ Free \/ UNCHANGED <<mb, heap, last>>
        \/ \E kind \in {"rtu", "tcp"} : Connect(kind)
    BY DEF Next, FreeTwice, ReadFreed, UseFreed, SetSlaveRefused, SetSlave, Read,
           ReadAborts, Receive, Timeout, Return, Answer, vars
  <1> QED BY <1>1, <1>2, <1>3, <1>4, <1>5, <1>6

\* What the last new_rtu, new_tcp or free reported of the connection is what mb is,
\* for any number of handles and slaves and any order of calls.
THEOREM OutcomeHoldsCorrect == Spec => []OutcomeHolds
  <1>1. Init => OutcomeHolds
    BY DEF Init, OutcomeHolds
  <1>2. TypeInv /\ OutcomeHolds /\ [Next]_vars => OutcomeHolds'
    BY OutcomeStep
  <1> QED BY <1>1, <1>2, TypeInvCorrect, PTL DEF Spec

-----------------------------------------------------------------------------
(* NoUseAfterFree *)

\* What left mb dangling is still the latest thing that happened to it.
DanglingKnown == Dangling => last \in {"connect_failed", "freed"}

\* A dangling mb stays known for what it is until the next call.
LEMMA DanglingStep ==
    ASSUME TypeInv, DanglingKnown, [Next]_vars
    PROVE  DanglingKnown'
  <1>1. CASE NewRefused \/ ConnectFails \/ Free
    BY <1>1 DEF NewRefused, ConnectFails, Free, DanglingKnown, Dangling
  <1>2. ASSUME NEW kind \in {"rtu", "tcp"}, Connect(kind) PROVE DanglingKnown'
    BY <1>2 DEF Connect, DanglingKnown, Dangling, TypeInv, TypeOK
  <1>3. CASE UNCHANGED <<mb, heap, last>>
    BY <1>3 DEF DanglingKnown, Dangling
  <1>4. \/ NewRefused \/ ConnectFails \/ Free \/ UNCHANGED <<mb, heap, last>>
        \/ \E kind \in {"rtu", "tcp"} : Connect(kind)
    BY DEF Next, FreeTwice, ReadFreed, UseFreed, SetSlaveRefused, SetSlave, Read,
           ReadAborts, Receive, Timeout, Return, Answer, vars
  <1> QED BY <1>1, <1>2, <1>3, <1>4

\* Freed memory is used only by a call that follows a failed connection or a free.
THEOREM NoUseAfterFreeCorrect == Spec => NoUseAfterFree
  <1>1. Init => DanglingKnown
    BY DEF Init, DanglingKnown, Dangling
  <1>2. TypeInv /\ DanglingKnown /\ [Next]_vars => DanglingKnown'
    BY DanglingStep
  <1>3. DanglingKnown /\ [Next]_vars
           => [fault' = "freed" /\ fault # "freed"
                 => last \in {"connect_failed", "freed"}]_vars
    <2> SUFFICES ASSUME DanglingKnown, Next, fault' = "freed", fault # "freed"
                 PROVE  Dangling
      BY DEF DanglingKnown
    <2>1. \/ FreeTwice \/ ReadFreed \/ \E a \in AddrArgs : SetSlave(a)
      BY DEF Next, NewRefused, ConnectFails, Connect, Free, SetSlaveRefused, Read,
             ReadAborts, Receive, Timeout, Return, Answer
    <2> QED BY <2>1 DEF FreeTwice, ReadFreed, SetSlave
  <1> QED BY <1>1, <1>2, <1>3, TypeInvCorrect, PTL DEF Spec, NoUseAfterFree
-----------------------------------------------------------------------------
(* AnswersItsRequest *)

\* Between calls nothing is left of the last one.
CallOver == req = NoReq => outcome = None /\ ~clean

\* A call that found its line clean: its request has not been answered, or its answer
\* is lost, or it is the only thing on the line; and with the answer read the line is
\* clean again.
OwnLine(requests, answers) ==
    \/ requests = <<req>> /\ answers = <<>>
    \/ requests = <<>> /\ answers = <<>>
    \/ requests = <<>> /\ Len(answers) = 1 /\ answers[1].id = req.id

CleanLine ==
    /\ clean /\ outcome = None => OwnLine(asked[LineOf(mb)], queue[LineOf(mb)])
    /\ clean /\ outcome.kind = "data" =>
          asked[LineOf(mb)] = <<>> /\ queue[LineOf(mb)] = <<>>

OwnAnswer ==
    outcome.kind = "data" /\ (heap[mb] = "tcp" \/ clean) => outcome.id = req.id

AnswerInv == CallOver /\ CleanLine /\ OwnAnswer

\* The three kinds of result are distinct.
LEMMA OutcomeKinds ==
    /\ None.kind = "none" /\ Error.kind = "error" /\ None # Error
    /\ \A n : Data(n).kind = "data" /\ Data(n).id = n /\ Data(n) # None /\ Data(n) # Error
  BY DEF None, Error, Data

\* With no call running there is nothing to keep.
LEMMA NothingRuns ==
    ASSUME req' = NoReq, outcome' = None, clean' = FALSE
    PROVE  AnswerInv'
  BY OutcomeKinds DEF AnswerInv, CallOver, CleanLine, OwnAnswer

\* Every step keeps what a poll knows of the answers on its line.
LEMMA AnswerStep ==
    ASSUME TypeInv, AnswerInv, [Next]_vars
    PROVE  AnswerInv'
  <1>1. ASSUME Idle, UNCHANGED poll PROVE AnswerInv'
    <2>1. req = NoReq /\ outcome = None /\ clean = FALSE
      BY <1>1 DEF Idle, AnswerInv, CallOver, TypeInv, TypeOK
    <2> QED BY <1>1, <2>1, NothingRuns DEF poll
  <1>2. CASE \/ NewRefused \/ ConnectFails \/ Free \/ FreeTwice \/ ReadAborts \/ ReadFreed
             \/ \E kind \in {"rtu", "tcp"} : Connect(kind)
             \/ \E a \in AddrArgs : SetSlaveRefused(a) \/ SetSlave(a)
    BY <1>1, <1>2 DEF NewRefused, ConnectFails, Free, FreeTwice, ReadAborts, ReadFreed,
                      UseFreed, Connect, SetSlaveRefused, SetSlave
  <1>3. ASSUME NEW s \in Shapes, Read(s) PROVE AnswerInv'
    <2> DEFINE l == LineOf(mb)
               r == [id |-> reads + 1, slave |-> slave[mb], shape |-> s]
    <2>1. /\ mb \in Handles /\ req = NoReq /\ req' = r
          /\ asked' = [asked EXCEPT ![l] = Append(@, r)]
          /\ clean' = (asked[l] = <<>> /\ queue[l] = <<>>)
          /\ UNCHANGED <<mb, heap, queue, outcome>>
      BY <1>3 DEF Read, Idle, TypeInv, TypeOK
    <2>2. outcome = None /\ LineOf(mb)' = l /\ l \in Lines
      BY <2>1, LineIsLine DEF AnswerInv, CallOver, LineOf, TypeInv
    <2>3. r.id # 0
      BY <1>3, SlavesAssumption DEF Read, TypeInv, TypeOK
    <2>4. req' # NoReq
      BY <2>1, <2>3 DEF NoReq
    <2> HIDE DEF l, r
    <2>5. clean' => asked'[l] = <<req'>> /\ queue'[l] = <<>>
      <3>1. asked'[l] = Append(asked[l], r)
        BY <2>1, <2>2 DEF TypeInv, TypeOK
      <3>2. Append(<<>>, r) = <<r>>
        OBVIOUS
      <3> QED BY <2>1, <3>1, <3>2
    <2> QED BY <2>1, <2>2, <2>4, <2>5, OutcomeKinds
            DEF AnswerInv, CallOver, CleanLine, OwnLine, OwnAnswer
  <1>4. CASE Receive
    <2> DEFINE l == LineOf(mb)
               q == queue[l]
    <2>1. /\ mb \in Handles /\ req # NoReq /\ outcome = None
          /\ q # <<>> /\ outcome' = Result(req, Head(q))
          /\ \/ queue' = [queue EXCEPT ![l] = Tail(q)]
             \/ /\ Tail(q) # <<>>
                /\ queue' = [queue EXCEPT ![l] = [Tail(q) EXCEPT ![1].kind = "rest"]]
          /\ UNCHANGED <<mb, heap, asked, req, clean>>
      BY <1>4 DEF Receive, Reading, TypeInv, TypeOK
    <2>2. l \in Lines /\ q \in Seq(Frames) /\ LineOf(mb)' = l
      BY <2>1, LineIsLine DEF TypeInv, TypeOK, LineOf
    <2> HIDE DEF l
    <2>3. ASSUME clean PROVE asked[l] = <<>> /\ Head(q).id = req.id /\ Tail(q) = <<>>
      <3>1. asked[l] = <<>> /\ Len(q) = 1 /\ q[1].id = req.id
        BY <2>1, <2>3 DEF AnswerInv, CleanLine, OwnLine, l
      <3> QED BY <2>2, <3>1, SingleFrame
    <2>4. clean => asked'[l] = <<>> /\ queue'[l] = <<>>
      BY <2>1, <2>2, <2>3 DEF TypeInv, TypeOK
    <2>5. outcome' # None
      BY <2>1, OutcomeKinds DEF Result
    <2>6. OwnAnswer'
      BY <2>1, <2>3, OutcomeKinds DEF OwnAnswer, Result, Matches
    <2> QED BY <2>1, <2>2, <2>4, <2>5, <2>6 DEF AnswerInv, CallOver, CleanLine
  <1>5. CASE Timeout
    BY <1>5, OutcomeKinds
       DEF Timeout, Reading, AnswerInv, CallOver, CleanLine, OwnAnswer
  <1>6. CASE Return
    BY <1>6, NothingRuns DEF Return
  <1>7. ASSUME NEW x \in Lines, Answer(x) PROVE AnswerInv'
    <2>1. /\ asked[x] # <<>> /\ asked' = [asked EXCEPT ![x] = Tail(@)]
          /\ UNCHANGED <<mb, heap, req, outcome, clean>>
      BY <1>7 DEF Answer, poll
    <2>2. CASE ~clean
      BY <2>1, <2>2 DEF AnswerInv, CallOver, CleanLine, OwnAnswer
    <2>3. CASE clean
      <3> DEFINE l == LineOf(mb)
      <3>1. req # NoReq /\ mb \in Handles
        BY <2>3 DEF AnswerInv, CallOver, TypeInv, TypeOK
      <3>2. l \in Lines /\ LineOf(mb)' = l
        BY <2>1, <3>1, LineIsLine DEF TypeInv, LineOf
      <3>3. \/ UNCHANGED queue
            \/ \E a : a.id = Head(asked[x]).id
                      /\ queue' = [queue EXCEPT ![x] = Append(@, a)]
        BY <1>7 DEF Answer
      <3> HIDE DEF l
      <3>4. CASE x # l
        <4>1. asked'[l] = asked[l] /\ queue'[l] = queue[l]
          BY <2>1, <3>2, <3>3, <3>4 DEF TypeInv, TypeOK
        <4> QED BY <2>1, <3>2, <4>1
                DEF AnswerInv, CallOver, CleanLine, OwnLine, OwnAnswer, l
      <3>5. CASE x = l
        <4>1. /\ outcome = None => asked[l] = <<req>> /\ queue[l] = <<>>
              /\ outcome.kind # "data"
          BY <2>1, <2>3, <3>5 DEF AnswerInv, CleanLine, OwnLine, l
        <4>2. asked'[l] = Tail(asked[l])
          BY <2>1, <3>2, <3>5 DEF TypeInv, TypeOK
        <4>3. outcome = None => asked'[l] = <<>>
          BY <4>1, <4>2, Single
        <4>4. ASSUME outcome = None, NEW a, a.id = Head(asked[x]).id,
                     queue' = [queue EXCEPT ![x] = Append(@, a)]
              PROVE  Len(queue'[l]) = 1 /\ queue'[l][1].id = req.id
          <5>1. queue'[l] = <<a>>
            BY <3>2, <3>5, <4>1, <4>4 DEF TypeInv, TypeOK
          <5>2. Head(asked[x]) = req
            BY <3>5, <4>1, <4>4, Single
          <5> QED BY <4>4, <5>1, <5>2, Single
        <4>5. outcome = None => OwnLine(asked'[l], queue'[l])
          BY <3>3, <4>1, <4>3, <4>4 DEF OwnLine
        <4> QED BY <2>1, <3>2, <4>1, <4>5
                DEF AnswerInv, CallOver, CleanLine, OwnLine, OwnAnswer
      <3> QED BY <3>4, <3>5
    <2> QED BY <2>2, <2>3
  <1>8. CASE UNCHANGED vars
    BY <1>8 DEF vars, line, poll, AnswerInv, CallOver, CleanLine, OwnLine, OwnAnswer, LineOf
  <1> QED BY <1>2, <1>3, <1>4, <1>5, <1>6, <1>7, <1>8 DEF Next, Lines

\* What a poll knows of the answers on its line.
LEMMA AnswerInvCorrect == Spec => []AnswerInv
  <1>1. Init => AnswerInv
    BY OutcomeKinds DEF Init, AnswerInv, CallOver, CleanLine, OwnAnswer
  <1>2. TypeInv /\ AnswerInv /\ [Next]_vars => AnswerInv'
    BY AnswerStep
  <1> QED BY <1>1, <1>2, TypeInvCorrect, PTL DEF Spec

\* Over TCP, and on a bus with nothing outstanding, what read_registers returns is
\* the answer to its own request; a clean bus is then clean again.
THEOREM AnswersItsRequestCorrect == Spec => []AnswersItsRequest
  <1>1. AnswerInv => AnswersItsRequest
    BY DEF AnswerInv, CleanLine, OwnAnswer, AnswersItsRequest
  <1> QED BY <1>1, AnswerInvCorrect, PTL
-----------------------------------------------------------------------------
(* The exchange that Pymodbus implements *)

\* No request or answer carries a number that has not been given out.
IdsKnown ==
    \A l \in Lines :
       /\ \A k \in 1 .. Len(asked[l]) : asked[l][k].id <= reads
       /\ \A k \in 1 .. Len(queue[l]) : queue[l][k].id <= reads

\* In terms of the sequences alone.
Below(s, m) == \A k \in 1 .. Len(s) : s[k].id <= m

\* Numbers stay below a bound when the first frame is taken
LEMMA BelowTail ==
    ASSUME NEW S, NEW s \in Seq(S), s # <<>>, NEW m, Below(s, m)
    PROVE  Below(Tail(s), m) /\ Head(s).id <= m
  <1>1. /\ Len(s) \in Nat \ {0} /\ Len(Tail(s)) = Len(s) - 1 /\ Head(s) = s[1]
        /\ \A k \in 1 .. Len(s) - 1 : Tail(s)[k] = s[k + 1]
    BY EmptySeq
  <1> QED BY <1>1 DEF Below

\* and when a part of it is.
LEMMA BelowRest ==
    ASSUME NEW q \in Seq(Frames), q # <<>>, NEW m, Below(q, m)
    PROVE  Below([q EXCEPT ![1].kind = "rest"], m)
  <1>1. 1 \in 1 .. Len(q) /\ q[1] \in Frames
    BY EmptySeq
  <1>2. [q[1] EXCEPT !.kind = "rest"].id = q[1].id
    BY <1>1 DEF Frames
  <1> QED BY <1>1, <1>2 DEF Below

\* No step makes a frame of a request that has not been sent.
LEMMA IdsKnownStep ==
    ASSUME TypeInv, IdsKnown, [Next]_vars
    PROVE  IdsKnown'
  <1>0. /\ asked \in [Lines -> Seq(Requests)] /\ queue \in [Lines -> Seq(Frames)]
        /\ reads \in Nat
    BY SlavesAssumption DEF TypeInv, TypeOK
  <1>1. CASE UNCHANGED <<line, reads>>
    BY <1>1 DEF line, IdsKnown
  <1>2. CASE Free
    <2>1. ASSUME NEW l \in Lines
          PROVE  /\ asked'[l] = asked[l] \/ asked'[l] = <<>>
                 /\ queue'[l] = queue[l] \/ queue'[l] = <<>>
      BY <1>0, <1>2, <2>1 DEF Free
    <2>2. reads' = reads
      BY <1>2 DEF Free, poll
    <2> QED BY <2>1, <2>2 DEF IdsKnown
  <1>3. ASSUME NEW s \in Shapes, Read(s) PROVE IdsKnown'
    <2> DEFINE r == [id |-> reads + 1, slave |-> slave[mb], shape |-> s]
    <2>1. /\ asked' = [asked EXCEPT ![LineOf(mb)] = Append(@, r)]
          /\ queue' = queue /\ reads' = reads + 1
      BY <1>3 DEF Read
    <2>2. r.id <= reads'
      BY <1>0, <2>1
    <2> HIDE DEF r
    <2>3. ASSUME NEW l \in Lines
          PROVE  /\ \A k \in 1 .. Len(asked[l]) : asked[l][k].id \in Nat
                 /\ \A k \in 1 .. Len(queue[l]) : queue[l][k].id \in Nat
      <3>1. /\ \A k \in 1 .. Len(asked[l]) : asked[l][k] \in Requests
            /\ \A k \in 1 .. Len(queue[l]) : queue[l][k] \in Frames
        BY <1>0
      <3>2. (\A q \in Requests : q.id \in Nat) /\ (\A q \in Frames : q.id \in Nat)
        BY DEF Requests, Frames
      <3> QED BY <3>1, <3>2
    <2>4. ASSUME NEW l \in Lines
          PROVE  Below(asked[l], reads') /\ Below(queue[l], reads')
      BY <1>0, <2>1, <2>3 DEF IdsKnown, Below
    <2>5. ASSUME NEW l \in Lines, asked'[l] = Append(asked[l], r)
          PROVE  Below(asked'[l], reads')
      <3>1. \A k \in 1 .. Len(asked'[l]) : asked'[l][k] = r \/
               (k \in 1 .. Len(asked[l]) /\ asked'[l][k] = asked[l][k])
        BY <1>0, <2>5
      <3> QED BY <2>2, <2>4, <3>1 DEF Below
    <2>6. ASSUME NEW l \in Lines
          PROVE  asked'[l] = asked[l] \/ asked'[l] = Append(asked[l], r)
      BY <1>0, <2>1
    <2> QED BY <2>1, <2>4, <2>5, <2>6 DEF IdsKnown, Below
  <1>4. CASE Receive \/ Timeout
    <2> DEFINE l == LineOf(mb)
               q == queue[l]
    <2>1. l \in Lines /\ asked' = asked /\ reads' = reads
      <3>1. mb \in Handles
        BY <1>4 DEF Receive, Timeout, Reading, TypeInv, TypeOK
      <3> QED BY <1>4, <3>1, LineIsLine DEF Receive, Timeout, TypeInv
    <2> HIDE DEF l
    <2>2. q \in Seq(Frames) /\ Below(q, reads)
      BY <1>0, <2>1 DEF IdsKnown, Below
    <2>3. \/ queue' = queue
          \/ q # <<>> /\ queue' = [queue EXCEPT ![l] = Tail(q)]
          \/ /\ q # <<>> /\ Tail(q) # <<>>
             /\ queue' = [queue EXCEPT ![l] = [Tail(q) EXCEPT ![1].kind = "rest"]]
          \/ q # <<>> /\ queue' = [queue EXCEPT ![l] = [q EXCEPT ![1].kind = "rest"]]
      <3>1. Len(q) = 1 => q # <<>>
        BY <2>2, SingleFrame
      <3> QED BY <1>4, <3>1 DEF Receive, Timeout, l
    <2>4. q # <<>> => Tail(q) \in Seq(Frames) /\ Below(Tail(q), reads)
      BY <2>2, BelowTail, TailType
    <2>5. Below(queue'[l], reads)
      <3> HIDE DEF q
      <3>1. \A t : queue' = [queue EXCEPT ![l] = t] => queue'[l] = t
        BY <1>0, <2>1
      <3>2. q # <<>> => Below([q EXCEPT ![1].kind = "rest"], reads)
        BY <2>2, BelowRest
      <3>3. q # <<>> /\ Tail(q) # <<>> => Below([Tail(q) EXCEPT ![1].kind = "rest"], reads)
        BY <2>4, BelowRest
      <3>4. queue' = queue => Below(queue'[l], reads)
        BY <2>2 DEF q
      <3> QED BY <2>3, <2>4, <3>1, <3>2, <3>3, <3>4
    <2>6. \A x \in Lines \ {l} : queue'[x] = queue[x]
      BY <1>0, <2>1, <2>3
    <2> QED BY <2>1, <2>5, <2>6 DEF IdsKnown, Below
  <1>5. ASSUME NEW l \in Lines, Answer(l) PROVE IdsKnown'
    <2>1. /\ asked[l] # <<>> /\ asked' = [asked EXCEPT ![l] = Tail(@)]
          /\ reads' = reads
      BY <1>5 DEF Answer, poll
    <2>2. Below(asked[l], reads) /\ Below(queue[l], reads)
      BY DEF IdsKnown, Below
    <2>3. Below(asked'[l], reads) /\ Head(asked[l]).id <= reads
      BY <1>0, <2>1, <2>2, BelowTail
    <2>4. \/ UNCHANGED queue
          \/ \E a : /\ a.id = Head(asked[l]).id
                    /\ queue' = [queue EXCEPT ![l] = Append(@, a)]
      BY <1>5 DEF Answer
    <2>5. ASSUME NEW a, a.id = Head(asked[l]).id,
                 queue' = [queue EXCEPT ![l] = Append(@, a)]
          PROVE  Below(queue'[l], reads)
      <3>1. queue'[l] = Append(queue[l], a)
        BY <1>0, <2>5
      <3>2. \A k \in 1 .. Len(queue'[l]) : queue'[l][k] = a \/
               (k \in 1 .. Len(queue[l]) /\ queue'[l][k] = queue[l][k])
        BY <1>0, <3>1
      <3> QED BY <2>2, <2>3, <2>5, <3>2 DEF Below
    <2>6. Below(queue'[l], reads)
      BY <2>2, <2>4, <2>5
    <2>7. \A x \in Lines \ {l} : asked'[x] = asked[x] /\ queue'[x] = queue[x]
      BY <1>0, <2>1, <2>4
    <2> QED BY <2>1, <2>3, <2>6, <2>7 DEF IdsKnown, Below
  <1>6. \/ UNCHANGED <<line, reads>> \/ Free \/ Receive \/ Timeout
        \/ \E s \in Shapes : Read(s)
        \/ \E l \in Lines : Answer(l)
    BY DEF Next, NewRefused, ConnectFails, Connect, FreeTwice, ReadFreed, UseFreed,
           SetSlaveRefused, SetSlave, ReadAborts, Return, vars, poll, Lines
  <1> QED BY <1>1, <1>2, <1>3, <1>4, <1>5, <1>6

\* No frame is of a request that has not been sent.
LEMMA IdsKnownCorrect == Spec => []IdsKnown
  <1>1. Init => IdsKnown
    BY DEF Init, IdsKnown, Lines
  <1>2. TypeInv /\ IdsKnown /\ [Next]_vars => IdsKnown'
    BY IdsKnownStep
  <1> QED BY <1>1, <1>2, TypeInvCorrect, PTL DEF Spec
\* A step of a call that is over, or of one whose answer cannot be relied on.
LEMMA Silent ==
    ASSUME ~Trusted
    PROVE  Size = 0 /\ Answered = {} /\ Report = "none"
  BY DEF TrustedNow, Size, Answered, Report

\* Outside a trusted poll the exchange is idle.
LEMMA SilentAfter ==
    ASSUME ~Trusted'
    PROVE  Size' = 0 /\ Answered' = {} /\ Report' = "none"
  BY DEF TrustedNow, Size, Answered, Report

\* Every step of the module is a step of Exchange, or none.
LEMMA PromiseStep ==
    ASSUME TypeInv, AnswerInv, IdsKnown, [Next]_vars
    PROVE  Promise!Next \/ UNCHANGED <<Size, Answered, Report>>
  <1>0. /\ asked \in [Lines -> Seq(Requests)] /\ queue \in [Lines -> Seq(Frames)]
        /\ reads \in Nat
    BY SlavesAssumption DEF TypeInv, TypeOK
  <1>1. ASSUME Idle, UNCHANGED req PROVE UNCHANGED <<Size, Answered, Report>>
    BY <1>1, Silent, SilentAfter DEF Idle, Trusted
  <1>2. CASE \/ NewRefused \/ ConnectFails \/ Free \/ FreeTwice \/ ReadAborts \/ ReadFreed
             \/ \E kind \in {"rtu", "tcp"} : Connect(kind)
             \/ \E a \in AddrArgs : SetSlaveRefused(a) \/ SetSlave(a)
    BY <1>1, <1>2 DEF NewRefused, ConnectFails, Free, FreeTwice, ReadAborts, ReadFreed,
                      UseFreed, Connect, SetSlaveRefused, SetSlave, poll
  <1>3. ASSUME NEW s \in Shapes, Read(s) PROVE Promise!Next
    <2>1. /\ mb \in Handles /\ req = NoReq /\ req'.id = reads + 1 /\ UNCHANGED <<mb, heap, queue>>
      BY <1>3 DEF Read, Idle, TypeInv, TypeOK
    <2>2. LineOf(mb)' = LineOf(mb) /\ LineOf(mb) \in Lines
      BY <2>1, LineIsLine DEF LineOf, TypeInv
    <2>3. ~\E k \in 1 .. Len(queue'[LineOf(mb)']) : IsAnswer(k)'
      <3> SUFFICES ASSUME NEW k \in 1 .. Len(queue[LineOf(mb)])
                   PROVE  queue[LineOf(mb)][k].id # reads + 1
        BY <2>1, <2>2 DEF IsAnswer
      <3>1. queue[LineOf(mb)][k].id \in Nat
        <4>1. queue[LineOf(mb)][k] \in Frames
          BY <1>0, <2>2
        <4> QED BY <4>1 DEF Frames
      <3> QED BY <1>0, <2>2, <3>1 DEF IdsKnown
    <2>4. Answered' = {}
      BY <2>3 DEF Answered
    <2>5. Size = 0
      BY <2>1, Silent DEF Trusted
    <2>6. outcome' = None
      BY <1>3, <2>1 DEF Read, AnswerInv, CallOver
    <2>7. Report' = "none" /\ Size' \in {0, 1}
      BY <2>6 DEF Report, Size
    <2>8. CASE Size' = 0
      BY <2>4, <2>5, <2>7, <2>8 DEF Promise!Next, Promise!Refuse, Promise!Over
    <2>9. CASE Size' = 1
      <3>1. 1 \in Nat \ {0} /\ 1 \in 0 .. 1
        OBVIOUS
      <3> QED BY <2>4, <2>5, <2>7, <2>9, <3>1 DEF Promise!Next, Promise!Begin
    <2> QED BY <2>7, <2>8, <2>9
  <1>4. CASE Receive \/ Timeout
    <2>1. /\ mb \in Handles /\ req # NoReq /\ outcome = None
          /\ UNCHANGED <<mb, heap, req, clean>>
      BY <1>4 DEF Receive, Timeout, Reading, TypeInv, TypeOK
    <2>2. Trusted' = Trusted
      BY <2>1 DEF Trusted
    <2>3. CASE ~Trusted
      BY <2>2, <2>3, Silent, SilentAfter
    <2>4. CASE Trusted
      <3>1. outcome' = Error \/ \E n : outcome' = Data(n)
        BY <1>4 DEF Receive, Timeout, Result
      <3>2. Size = 1 /\ Size' = 0 /\ Answered' = {}
        BY <2>1, <2>4, <3>1, OutcomeKinds DEF Size, Answered, TrustedNow
      <3>3. CASE outcome' = Error
        <4>1. Report' = "failed"
          BY <2>2, <2>4, <3>3, OutcomeKinds DEF Report
        <4> QED BY <3>2, <4>1 DEF Promise!Next, Promise!Fail, Promise!Over
      <3>4. CASE outcome' # Error
        <4>1. Report' = "ok"
          BY <2>2, <2>4, <3>1, <3>4, OutcomeKinds DEF Report
        <4> DEFINE q == queue[LineOf(mb)]
        <4>2. /\ q # <<>> /\ Head(q).kind = "data" /\ outcome' = Data(Head(q).id)
          BY <1>4, <3>4 DEF Receive, Timeout, Result, Matches
        <4>3. q \in Seq(Frames)
          BY <1>0, <2>1, LineIsLine DEF TypeInv
        <4>4. q[1] = Head(q) /\ 1 \in 1 .. Len(q)
          BY <4>2, <4>3, EmptySeq
        <4>5. OwnAnswer'
          BY AnswerStep DEF AnswerInv
        <4>6. Head(q).id = req.id
          BY <2>1, <2>2, <2>4, <4>2, <4>5, OutcomeKinds DEF OwnAnswer, Trusted
        <4>7. IsAnswer(1)
          BY <4>2, <4>4, <4>6 DEF IsAnswer
        <4>8. Answered = {1}
          BY <2>1, <2>4, <4>4, <4>7 DEF Answered, TrustedNow
        <4>9. 1 .. 1 = {1}
          OBVIOUS
        <4> QED BY <3>2, <4>1, <4>8, <4>9 DEF Promise!Next, Promise!Succeed, Promise!Over
      <3> QED BY <3>3, <3>4
    <2> QED BY <2>3, <2>4
  <1>5. CASE Return
    <2>1. outcome # None /\ ~Trusted'
      BY <1>5 DEF Return, Trusted
    <2>2. Size = 0
      BY <2>1 DEF Size, TrustedNow
    <2> QED BY <2>1, <2>2, SilentAfter DEF Promise!Next, Promise!Refuse, Promise!Over
  <1>6. ASSUME NEW l \in Lines, Answer(l)
        PROVE  Promise!Next \/ UNCHANGED <<Size, Answered, Report>>
    <2>1. UNCHANGED <<mb, heap, req, clean, outcome>>
      BY <1>6 DEF Answer, poll
    <2>2. Trusted' = Trusted /\ TrustedNow' = TrustedNow
      BY <2>1 DEF Trusted, TrustedNow
    <2>3. UNCHANGED <<Size, Report>>
      BY <2>1, <2>2 DEF Size, Report
    <2>4. CASE ~TrustedNow
      BY <2>2, <2>3, <2>4 DEF Answered
    <2>5. CASE TrustedNow
      <3> DEFINE x == LineOf(mb)
      <3>1. x \in Lines /\ LineOf(mb)' = x
        BY <2>1, <2>5, LineIsLine DEF TrustedNow, Trusted, LineOf, TypeInv, TypeOK
      <3>2. \A k \in 1 .. Len(queue[x]) :
               k \in 1 .. Len(queue'[x]) /\ queue'[x][k] = queue[x][k]
        <4>1. UNCHANGED queue \/ \E a : queue' = [queue EXCEPT ![l] = Append(@, a)]
          BY <1>6 DEF Answer
        <4>2. queue[x] \in Seq(Frames)
          BY <1>0, <3>1
        <4>3. queue'[x] = queue[x] \/ \E a : queue'[x] = Append(queue[x], a)
          BY <1>0, <3>1, <4>1
        <4> HIDE DEF x
        <4> QED BY <4>2, <4>3
      <3>3. \A k \in 1 .. Len(queue[x]) : IsAnswer(k) => IsAnswer(k)'
        BY <2>1, <3>1, <3>2 DEF IsAnswer
      <3>4. Answered = {1} => Answered' = {1}
        BY <2>2, <2>5, <3>1, <3>2, <3>3 DEF Answered
      <3>5. Answered \in {{}, {1}} /\ Answered' \in {{}, {1}}
        BY DEF Answered
      <3>6. Size = 1
        BY <2>5 DEF Size
      <3>7. Answered' = Answered \/ Answered' = Answered \cup {1}
        BY <3>4, <3>5
      <3> QED BY <2>3, <3>6, <3>7 DEF Promise!Next, Promise!Answer
    <2> QED BY <2>4, <2>5
  <1>7. CASE UNCHANGED vars
    BY <1>7 DEF vars, line, poll, Trusted, TrustedNow, Size, Answered, Report, IsAnswer, LineOf
  <1> QED BY <1>2, <1>3, <1>4, <1>5, <1>6, <1>7 DEF Next, Lines

\* A call over TCP, or over a bus with nothing outstanding, is an exchange of one
\* question: Pymodbus implements Exchange.
THEOREM ExchangeImplemented == Spec => ImplementsExchange
  <1>1. Init => Promise!Init
    <2>1. ASSUME Init PROVE ~Trusted
      BY <2>1 DEF Init, Trusted
    <2> QED BY <2>1, Silent DEF Promise!Init
  <1>2. TypeInv /\ AnswerInv /\ IdsKnown /\ [Next]_vars => [Promise!Next]_(Promise!vars)
    BY PromiseStep DEF Promise!vars
  <1> QED BY <1>1, <1>2, TypeInvCorrect, AnswerInvCorrect, IdsKnownCorrect, PTL
          DEF Spec, ImplementsExchange, Promise!Spec
==============================================================================

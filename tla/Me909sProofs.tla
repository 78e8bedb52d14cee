----------------------------- MODULE Me909sProofs -----------------------------
(***************************************************************************)
(* Proofs about Me909s: its types, InSync, the implementation of Exchange, *)
(* StateReport and BoundedWait, for any set of calls, any strings, any     *)
(* number of commands and any sizes of the buffers.                        *)
(***************************************************************************)
EXTENDS Me909s, SequenceTheorems, TLAPS

QueueEntry == [id : 1 .. MaxCmd, op : AllCalls \cup {"garbled"}]

-----------------------------------------------------------------------------
(* Lemmas about messages and answers *)

\* A message is two typed cells of the same kind, in order.
LEMMA MessageShape ==
    ASSUME NEW kind \in Kinds, NEW of \in 0 .. MaxCmd, NEW digit \in 0 .. 1
    PROVE  LET m == Message(kind, of, digit) IN
           /\ m \in Seq(Cell)
           /\ Len(m) = 2
           /\ \A i \in 1 .. 2 : m[i] \in Cell /\ m[i].kind = kind
                                /\ m[i].digit = digit /\ m[i].half = i
  <1> DEFINE c(i) == [kind |-> kind, of |-> of, digit |-> digit, half |-> i]
  <1>1. c(1) \in Cell /\ c(2) \in Cell
    BY DEF Cell
  <1>2. Message(kind, of, digit) = <<c(1), c(2)>>
    BY DEF Message
  <1> QED BY <1>1, <1>2

\* Two sequences of two elements in a row.
LEMMA PairConcat ==
    ASSUME NEW S, NEW s \in Seq(S), NEW t \in Seq(S), Len(s) = 2, Len(t) = 2
    PROVE  /\ s \o t \in Seq(S) /\ Len(s \o t) = 4
           /\ (s \o t)[1] = s[1] /\ (s \o t)[2] = s[2]
           /\ (s \o t)[3] = t[1] /\ (s \o t)[4] = t[2]
  <1>1. /\ s \o t \in Seq(S)
        /\ Len(s \o t) = Len(s) + Len(t)
        /\ \A i \in 1 .. Len(s) + Len(t) :
              (s \o t)[i] = IF i <= Len(s) THEN s[i] ELSE t[i - Len(s)]
    BY ConcatProperties
  <1> QED BY <1>1

\* Every answer ends with one result code, whose cells are its last two; a
\* report in it carries the link's state.
AnswerShape(a) ==
    /\ a \in Seq(Cell)
    /\ Len(a) \in {2, 4}
    /\ \A i \in 1 .. Len(a) - 2 : ~Final(a[i])
    /\ \A i \in 1 .. Len(a) : /\ a[i].kind = "qry" => a[i].digit = link
                              /\ a[i].kind # "stat"
    /\ Final(a[Len(a)]) /\ a[Len(a)].half = 2
    /\ a[Len(a) - 1].kind = a[Len(a)].kind /\ a[Len(a) - 1].half = 1

\* Every answer of the modem has at most one result code, and that last.
LEMMA AnswersShape ==
    ASSUME NEW q \in QueueEntry, link \in 0 .. 1, NEW a \in Answers(q)
    PROVE  AnswerShape(a)
  <1>1. q.id \in 0 .. MaxCmd
    BY DEF QueueEntry
  <1>2. \/ \E r \in {"ok", "err"} : a = Message(r, q.id, 0)
        \/ \E kind \in {"text", "word", "qry"}, digit \in 0 .. 1, r \in {"ok", "err"} :
              /\ kind = "qry" => digit = link
              /\ a = Message(kind, q.id, digit) \o Message(r, q.id, 0)
    <2> DEFINE R(r)  == Message(r, q.id, 0)
               texts == {Message("text", q.id, 0)}
                        \cup (IF q.op \in {"status"} \cup FreeText
                              THEN {Message("qry", q.id, link)} ELSE {})
                        \cup (IF q.op \in FreeText THEN {Message("word", q.id, 0)} ELSE {})
               Said(t) == \E kind \in {"text", "word", "qry"}, digit \in 0 .. 1 :
                             /\ kind = "qry" => digit = link
                             /\ t = Message(kind, q.id, digit)
    <2>1. a \in {R("ok"), R("err")} \cup {t \o R("ok") : t \in texts}
                                   \cup {t \o R("err") : t \in texts}
      BY Zenon DEF Answers
    <2>2. ASSUME NEW t \in texts PROVE Said(t)
      <3>1. \/ t = Message("text", q.id, 0) \/ t = Message("word", q.id, 0)
            \/ t = Message("qry", q.id, link)
        OBVIOUS
      <3> QED BY <3>1
    <2>3. \/ \E r \in {"ok", "err"} : a = R(r)
          \/ \E t \in texts, r \in {"ok", "err"} : a = t \o R(r)
      BY <2>1, Zenon
    <2>4. CASE \E t \in texts, r \in {"ok", "err"} : a = t \o R(r)
      <3>1. PICK t \in texts, r \in {"ok", "err"} : a = t \o R(r)
        BY <2>4
      <3>2. PICK kind \in {"text", "word", "qry"}, digit \in 0 .. 1 :
               (kind = "qry" => digit = link) /\ t = Message(kind, q.id, digit)
        BY <2>2
      <3> QED BY <3>1, <3>2
    <2> QED BY <2>3, <2>4
  <1>3. ASSUME NEW kind \in {"ok", "err"}, a = Message(kind, q.id, 0)
        PROVE  AnswerShape(a)
    <2> DEFINE m == Message(kind, q.id, 0)
    <2>1. /\ m \in Seq(Cell) /\ Len(m) = 2
          /\ \A i \in 1 .. 2 : m[i].kind = kind /\ m[i].half = i
      BY <1>1, MessageShape DEF Kinds
    <2> HIDE DEF m
    <2>2. a = m
      BY <1>3 DEF m
    <2>3. /\ Len(a) = 2 /\ Len(a) - 1 = 1 /\ a[1].kind = kind /\ a[2].kind = kind
          /\ a[1].half = 1 /\ a[2].half = 2 /\ a \in Seq(Cell)
      BY <2>1, <2>2
    <2>4. Final(a[2]) /\ \A i \in 1 .. 2 : a[i].kind # "qry" /\ a[i].kind # "stat"
      BY <2>1, <2>2 DEF Final
    <2> HIDE DEF Final
    <2> QED BY <2>3, <2>4 DEF AnswerShape
  <1>4. ASSUME NEW kind \in {"text", "word", "qry"}, NEW digit \in 0 .. 1,
               NEW r \in {"ok", "err"}, kind = "qry" => digit = link,
               a = Message(kind, q.id, digit) \o Message(r, q.id, 0)
        PROVE  AnswerShape(a)
    <2> DEFINE m  == Message(kind, q.id, digit)
               Res == Message(r, q.id, 0)
    <2>1. /\ m \in Seq(Cell) /\ Len(m) = 2
          /\ \A i \in 1 .. 2 : m[i].kind = kind /\ m[i].digit = digit
      BY <1>1, MessageShape DEF Kinds
    <2>2. /\ Res \in Seq(Cell) /\ Len(Res) = 2
          /\ \A i \in 1 .. 2 : Res[i].kind = r /\ Res[i].half = i
      BY <1>1, MessageShape DEF Kinds
    <2>3. a = m \o Res
      BY <1>4
    <2>m. m \in Seq(Cell) /\ Len(m) = 2
      BY <2>1
    <2>o. Res \in Seq(Cell) /\ Len(Res) = 2
      BY <2>2
    <2> HIDE DEF m, Res
    <2>4. /\ a \in Seq(Cell) /\ Len(a) = 4
          /\ a[1] = m[1] /\ a[2] = m[2] /\ a[3] = Res[1] /\ a[4] = Res[2]
      BY <2>m, <2>o, <2>3, PairConcat
    <2>5. \A i \in 1 .. 2 : ~Final(a[i]) /\ a[i].kind # "stat"
                             /\ (a[i].kind = "qry" => a[i].digit = link)
      <3>1. kind = "qry" => digit = link
        BY <1>4
      <3>2. \A i \in 1 .. 2 : a[i].kind = kind /\ a[i].digit = digit
        BY <2>1, <2>4
      <3> QED BY <3>1, <3>2 DEF Final
    <2>6. \A i \in 3 .. 4 : Final(a[i]) /\ a[i].kind = r /\ a[i].half = i - 2
      BY <2>2, <2>4 DEF Final
    <2>7. \A i \in 1 .. 4 : i \in 1 .. 2 \/ i \in 3 .. 4
      OBVIOUS
    <2> HIDE DEF Final
    <2> QED BY <2>4, <2>5, <2>6, <2>7 DEF AnswerShape
  <1> QED BY <1>2, <1>3, <1>4

-----------------------------------------------------------------------------
(* Type correctness *)

\* What the buffer and the rest of a read are made of.
LEMMA ReadParts ==
    ASSUME TypeOK, NEW k \in 0 .. Len(line)
    PROVE  LET buf  == SubSeq(line, 1, k)
               rest == SubSeq(line, k + 1, Len(line)) IN
           /\ buf \in Seq(Cell) /\ Len(buf) = k
           /\ \A i \in 1 .. k : buf[i] = line[i]
           /\ rest \in Seq(Cell) /\ Len(rest) = Len(line) - k
           /\ \A i \in 1 .. Len(line) - k : rest[i] = line[i + k]
  <1>1. line \in Seq(Cell) /\ Len(line) \in Nat
    BY DEF TypeOK
  <1>2. \A i \in 1 .. Len(line) : line[i] \in Cell
    BY <1>1
  <1>3. \A i \in 1 .. k : line[i] \in Cell
    BY <1>1, <1>2
  <1>4. \A i \in k + 1 .. Len(line) : line[i] \in Cell
    BY <1>1, <1>2
  <1>5. /\ SubSeq(line, 1, k) \in Seq(Cell)
        /\ Len(SubSeq(line, 1, k)) = IF 1 <= k THEN k - 1 + 1 ELSE 0
        /\ \A i \in 1 .. k - 1 + 1 : SubSeq(line, 1, k)[i] = line[1 + i - 1]
    BY <1>1, <1>3, SubSeqProperties
  <1>6. /\ SubSeq(line, k + 1, Len(line)) \in Seq(Cell)
        /\ Len(SubSeq(line, k + 1, Len(line))) =
              IF k + 1 <= Len(line) THEN Len(line) - (k + 1) + 1 ELSE 0
        /\ \A i \in 1 .. Len(line) - (k + 1) + 1 :
              SubSeq(line, k + 1, Len(line))[i] = line[k + 1 + i - 1]
    BY <1>1, <1>4, SubSeqProperties
  <1> QED BY <1>1, <1>5, <1>6

\* What an operation on the line leaves in it: the cells it had, then those
\* of the message.
LEMMA LineAppend ==
    ASSUME TypeOK, NEW a \in Seq(Cell)
    PROVE  /\ line \o a \in Seq(Cell)
           /\ Len(line \o a) = Len(line) + Len(a)
           /\ \A i \in 1 .. Len(line) : (line \o a)[i] = line[i]
           /\ \A i \in 1 .. Len(a) : (line \o a)[Len(line) + i] = a[i]
  <1>1. line \in Seq(Cell) /\ Len(line) \in Nat /\ Len(a) \in Nat
    BY DEF TypeOK
  <1>2. /\ line \o a \in Seq(Cell)
        /\ Len(line \o a) = Len(line) + Len(a)
        /\ \A i \in 1 .. Len(line) + Len(a) :
              (line \o a)[i] = IF i <= Len(line) THEN line[i]
                               ELSE a[i - Len(line)]
    BY <1>1, ConcatProperties
  <1> QED BY <1>1, <1>2

\* A function that handles a result of module_recv ends in a control state,
\* whatever the result is.
LEMMA HandleType ==
    ASSUME TypeOK, NEW buf, Handle(buf)
    PROVE  /\ pc' \in {"idle", "send", "recv", "sleep"}
           /\ tries' \in Nat
           /\ ret' \in {"none", "raised", "failed", "ok", "online", "offline"}
  <1>1. CASE HandleSync(buf)
    BY <1>1 DEF HandleSync, Return, TypeOK
  <1>2. CASE HandlePoll(buf)
    BY <1>2 DEF HandlePoll, Return, Word, TypeOK
  <1> QED BY <1>1, <1>2 DEF Handle

\* The strings that a call writes, and their beginnings, are some number of command lines,
\* one for a call without a string of its caller's.
LEMMA StringShape ==
    ASSUME NEW o
    PROVE  /\ \A s \in Strings(o) : s.lines \in Nat /\ s.rest \in BOOLEAN
           /\ \A s \in Strings(o) : \A w \in Beginnings(s) :
                 w.lines \in Nat /\ w.rest \in BOOLEAN
           /\ \A s \in Strings(o) : o \notin {"cmd", "call"} => s.lines = 1
  <1>1. ASSUME NEW s \in Strings(o)
        PROVE  /\ s.lines \in Nat /\ s.rest \in BOOLEAN
               /\ o \notin {"cmd", "call"} => s.lines = 1
    <2>1. CASE o = "cmd"
      <3>1. s \in [lines : 0 .. MaxLines, rest : BOOLEAN]
        BY <2>1 DEF Strings
      <3> QED BY <2>1, <3>1, BoundsAssumption
    <2>2. CASE o = "call"
      <3>1. s \in [lines : 1 .. MaxLines, rest : {FALSE}]
        BY <2>2 DEF Strings
      <3>2. s.lines \in 1 .. MaxLines /\ s.rest \in {FALSE}
        BY <3>1
      <3>3. s.rest \in BOOLEAN
        BY <3>2, Zenon
      <3>4. s.lines \in Nat
        <4>1. s.lines \in 1 .. MaxLines
          BY <3>2
        <4> QED BY <4>1, BoundsAssumption
      <3> QED BY <2>2, <3>3, <3>4, Zenon
    <2>3. CASE o \notin {"cmd", "call"}
      <3>1. s = [lines |-> 1, rest |-> FALSE]
        BY <2>3 DEF Strings
      <3> QED BY <3>1
    <2> QED BY <2>1, <2>2, <2>3
  <1>2. ASSUME NEW s \in Strings(o), NEW w \in Beginnings(s)
        PROVE  w.lines \in Nat /\ w.rest \in BOOLEAN
    BY <1>1 DEF Beginnings
  <1> QED BY <1>1, <1>2

\* What a write does to the modem: k command lines more, numbered in order.
Written(k) ==
    /\ n' = n + k /\ n' \in 0 .. MaxCmd
    /\ queue' \in Seq(QueueEntry) /\ Len(queue') = Len(queue) + k
    /\ \A i \in 1 .. Len(queue) : queue'[i] = queue[i]
    /\ \A i \in 1 .. k : queue'[Len(queue) + i].id = n + i
    /\ stub' \in BOOLEAN

\* A write gives the modem whole lines, which become commands.
LEMMA Written1 ==
    ASSUME TypeOK, NEW w, w.lines \in Nat, w.rest \in BOOLEAN, Receives(w)
    PROVE  Written(w.lines)
  <1> DEFINE k == w.lines
             new == [i \in 1 .. k |-> [id |-> n + i,
                                       op |-> IF stub /\ i = 1 THEN "garbled" ELSE op]]
  <1>1. n \in Nat /\ MaxCmd \in Nat /\ n + k <= MaxCmd /\ n' = n + k
    BY BoundsAssumption DEF Receives, TypeOK
  <1>2. queue \in Seq(QueueEntry) /\ Len(queue) \in Nat
    BY DEF TypeOK, QueueEntry
  <1>3. \A i \in 1 .. k : [id |-> n + i, op |-> IF stub /\ i = 1 THEN "garbled" ELSE op]
                            \in QueueEntry
    BY <1>1 DEF QueueEntry, TypeOK
  <1>4. new \in [1 .. k -> QueueEntry] /\ \A i \in 1 .. k : new[i].id = n + i
    BY <1>3
  <1>5. new \in Seq(QueueEntry) /\ Len(new) = k
    <2> HIDE DEF new
    <2> QED BY <1>4
  <1>6. queue' = queue \o new
    BY DEF Receives
  <1>s. stub' \in BOOLEAN
    BY DEF Receives, TypeOK
  <1> HIDE DEF new
  <1>7. /\ queue' \in Seq(QueueEntry) /\ Len(queue') = Len(queue) + k
        /\ \A i \in 1 .. Len(queue) + k :
              queue'[i] = IF i <= Len(queue) THEN queue[i] ELSE new[i - Len(queue)]
    BY <1>2, <1>5, <1>6, ConcatProperties
  <1>8. \A i \in 1 .. k : queue'[Len(queue) + i].id = n + i
    <2> SUFFICES ASSUME NEW i \in 1 .. k PROVE queue'[Len(queue) + i].id = n + i
      OBVIOUS
    <2>1. /\ Len(queue) + i \in 1 .. Len(queue) + k /\ ~(Len(queue) + i <= Len(queue))
          /\ (Len(queue) + i) - Len(queue) = i
      BY <1>2
    <2>2. queue'[Len(queue) + i] = new[i]
      BY <1>7, <2>1
    <2> QED BY <1>4, <2>2
  <1>9. \A i \in 1 .. Len(queue) : queue'[i] = queue[i]
    <2> SUFFICES ASSUME NEW i \in 1 .. Len(queue) PROVE queue'[i] = queue[i]
      OBVIOUS
    <2>1. i \in 1 .. Len(queue) + k /\ i <= Len(queue)
      BY <1>2
    <2> QED BY <1>7, <2>1
  <1>10. n' \in 0 .. MaxCmd
    BY <1>1
  <1> QED BY <1>1, <1>s, <1>7, <1>8, <1>9, <1>10, Zenon DEF Written

\* module_send, when it succeeds and when it does not.
LEMMA Sent ==
    ASSUME TypeOK, Send \/ SendFails
    PROVE  \E k \in Nat : /\ Written(k)
                          /\ Send /\ op \notin {"cmd", "call"} => k = 1
  <1>1. CASE Send
    <2>1. PICK w \in Strings(op) : Receives(w)
      BY <1>1 DEF Send
    <2>2. w.lines \in Nat /\ w.rest \in BOOLEAN /\ (op \notin {"cmd", "call"} => w.lines = 1)
      BY <2>1, StringShape
    <2>3. Written(w.lines)
      BY <2>1, <2>2, Written1
    <2> QED BY <2>2, <2>3
  <1>2. CASE SendFails /\ tty = "open"
    <2>1. ~Send
      BY <1>2 DEF Send, SendFails, Return, SendError, AsyncCalls
    <2>2. PICK s \in Strings(op) : \E w \in Beginnings(s) : Receives(w)
      BY <1>2 DEF SendFails
    <2>3. PICK w \in Beginnings(s) : Receives(w)
      BY <2>2
    <2>4. w.lines \in Nat /\ w.rest \in BOOLEAN
      BY <2>2, <2>3, StringShape
    <2>5. Written(w.lines)
      BY <2>3, <2>4, Written1
    <2> QED BY <2>1, <2>4, <2>5
  <1>3. CASE SendFails /\ tty # "open"
    <2>1. ~Send /\ UNCHANGED <<n, queue, stub>>
      BY <1>3 DEF Send, SendFails
    <2>2. Written(0)
      BY <2>1 DEF Written, TypeOK, QueueEntry
    <2> QED BY <2>1, <2>2
  <1> QED BY <1>1, <1>2, <1>3

\* Every step keeps the types.
LEMMA TypeStep == TypeOK /\ [Next]_vars => TypeOK'
  <1> SUFFICES ASSUME TypeOK, [Next]_vars PROVE TypeOK'
    OBVIOUS
  <1> USE BoundsAssumption
  <1>1. ASSUME NEW o \in Calls, Begin(o) PROVE TypeOK'
    <2>1. o \in AllCalls
      BY CallsAssumption
    <2> QED BY <1>1, <2>1 DEF Begin, TypeOK, modem
  <1>2. ASSUME NEW o \in Calls, BadArguments(o) PROVE TypeOK'
    BY <1>2, CallsAssumption DEF BadArguments, TypeOK, modem, history
  <1>3. CASE Send \/ SendFails
    <2>1. n' \in 0 .. MaxCmd /\ queue' \in Seq(QueueEntry) /\ stub' \in BOOLEAN
      BY <1>3, Sent DEF Written
    <2>2. /\ pc' \in {"idle", "send", "recv", "sleep"}
          /\ ret' \in {"none", "raised", "failed", "ok", "online", "offline"}
      BY <1>3 DEF Send, SendFails, Return, SendError, TypeOK
    <2>3. UNCHANGED <<op, tries, line, avail, tty, rebooting, link, history>>
      BY <1>3 DEF Send, SendFails
    <2> QED BY <2>1, <2>2, <2>3 DEF TypeOK, history, QueueEntry
  <1>5. CASE Read
    <2>1. Taken \in 0 .. Len(line) /\ Taken <= avail
      BY DEF Taken, TypeOK
    <2>2. /\ line' \in Seq(Cell) /\ Len(line') = Len(line) - Taken
      BY <1>5, <2>1, ReadParts DEF Read
    <2>3. avail' \in 0 .. Len(line')
      BY <1>5, <2>1, <2>2 DEF Read, TypeOK
    <2>4. misled' \in BOOLEAN
      BY <1>5 DEF Read, TypeOK
    <2> QED BY <1>5, <2>2, <2>3, <2>4, HandleType DEF Read, TypeOK, modem
  <1>6. CASE ReadFails
    BY <1>6, HandleType DEF ReadFails, TypeOK, modem, history
  <1>7. CASE Sleep
    BY <1>7 DEF Sleep, Return, TypeOK, modem, history
  <1>8. CASE Close \/ Open
    <2>1. CASE tty' = "closed" /\ Close
      <3>1. avail \in 0 .. Len(line) /\ line' = SubSeq(line, avail + 1, Len(line))
        BY <2>1 DEF Close, TypeOK
      <3>2. line' \in Seq(Cell) /\ Len(line') = Len(line) - avail
        BY <3>1, ReadParts
      <3> QED BY <2>1, <3>1, <3>2 DEF Close, TypeOK, caller, modem, history
    <2>2. CASE tty' # "closed"
      BY <1>8, <2>2 DEF Close, Open, TypeOK, caller, modem, history
    <2> QED BY <1>8, <2>1, <2>2 DEF Open
  <1>9. CASE Answer
    <2>1. /\ queue \in Seq(QueueEntry) /\ queue # <<>>
          /\ Head(queue) \in QueueEntry /\ queue' \in Seq(QueueEntry)
      <3>1. queue \in Seq(QueueEntry) /\ queue # <<>> /\ queue' = Tail(queue)
        BY <1>9 DEF Answer, TypeOK, QueueEntry
      <3> QED BY <3>1, HeadTailProperties
    <2>2. PICK a \in Answers(Head(queue)) :
             /\ line' = line \o a
             /\ accepted' = IF a[Len(a)].kind = "ok"
                            THEN accepted \cup {Head(queue).id} ELSE accepted
             /\ rebooting' = TRUE \/ rebooting' = rebooting
      BY <1>9 DEF Answer
    <2>3. a \in Seq(Cell) /\ Len(a) \in Nat
      BY <2>1, AnswersShape DEF AnswerShape, TypeOK
    <2>4. /\ line' \in Seq(Cell) /\ Len(line') = Len(line) + Len(a)
          /\ avail \in 0 .. Len(line')
      BY <2>2, <2>3, LineAppend DEF TypeOK
    <2>5. accepted' \subseteq 1 .. MaxCmd
      BY <2>1, <2>2 DEF TypeOK, QueueEntry
    <2>6. rebooting' \in BOOLEAN
      BY <2>2 DEF TypeOK
    <2> QED BY <1>9, <2>1, <2>4, <2>5, <2>6 DEF Answer, TypeOK, caller, QueueEntry
  <1>10. CASE LinkChange
    <2>1. /\ Message("stat", 0, 1 - link) \in Seq(Cell)
          /\ Len(Message("stat", 0, 1 - link)) = 2
      <3>1. 1 - link \in 0 .. 1 /\ 0 \in 0 .. MaxCmd /\ "stat" \in Kinds
        BY DEF TypeOK, Kinds
      <3> QED BY <3>1, MessageShape
    <2>2. /\ line' \in Seq(Cell) /\ Len(line') = Len(line) + 2
          /\ avail \in 0 .. Len(line')
      <3>1. line' = line \o Message("stat", 0, 1 - link)
        BY <1>10 DEF LinkChange
      <3>2. line' \in Seq(Cell) /\ Len(line') = Len(line) + 2
        BY <2>1, <3>1, LineAppend
      <3> QED BY <3>2 DEF TypeOK
    <2> QED BY <1>10, <2>2 DEF LinkChange, TypeOK, caller
  <1>11. CASE Deliver
    BY <1>11 DEF Deliver, TypeOK, caller, modem, history
  <1>4. CASE Announce
    <2>1. /\ Message("word", 0, 0) \in Seq(Cell) /\ Len(Message("word", 0, 0)) = 2
      <3>1. 0 \in 0 .. 1 /\ 0 \in 0 .. MaxCmd /\ "word" \in Kinds
        BY DEF Kinds
      <3> QED BY <3>1, MessageShape
    <2>2. line' = line \o Message("word", 0, 0)
      BY <1>4 DEF Announce
    <2>3. line' \in Seq(Cell) /\ Len(line') = Len(line) + 2
      BY <2>1, <2>2, LineAppend
    <2>4. avail \in 0 .. Len(line')
      BY <2>3 DEF TypeOK
    <2> QED BY <1>4, <2>3, <2>4 DEF Announce, TypeOK, caller, modem, history
  <1>14. CASE Drop
    <2>1. line # <<>> /\ line \in Seq(Cell) /\ line' = Tail(line)
      BY <1>14 DEF Drop, TypeOK
    <2>2. line' \in Seq(Cell) /\ Len(line') \in Nat
      BY <2>1, HeadTailProperties
    <2>3. avail' = 0
      BY <1>14 DEF Drop, TypeOK
    <2> QED BY <1>14, <2>2, <2>3 DEF Drop, TypeOK, caller, modem, history
  <1>12. CASE Reboot
    <2>1. queue' \in Seq(QueueEntry) /\ line' \in Seq(Cell) /\ Len(line') = 0
      BY <1>12 DEF Reboot
    <2>2. seen' \subseteq 0 .. 1 /\ link' \in 0 .. 1
      BY <1>12 DEF Reboot, TypeOK
    <2>3. avail' \in 0 .. Len(line')
      BY <1>12, <2>1 DEF Reboot
    <2>4. tty' = "closed" /\ avail' = 0 /\ stub' \in BOOLEAN /\ rebooting' \in BOOLEAN
      BY <1>12 DEF Reboot
    <2>5. UNCHANGED <<pc, op, tries, ret, n, accepted, base, clean, misled, unread>>
      BY <1>12 DEF Reboot, caller
    <2> QED BY <2>1, <2>2, <2>3, <2>4, <2>5 DEF TypeOK, QueueEntry
  <1>13. CASE UNCHANGED vars
    BY <1>13 DEF vars, caller, modem, history, TypeOK
  <1> QED BY <1>1, <1>2, <1>3, <1>4, <1>5, <1>6, <1>7, <1>8, <1>9, <1>10,
             <1>11, <1>12, <1>13, <1>14 DEF Next, CallStep, Environment

\* The types hold when the module is loaded.
LEMMA TypeInit == Init => TypeOK
  <1> SUFFICES ASSUME Init PROVE TypeOK
    OBVIOUS
  <1>1. queue \in Seq(QueueEntry) /\ line \in Seq(Cell) /\ Len(line) = 0
    BY DEF Init
  <1>2. n \in 0 .. MaxCmd /\ base \in 0 .. MaxCmd
    BY BoundsAssumption DEF Init
  <1>3. op \in AllCalls /\ seen \subseteq 0 .. 1 /\ unread \subseteq 0 .. 1
    BY DEF Init, AllCalls, SyncCalls
  <1>4. avail \in 0 .. Len(line) /\ tries \in Nat /\ accepted \subseteq 1 .. MaxCmd
    BY <1>1 DEF Init
  <1>5. /\ tty = "closed" /\ avail = 0 /\ stub \in BOOLEAN
        /\ rebooting \in BOOLEAN /\ clean \in BOOLEAN /\ misled \in BOOLEAN
    BY DEF Init
  <1> QED BY <1>1, <1>2, <1>3, <1>4, <1>5 DEF Init, TypeOK, QueueEntry

\* The types and bounds of TypeOK hold in every state of the dialogue.
THEOREM TypeCorrect == Spec => []TypeOK
  BY TypeInit, TypeStep, PTL DEF Spec

-----------------------------------------------------------------------------
(* Invariants *)

NoFinal == \A k \in 1 .. Len(line) : ~Final(line[k])

\* The line holds at most one result code.
OneFinal ==
    \A i, j \in 1 .. Len(line) :
       Final(line[i]) /\ line[i].half = 1 /\ Final(line[j]) => j <= i + 1

\* The call waits for the answer to the command it wrote last: that command alone may
\* be unanswered, and a result code on the line can only be its own.
Waits ==
    /\ n = base + tries + 1 /\ base + 1 .. n - 1 \subseteq accepted
    /\ queue # <<>> => Len(queue) = 1 /\ queue[1].id = n /\ NoFinal
    /\ OneFinal
    /\ \A k \in 1 .. Len(line) : line[k].kind = "ok" => n \in accepted

\* The call has written all its commands and nothing is outstanding: before it writes
\* the next, and also while it waits, when its string held no whole line.
Quiet ==
    /\ n = base + tries /\ base + 1 .. n \subseteq accepted
    /\ queue = <<>> /\ NoFinal

\* A call in step, before it writes a command and while it waits.
InCall ==
    InStep =>
       /\ pc # "sleep"
       /\ pc = "send" => Quiet /\ tries < Commands(op)
       /\ pc = "recv" => (Waits \/ Quiet) /\ tries < Commands(op)

\* While a function runs, the link's state and every state reported on the line that it
\* may read were seen during the call or lay unread at its start.
ReportsKnown ==
    pc # "idle" =>
       /\ link \in seen
       /\ \A k \in 1 .. Len(line) : \A d \in 0 .. 1 :
             Reports(line[k], op, d) => d \in seen \cup unread

\* The inductive invariants of the two theorems, beside TypeOK.
ExchangeInv == InCall /\ InSync
ReportInv   == ReportsKnown /\ StateReport

-----------------------------------------------------------------------------
(* InSync *)

\* When a call in step with the modem finds OK in what it read, that OK is the
\* answer to its last command, and nothing is left to read.
LEMMA OwnOk ==
    ASSUME TypeOK, Waits \/ Quiet,
           NEW m \in 0 .. Len(line), Found(SubSeq(line, 1, m), {"ok"})
    PROVE  /\ Waits /\ queue = <<>> /\ n \in accepted
           /\ \A i \in m + 1 .. Len(line) : ~Final(line[i])
  <1> DEFINE buf == SubSeq(line, 1, m)
  <1>1. /\ Len(line) \in Nat /\ Len(buf) = m
        /\ \A i \in 1 .. m : buf[i] = line[i]
    BY ReadParts DEF TypeOK
  <1>2. PICK k \in 1 .. m : k < m /\ buf[k].half = 1 /\ buf[k].kind = "ok"
    <2> HIDE DEF buf
    <2>1. Found(buf, {"ok"})
      BY DEF buf
    <2> QED BY <1>1, <2>1 DEF Found, WholeAt
  <1>3. k \in 1 .. Len(line) /\ line[k].half = 1 /\ line[k].kind = "ok"
    BY <1>1, <1>2
  <1>4. Final(line[k])
    BY <1>3 DEF Final
  <1>5. Waits /\ n \in accepted /\ queue = <<>>
    BY <1>3, <1>4 DEF Waits, Quiet, NoFinal
  <1>6. \A j \in 1 .. Len(line) : Final(line[j]) => j <= k + 1
    BY <1>3, <1>4, <1>5 DEF Waits, OneFinal
  <1> HIDE DEF Final
  <1>7. ASSUME NEW i \in m + 1 .. Len(line) PROVE ~Final(line[i])
    BY <1>1, <1>2, <1>6
  <1> QED BY <1>5, <1>7

\* The line as an answer that arrives when no result code is unread leaves it.
LEMMA OneAnswer ==
    ASSUME TypeOK, NoFinal, NEW a, AnswerShape(a), line' = line \o a
    PROVE  /\ OneFinal'
           /\ \A k \in 1 .. Len(line') :
                 line'[k].kind = "ok" => a[Len(a)].kind = "ok"
  <1> DEFINE L == Len(line)  A == Len(a)
  <1>1. /\ L \in Nat /\ A \in {2, 4} /\ a \in Seq(Cell)
    BY DEF TypeOK, AnswerShape
  <1>2. /\ Len(line') = L + A
        /\ \A i \in 1 .. L : line'[i] = line[i]
        /\ \A i \in 1 .. A : line'[L + i] = a[i]
    BY <1>1, LineAppend
  <1>3. \A i \in 1 .. L : ~Final(line'[i])
    BY <1>2 DEF NoFinal, Final
  <1>4. \A i \in 1 .. A - 2 : ~Final(line'[L + i])
    BY <1>1, <1>2 DEF AnswerShape, Final
  <1>5. line'[L + A].half = 2 /\ line'[L + A] = a[A] /\ line'[L + A - 1] = a[A - 1]
    BY <1>1, <1>2 DEF AnswerShape
  <1> HIDE DEF L, A
  <1>6. ASSUME NEW i \in 1 .. Len(line'), Final(line'[i])
        PROVE  i \in {L + A - 1, L + A}
    <2>1. CASE i \in 1 .. L
      BY <2>1, <1>3, <1>6
    <2>2. CASE i \in L + 1 .. L + A - 2
      <3>1. i - L \in 1 .. A - 2 /\ i = L + (i - L)
        BY <2>2, <1>1
      <3> QED BY <3>1, <1>4, <1>6
    <2> QED BY <2>1, <2>2, <1>1, <1>2
  <1>7. ASSUME NEW i \in 1 .. Len(line'), NEW j \in 1 .. Len(line'),
               Final(line'[i]), line'[i].half = 1, Final(line'[j])
        PROVE  j <= i + 1
    BY <1>1, <1>2, <1>5, <1>6, <1>7
  <1>8. ASSUME NEW k \in 1 .. Len(line'), line'[k].kind = "ok"
        PROVE  a[A].kind = "ok"
    <2>1. Final(line'[k])
      BY <1>8 DEF Final
    <2> QED BY <2>1, <1>1, <1>5, <1>6, <1>8 DEF AnswerShape, A
  <1> QED BY <1>7, <1>8 DEF OneFinal, A, Final

\* What an unasked message adds to the line.
LEMMA ReportAppended ==
    ASSUME TypeOK, NEW kind \in {"stat", "word"}, NEW d \in 0 .. 1,
           line' = line \o Message(kind, 0, d)
    PROVE  /\ Len(line') = Len(line) + 2
           /\ \A k \in 1 .. Len(line') :
                 \/ k \in 1 .. Len(line) /\ line'[k] = line[k]
                 \/ line'[k].kind = kind /\ line'[k].digit = d
  <1> DEFINE m == Message(kind, 0, d)
  <1>1. 0 \in 0 .. MaxCmd /\ kind \in Kinds
    BY BoundsAssumption DEF Kinds
  <1>2. /\ m \in Seq(Cell) /\ Len(m) = 2
        /\ \A i \in 1 .. 2 : m[i].kind = kind /\ m[i].digit = d
    BY <1>1, MessageShape
  <1>3. line' = line \o m
    OBVIOUS
  <1> HIDE DEF m
  <1>4. /\ Len(line) \in Nat /\ Len(line') = Len(line) + 2
        /\ \A i \in 1 .. Len(line) : line'[i] = line[i]
        /\ \A i \in 1 .. 2 : line'[Len(line) + i] = m[i]
    <2>1. /\ Len(line \o m) = Len(line) + Len(m)
          /\ \A i \in 1 .. Len(line) : (line \o m)[i] = line[i]
          /\ \A i \in 1 .. Len(m) : (line \o m)[Len(line) + i] = m[i]
      BY <1>2, LineAppend
    <2>2. Len(line) \in Nat
      BY DEF TypeOK
    <2> QED BY <1>2, <1>3, <2>1, <2>2
  <1>5. ASSUME NEW k \in 1 .. Len(line'), k \notin 1 .. Len(line)
        PROVE  line'[k].kind = kind /\ line'[k].digit = d
    <2>1. k - Len(line) \in 1 .. 2 /\ k = Len(line) + (k - Len(line))
      BY <1>4, <1>5
    <2> QED BY <2>1, <1>2, <1>4
  <1> QED BY <1>4, <1>5

\* What del_lte, new_lte and a closed terminal do to the line: its first cells go.
LEMMA LineShortened ==
    ASSUME TypeOK, Close \/ Open \/ Drop
    PROVE  \E m \in 0 .. Len(line) :
              /\ Len(line') = Len(line) - m
              /\ \A i \in 1 .. Len(line) - m : line'[i] = line[i + m]
  <1>1. line \in Seq(Cell) /\ Len(line) \in Nat /\ avail \in 0 .. Len(line)
    BY DEF TypeOK
  <1>2. CASE line' = SubSeq(line, avail + 1, Len(line))
    <2>1. /\ Len(line') = Len(line) - avail
          /\ \A i \in 1 .. Len(line) - avail : line'[i] = line[i + avail]
      BY <1>1, <1>2, ReadParts
    <2> QED BY <1>1, <2>1
  <1>3. CASE line # <<>> /\ line' = Tail(line)
    <2>1. Len(line) \in Nat \ {0}
      BY <1>1, <1>3, EmptySeq
    <2>2. /\ Len(line') = Len(line) - 1
          /\ \A i \in 1 .. Len(line) - 1 : line'[i] = line[i + 1]
      BY <1>1, <1>3, <2>1
    <2> QED BY <2>1, <2>2
  <1>4. CASE line' = line
    <2>1. /\ Len(line') = Len(line) - 0
          /\ \A i \in 1 .. Len(line) - 0 : line'[i] = line[i + 0]
      BY <1>1, <1>4
    <2> QED BY <1>1, <2>1
  <1> QED BY <1>2, <1>3, <1>4 DEF Close, Open, Drop

\* A step that leaves the call where it is and adds nothing to the result codes on the
\* line leaves it in step.
LEMMA StillInStep ==
    ASSUME InCall, InSync,
           UNCHANGED <<pc, op, tries, ret, n, accepted, base, clean, misled>>,
           queue' = queue \/ queue' = <<>>,
           NoFinal => NoFinal', OneFinal => OneFinal',
           \A k \in 1 .. Len(line') :
              line'[k].kind = "ok" => \E j \in 1 .. Len(line) : line[j].kind = "ok"
    PROVE  InCall' /\ InSync'
  <1>1. Commands(op)' = Commands(op) /\ (InStep' <=> InStep)
    BY DEF Commands, InStep
  <1>2. Quiet => Quiet'
    <2> HIDE DEF NoFinal
    <2> QED BY DEF Quiet
  <1>3. Waits => Waits'
    <2> HIDE DEF NoFinal, OneFinal
    <2> QED BY DEF Waits
  <1>4. ~Outstanding => ~Outstanding'
    BY DEF Outstanding, NoFinal, Final
  <1>5. InCall'
    BY <1>1, <1>2, <1>3 DEF InCall
  <1>6. InSync'
    BY <1>1, <1>4 DEF InSync
  <1> QED BY <1>5, <1>6

\* A call that is in step after a step of its own, of the modem or of the line was in
\* step before it.
LEMMA StaysOut ==
    ASSUME TypeOK, CallStep \/ Close \/ Open \/ Environment \/ UNCHANGED vars, InStep'
    PROVE  InStep
  <1>1. UNCHANGED <<op, base, clean>>
    BY DEF CallStep, Send, SendFails, Read, ReadFails, Sleep, Close, Open, Environment,
           Answer, LinkChange, Announce, Deliver, Drop, Reboot, vars, caller, modem, history
  <1>2. misled => misled'
    BY DEF CallStep, Send, SendFails, Read, ReadFails, Sleep, Close, Open, Environment,
           Answer, LinkChange, Announce, Deliver, Drop, Reboot, vars, caller, modem, history
  <1>3. n <= n' /\ n' \in Nat
    <2>1. n \in Nat
      BY DEF TypeOK
    <2>2. CASE Send \/ SendFails
      BY <2>1, <2>2, Sent DEF Written
    <2>3. CASE ~(Send \/ SendFails)
      <3>1. n' = n
        BY <2>3 DEF CallStep, Read, ReadFails, Sleep, Close, Open, Environment,
           Answer, LinkChange, Announce, Deliver, Drop, Reboot, vars, caller, modem, history
      <3> QED BY <2>1, <3>1
    <2> QED BY <2>2, <2>3
  <1>4. Commands(op)' = Commands(op) /\ n \in Nat /\ base + Commands(op) \in Nat
    BY <1>1, BoundsAssumption DEF Commands, TypeOK
  <1>5. n <= base + Commands(op)
    BY <1>1, <1>3, <1>4 DEF InStep
  <1> QED BY <1>1, <1>2, <1>5 DEF InStep

\* What a call in step does with what it has read: it believes an OK only if it is a
\* result code.
LEMMA TrueOk ==
    ASSUME NEW buf, op \in SyncCalls, Handle(buf),
           misled' = (misled \/ (Misleads(buf) /\ pc' # "sleep")), ~misled'
    PROVE  /\ HandleSync(buf)
           /\ FoundOk(buf) <=> Found(buf, {"ok"})
  <1>1. HandleSync(buf)
    BY DEF Handle, HandlePoll, SyncCalls, PollCalls
  <1>2. pc' # "sleep"
    BY <1>1 DEF HandleSync, Return
  <1>3. ~Misleads(buf)
    BY <1>2
  <1>4. Found(buf, {"word"}) => Found(buf, {"ok"})
    BY <1>3 DEF Misleads
  <1>5. FoundOk(buf) <=> Found(buf, {"ok"}) \/ Found(buf, {"word"})
    BY DEF FoundOk, Found
  <1> QED BY <1>1, <1>4, <1>5

\* A write of a call in step: one command, or none.
LEMMA SendInStep ==
    ASSUME TypeOK, InCall, Send, InStep'
    PROVE  /\ InStep /\ pc = "send" /\ pc' = "recv" /\ tries' = tries /\ line' = line
           /\ UNCHANGED <<op, base, clean, misled, accepted, ret>>
           /\ \/ n' = n + 1 /\ Len(queue') = 1 /\ queue'[1].id = n'
              \/ n' = n /\ queue' = <<>>
  <1>1. InStep
    BY StaysOut DEF CallStep
  <1>2. /\ pc = "send" /\ tries' = tries /\ line' = line /\ pc' = "recv" /\ ret' = ret
        /\ UNCHANGED <<op, base, clean, misled, accepted>>
    BY <1>1 DEF Send, history, InStep, SyncCalls, AsyncCalls
  <1>3. Quiet /\ tries < Commands(op)
    BY <1>1, <1>2 DEF InCall
  <1>4. /\ n \in Nat /\ base \in Nat /\ tries \in Nat /\ InitCount \in Nat
        /\ Len(queue) = 0
    BY <1>3, BoundsAssumption DEF TypeOK, Quiet
  <1>5. PICK k \in Nat : Written(k) /\ (op \notin {"cmd", "call"} => k = 1)
    BY Sent
  <1>6. k \in {0, 1}
    <2>1. CASE op = "cmd"
      <3>1. n + k <= base + 1 /\ tries = 0
        BY <1>2, <1>3, <1>4, <1>5, <2>1 DEF InStep, Commands, Written
      <3>2. n = base
        BY <1>3, <1>4, <3>1 DEF Quiet
      <3> QED BY <1>4, <3>1, <3>2
    <2>2. CASE op # "cmd"
      <3>1. op # "call"
        BY <1>1 DEF InStep, SyncCalls
      <3> QED BY <1>5, <2>2, <3>1
    <2> QED BY <2>1, <2>2
  <1>7. CASE k = 1
    <2>1. n' = n + 1 /\ Len(queue') = 1 /\ queue'[1].id = n'
      BY <1>4, <1>5, <1>7 DEF Written
    <2> QED BY <1>1, <1>2, <2>1
  <1>8. CASE k = 0
    <2>1. n' = n /\ queue' \in Seq(QueueEntry) /\ Len(queue') = 0
      BY <1>4, <1>5, <1>8 DEF Written
    <2> QED BY <1>1, <1>2, <2>1, EmptySeq
  <1> QED BY <1>6, <1>7, <1>8

\* Every step keeps what a clean call knows of its answers.
LEMMA ExchangeStep == TypeOK /\ ExchangeInv /\ [Next]_vars => ExchangeInv'
  <1> SUFFICES ASSUME TypeOK, InCall, InSync, [Next]_vars PROVE InCall' /\ InSync'
    BY DEF ExchangeInv
  <1> USE BoundsAssumption
  <1>1. ASSUME NEW o \in Calls, Begin(o) PROVE InCall' /\ InSync'
    <2>1. pc' = "send" /\ op' = o /\ tries' = 0 /\ base' = n /\ n' = n
          /\ clean' = (~Outstanding /\ ~stub) /\ queue' = queue /\ line' = line
      BY <1>1 DEF Begin, modem
    <2>2. clean' => queue' = <<>> /\ NoFinal'
      BY <2>1 DEF Outstanding, NoFinal, Final
    <2>3. n' = base' + tries' /\ base' + 1 .. n' = {} /\ tries' < Commands(op')
      BY <2>1 DEF TypeOK, Commands
    <2>4. clean' => Quiet'
      <3> HIDE DEF NoFinal
      <3> QED BY <2>2, <2>3 DEF Quiet
    <2>5. InCall'
      BY <2>1, <2>3, <2>4 DEF InCall, InStep, Commands
    <2>6. InSync'
      BY <2>1 DEF InSync
    <2> QED BY <2>5, <2>6
  <1>2. ASSUME NEW o \in Calls, BadArguments(o) PROVE InCall' /\ InSync'
    <2>1. pc' = "idle" /\ ret' = "raised"
      BY <1>2 DEF BadArguments
    <2> QED BY <2>1 DEF InCall, InSync
  <1>o. ASSUME ~InStep' PROVE InCall' /\ InSync'
    BY <1>o DEF InCall, InSync
  <1>3. CASE Send /\ InStep'
    <2>1. /\ InStep /\ pc = "send" /\ pc' = "recv" /\ tries' = tries /\ line' = line
          /\ UNCHANGED <<op, base, clean, misled, accepted, ret>>
          /\ \/ n' = n + 1 /\ Len(queue') = 1 /\ queue'[1].id = n'
             \/ n' = n /\ queue' = <<>>
      BY <1>3, SendInStep
    <2>2. Quiet /\ tries < Commands(op)
      BY <2>1 DEF InCall
    <2>3. NoFinal' /\ OneFinal' /\ \A k \in 1 .. Len(line') : line'[k].kind # "ok"
      BY <2>1, <2>2 DEF Quiet, NoFinal, OneFinal, Final
    <2>4. ASSUME n' = n + 1, Len(queue') = 1, queue'[1].id = n' PROVE Waits'
      <3>1. n' = base' + tries' + 1 /\ base' + 1 .. n' - 1 = base + 1 .. n
        BY <2>1, <2>2, <2>4 DEF Quiet, TypeOK
      <3>2. base' + 1 .. n' - 1 \subseteq accepted'
        BY <2>1, <2>2, <3>1 DEF Quiet
      <3> HIDE DEF NoFinal, OneFinal
      <3> QED BY <2>3, <2>4, <3>1, <3>2 DEF Waits
    <2>5. ASSUME n' = n, queue' = <<>> PROVE Quiet'
      <3> HIDE DEF NoFinal
      <3> QED BY <2>1, <2>2, <2>3, <2>5 DEF Quiet
    <2>6. Waits' \/ Quiet'
      BY <2>1, <2>4, <2>5
    <2>7. InCall'
      <3> HIDE DEF Waits, Quiet
      <3> QED BY <2>1, <2>2, <2>6 DEF InCall, Commands
    <2> QED BY <2>1, <2>7 DEF InSync
  <1>4. CASE SendFails
    BY <1>4 DEF SendFails, Return, SendError, InCall, InSync
  <1>5. CASE Read /\ InStep'
    <2>1. InStep
      BY <1>5, StaysOut DEF CallStep
    <2>2. /\ pc = "recv" /\ op' = op /\ n' = n /\ queue' = queue
          /\ accepted' = accepted /\ base' = base /\ clean' = clean
          /\ line' = SubSeq(line, Taken + 1, Len(line))
      BY <1>5 DEF Read, modem
    <2>3. /\ HandleSync(SubSeq(line, 1, Taken))
          /\ FoundOk(SubSeq(line, 1, Taken)) <=> Found(SubSeq(line, 1, Taken), {"ok"})
      BY <1>5, <2>1, TrueOk DEF Read, InStep
    <2>4. (Waits \/ Quiet) /\ tries < Commands(op) /\ tries \in Nat
      BY <2>1, <2>2 DEF InCall, TypeOK
    <2>5. CASE ~FoundOk(SubSeq(line, 1, Taken))
      BY <2>3, <2>5 DEF HandleSync, Return, InCall, InSync
    <2>6. CASE FoundOk(SubSeq(line, 1, Taken))
      <3>1. Taken \in 0 .. Len(line)
        BY DEF Taken, TypeOK
      <3>2. /\ Waits /\ queue = <<>> /\ n \in accepted
            /\ \A i \in Taken + 1 .. Len(line) : ~Final(line[i])
        BY <2>3, <2>4, <2>6, <3>1, OwnOk
      <3>3. NoFinal'
        <4>1. /\ Len(line') = Len(line) - Taken
              /\ \A i \in 1 .. Len(line) - Taken : line'[i] = line[i + Taken]
          BY <2>2, <3>1, ReadParts
        <4>2. ASSUME NEW i \in 1 .. Len(line') PROVE ~Final(line'[i])
          <5>1. i + Taken \in Taken + 1 .. Len(line) /\ line'[i] = line[i + Taken]
            BY <3>1, <4>1 DEF TypeOK
          <5> QED BY <3>2, <5>1 DEF Final
        <4> QED BY <4>2 DEF NoFinal, Final
      <3>4. ~Outstanding'
        BY <2>2, <3>2, <3>3 DEF Outstanding, NoFinal, Final
      <3>5. n = base + tries + 1 /\ base + 1 .. n - 1 \subseteq accepted
        BY <3>2 DEF Waits
      <3>6. base' + 1 .. n' \subseteq accepted'
        <4>1. ASSUME NEW i \in base + 1 .. n PROVE i \in accepted
          <5>1. i = n \/ i \in base + 1 .. n - 1
            BY DEF TypeOK
          <5> QED BY <5>1, <3>2, <3>5
        <4> QED BY <2>2, <4>1
      <3>7. \/ pc' = "send" /\ op = "init" /\ tries' = tries + 1
               /\ tries + 1 < InitCount
            \/ pc' = "idle" /\ ~(op = "init" /\ tries + 1 < InitCount)
        BY <2>3, <2>6 DEF HandleSync, Return
      <3>8. CASE pc' = "send"
        <4>1. tries' = tries + 1 /\ tries' < Commands(op')
          BY <2>2, <2>4, <3>7, <3>8 DEF Commands
        <4>2. n' = base' + tries'
          BY <2>2, <2>4, <3>5, <4>1 DEF TypeOK
        <4>3. Quiet'
          <5> HIDE DEF NoFinal
          <5> QED BY <2>2, <3>2, <3>3, <3>6, <4>2 DEF Quiet
        <4>4. InCall'
          <5> HIDE DEF Quiet
          <5> QED BY <3>8, <4>1, <4>3 DEF InCall, Commands
        <4> QED BY <3>8, <4>4 DEF InSync
      <3>9. CASE pc' = "idle"
        <4>1. n = base + Commands(op)
          BY <2>4, <3>5, <3>7, <3>9 DEF Commands, TypeOK
        <4>2. InSync'
          <5> HIDE DEF Outstanding
          <5> QED BY <2>2, <3>4, <3>6, <4>1 DEF InSync, Commands
        <4> QED BY <3>9, <4>2 DEF InCall
      <3> QED BY <3>7, <3>8, <3>9
    <2> QED BY <2>5, <2>6
  <1>6. CASE ReadFails /\ InStep'
    <2>1. InStep
      BY <1>6, StaysOut DEF CallStep
    <2>2. ~FoundOk(<<>>)
      BY DEF FoundOk, Found
    <2>3. HandleSync(<<>>)
      BY <1>6, <2>1 DEF ReadFails, Handle, HandlePoll, InStep, SyncCalls, PollCalls
    <2> QED BY <2>2, <2>3 DEF HandleSync, Return, InCall, InSync
  <1>7. CASE Sleep /\ InStep'
    <2>1. InStep
      BY <1>7, StaysOut DEF CallStep
    <2> QED BY <1>7, <2>1 DEF Sleep, InCall
  <1>8. CASE Close \/ Open \/ Drop
    <2>1. UNCHANGED <<pc, op, tries, ret, n, queue, accepted, base, clean, misled>>
      BY <1>8 DEF Close, Open, Drop, caller, modem, history
    <2>2. PICK m \in 0 .. Len(line) :
             /\ Len(line') = Len(line) - m
             /\ \A i \in 1 .. Len(line) - m : line'[i] = line[i + m]
      BY <1>8, LineShortened
    <2>3. \A k \in 1 .. Len(line') : k + m \in 1 .. Len(line) /\ line'[k] = line[k + m]
      <3>1. Len(line) \in Nat
        BY DEF TypeOK
      <3> QED BY <2>2, <3>1
    <2>4. NoFinal => NoFinal'
      BY <2>3 DEF NoFinal, Final
    <2>5. OneFinal => OneFinal'
      <3> SUFFICES ASSUME OneFinal, NEW i \in 1 .. Len(line'),
                          NEW j \in 1 .. Len(line'), Final(line'[i]),
                          line'[i].half = 1, Final(line'[j])
                   PROVE  j <= i + 1
        BY DEF OneFinal, Final
      <3>1. j + m <= i + m + 1
        BY <2>3 DEF OneFinal
      <3> QED BY <3>1
    <2>6. \A k \in 1 .. Len(line') :
             line'[k].kind = "ok" => \E j \in 1 .. Len(line) : line[j].kind = "ok"
      BY <2>3
    <2> QED BY <2>1, <2>4, <2>5, <2>6, StillInStep
  <1>9. CASE Answer /\ InStep'
    <2>0. InStep
      BY <1>9, StaysOut DEF Environment
    <2>1. /\ queue \in Seq(QueueEntry) /\ queue # <<>> /\ queue' = Tail(queue)
          /\ pc' = pc /\ op' = op /\ tries' = tries /\ ret' = ret /\ n' = n
          /\ base' = base /\ clean' = clean
      BY <1>9 DEF Answer, caller, TypeOK, QueueEntry
    <2>2. PICK a \in Answers(Head(queue)) :
             /\ line' = line \o a
             /\ accepted' = IF a[Len(a)].kind = "ok"
                            THEN accepted \cup {Head(queue).id} ELSE accepted
      BY <1>9 DEF Answer
    <2>3. AnswerShape(a)
      BY <2>1, AnswersShape, HeadTailProperties DEF TypeOK
    <2>4. accepted \subseteq accepted'
      BY <2>2
    <2>5. CASE pc = "recv"
      <3>0. Waits /\ tries < Commands(op)
        BY <2>0, <2>1, <2>5 DEF InCall, Quiet
      <3>1. /\ n = base + tries + 1 /\ base + 1 .. n - 1 \subseteq accepted
            /\ Len(queue) = 1 /\ queue[1].id = n /\ NoFinal
        BY <2>1, <3>0 DEF Waits
      <3>2. queue' = <<>> /\ Head(queue).id = n
        BY <2>1, <3>1
      <3>3. OneFinal' /\ \A k \in 1 .. Len(line') :
                            line'[k].kind = "ok" => a[Len(a)].kind = "ok"
        BY <2>2, <2>3, <3>1, OneAnswer
      <3>4. \A k \in 1 .. Len(line') : line'[k].kind = "ok" => n' \in accepted'
        BY <2>1, <2>2, <3>2, <3>3
      <3>5. Waits'
        <4> HIDE DEF OneFinal
        <4> QED BY <2>1, <2>4, <3>1, <3>2, <3>3, <3>4 DEF Waits
      <3>6. InCall'
        <4> HIDE DEF Waits
        <4> QED BY <2>1, <2>5, <3>0, <3>5 DEF InCall, Commands
      <3> QED BY <2>1, <2>5, <3>6 DEF InSync
    <2>6. CASE pc # "recv"
      <3>1. pc # "send" /\ ~(pc = "idle" /\ ret = "ok") /\ pc # "sleep"
        BY <2>0, <2>1, <2>6 DEF InCall, Quiet, InSync, Outstanding
      <3> QED BY <2>1, <2>6, <3>1 DEF InCall, InSync
    <2> QED BY <2>5, <2>6
  <1>10. CASE LinkChange \/ Announce
    <2>1. UNCHANGED <<pc, op, tries, ret, n, queue, accepted, base, clean, misled>>
      BY <1>10 DEF LinkChange, Announce, caller, modem, history
    <2>2. \A k \in 1 .. Len(line') :
             \/ k \in 1 .. Len(line) /\ line'[k] = line[k]
             \/ line'[k].kind \in {"stat", "word"}
      <3>1. 1 - link \in 0 .. 1 /\ 0 \in 0 .. 1
        BY DEF TypeOK
      <3>2. CASE LinkChange
        BY <3>1, <3>2, ReportAppended DEF LinkChange
      <3>3. CASE Announce
        BY <3>1, <3>3, ReportAppended DEF Announce
      <3> QED BY <1>10, <3>2, <3>3
    <2>3. NoFinal => NoFinal'
      BY <2>2 DEF NoFinal, Final
    <2>4. OneFinal => OneFinal'
      <3>1. SUFFICES ASSUME OneFinal, NEW i \in 1 .. Len(line'),
                            NEW j \in 1 .. Len(line'), Final(line'[i]),
                            line'[i].half = 1, Final(line'[j])
                     PROVE  j <= i + 1
        BY DEF OneFinal, Final
      <3>2. /\ i \in 1 .. Len(line) /\ line'[i] = line[i]
            /\ j \in 1 .. Len(line) /\ line'[j] = line[j]
        BY <2>2, <3>1 DEF Final
      <3> QED BY <3>1, <3>2 DEF OneFinal
    <2>5. \A k \in 1 .. Len(line') :
             line'[k].kind = "ok" => \E j \in 1 .. Len(line) : line[j].kind = "ok"
      BY <2>2
    <2> QED BY <2>1, <2>3, <2>4, <2>5, StillInStep
  <1>11. CASE Deliver \/ UNCHANGED vars
    <2>1. UNCHANGED <<pc, op, tries, ret, n, queue, line, accepted, base, clean, misled>>
      BY <1>11 DEF Deliver, vars, caller, modem, history
    <2>2. (NoFinal => NoFinal') /\ (OneFinal => OneFinal')
      BY <2>1 DEF NoFinal, OneFinal, Final
    <2> QED BY <2>1, <2>2, StillInStep
  <1>12. CASE Reboot
    <2>1. /\ UNCHANGED <<pc, op, tries, ret, n, accepted, base, clean, misled>>
          /\ queue' = <<>> /\ Len(line') = 0
      BY <1>12 DEF Reboot, caller
    <2>2. NoFinal' /\ OneFinal'
      BY <2>1 DEF NoFinal, OneFinal
    <2>3. \A k \in 1 .. Len(line') : line'[k].kind # "ok"
      BY <2>1
    <2> QED BY <2>1, <2>2, <2>3, StillInStep
  <1> QED BY <1>1, <1>2, <1>3, <1>4, <1>5, <1>6, <1>7, <1>8, <1>9, <1>10,
             <1>11, <1>12, <1>o DEF Next, CallStep, Environment

\* A synchronous call that stays in step and reports success has had each of its commands
\* accepted, and leaves no answer outstanding.
THEOREM InSyncCorrect == Spec => []InSync
  <1>1. Init => ExchangeInv
    BY DEF Init, ExchangeInv, InCall, InSync
  <1>2. TypeOK /\ ExchangeInv /\ [Next]_vars => ExchangeInv'
    BY ExchangeStep
  <1>3. ExchangeInv => InSync
    BY DEF ExchangeInv
  <1> QED BY <1>1, <1>2, <1>3, TypeCorrect, PTL DEF Spec

-----------------------------------------------------------------------------
(* The exchange that Me909s implements *)

\* Answers and acceptances belong to commands that were written.
IdsKnown ==
    /\ accepted \subseteq 1 .. n
    /\ \A i \in 1 .. Len(queue) : queue[i].id <= n

\* No message names a command that has not been sent.
LEMMA IdsKnownCorrect == Spec => []IdsKnown
  <1>1. Init => IdsKnown
    BY DEF Init, IdsKnown
  <1>2. TypeOK /\ IdsKnown /\ [Next]_vars => IdsKnown'
    <2> SUFFICES ASSUME TypeOK, IdsKnown, [Next]_vars PROVE IdsKnown'
      OBVIOUS
    <2>1. CASE Send \/ SendFails
      <3>1. PICK k \in Nat : Written(k)
        BY <2>1, Sent
      <3>2. accepted' = accepted /\ n \in Nat /\ n' = n + k
        BY <2>1, <3>1 DEF Send, SendFails, history, TypeOK, Written
      <3>3. queue \in Seq(QueueEntry) /\ Len(queue) \in Nat
        BY DEF TypeOK, QueueEntry
      <3>4. ASSUME NEW i \in 1 .. Len(queue) PROVE queue'[i].id <= n'
        <4>1. queue[i] \in QueueEntry /\ queue[i].id <= n /\ queue'[i] = queue[i]
          BY <3>1, <3>3 DEF IdsKnown, Written
        <4>2. queue[i].id \in Nat
          BY <4>1 DEF QueueEntry
        <4> QED BY <3>2, <4>1, <4>2
      <3>5. ASSUME NEW i \in 1 .. Len(queue'), i \notin 1 .. Len(queue)
            PROVE  queue'[i].id <= n'
        <4>1. Len(queue') = Len(queue) + k
          BY <3>1 DEF Written
        <4>2. i - Len(queue) \in 1 .. k /\ i = Len(queue) + (i - Len(queue))
          BY <3>1, <3>3, <3>5, <4>1
        <4>3. queue'[i].id = n + (i - Len(queue))
          BY <3>1, <4>2 DEF Written
        <4> QED BY <3>1, <3>2, <4>2, <4>3
      <3>6. accepted' \subseteq 1 .. n'
        BY <3>1, <3>2 DEF IdsKnown
      <3> QED BY <3>4, <3>5, <3>6 DEF IdsKnown
    <2>2. CASE Answer
      <3>1. queue \in Seq(QueueEntry) /\ queue # <<>> /\ queue' = Tail(queue) /\ n' = n
        BY <2>2 DEF Answer, TypeOK, QueueEntry
      <3>2. /\ Head(queue) = queue[1] /\ Len(queue) \in Nat \ {0}
            /\ Len(queue') = Len(queue) - 1
            /\ \A i \in 1 .. Len(queue) - 1 : queue'[i] = queue[i + 1]
        BY <3>1, EmptySeq
      <3>3. Head(queue).id \in 1 .. n
        <4>1. queue[1] \in QueueEntry /\ queue[1].id <= n
          BY <3>1, <3>2 DEF IdsKnown
        <4>2. queue[1].id \in 1 .. MaxCmd
          BY <4>1 DEF QueueEntry
        <4>3. n \in Nat /\ MaxCmd \in Nat
          BY BoundsAssumption DEF TypeOK
        <4> QED BY <3>2, <4>1, <4>2, <4>3
      <3>4. accepted' \subseteq accepted \cup {Head(queue).id}
        BY <2>2 DEF Answer
      <3>5. \A i \in 1 .. Len(queue') : queue'[i].id <= n'
        BY <3>1, <3>2 DEF IdsKnown
      <3> QED BY <3>1, <3>3, <3>4, <3>5 DEF IdsKnown
    <2>3. CASE Reboot
      BY <2>3 DEF Reboot, IdsKnown
    <2>4. CASE UNCHANGED <<n, queue, accepted>>
      BY <2>4 DEF IdsKnown
    <2>5. \/ Send \/ SendFails \/ Answer \/ Reboot \/ UNCHANGED <<n, queue, accepted>>
      BY DEF Next, CallStep, Environment, Begin, BadArguments, Read, ReadFails, Sleep,
             Close, Open, Drop, LinkChange, Announce, Deliver, vars, modem, history
    <2> QED BY <2>1, <2>2, <2>3, <2>4, <2>5
  <1> QED BY <1>1, <1>2, TypeCorrect, PTL DEF Spec

\* A step that the caller does not see, or that belongs to a call out of step.
LEMMA NotSeen ==
    ASSUME \/ UNCHANGED <<pc, op, clean, misled, n, base, accepted, ret>>
           \/ /\ pc # "idle" /\ pc' # "idle"
              /\ UNCHANGED <<op, clean, misled, n, base, accepted, ret>>
           \/ ~InStep /\ ~InStep'
    PROVE  UNCHANGED <<Size, Asked, Answered, Result>>
  <1>1. CASE ~InStep /\ ~InStep'
    BY <1>1 DEF InStepNow, Size, Asked, Answered, Result
  <1>2. CASE /\ (pc' = "idle") <=> (pc = "idle")
             /\ UNCHANGED <<op, clean, misled, n, base, accepted, ret>>
    BY <1>2 DEF InStep, InStepNow, Size, Asked, Answered, Result, Commands
  <1> QED BY <1>1, <1>2

\* A write of a call in step asks the next question, or none.
LEMMA AskStep ==
    ASSUME TypeOK, InCall, IdsKnown, Send, InStep'
    PROVE  Promise!Ask \/ UNCHANGED <<Size, Asked, Answered, Result>>
  <1>0. /\ n \in Nat /\ base \in Nat /\ tries \in Nat /\ Commands(op) \in Nat
    BY BoundsAssumption DEF TypeOK, Commands
  <1>1. /\ InStep /\ pc = "send" /\ pc' = "recv"
        /\ UNCHANGED <<op, base, clean, misled, accepted, ret>>
        /\ n' = n + 1 \/ n' = n
    BY SendInStep
  <1>2. CASE n' = n
    BY <1>1, <1>2, NotSeen
  <1>3. CASE n' = n + 1
    <2>1. /\ n = base + tries /\ tries < Commands(op) /\ base + 1 .. n \subseteq accepted
      BY <1>1 DEF InCall, Quiet
    <2>2. InStepNow /\ InStepNow'
      BY <1>1 DEF InStepNow
    <2>3. Size' = Size /\ Result' = Result
      BY <1>1, <2>2 DEF InStepNow, Size, Result, Commands
    <2>4. Asked = n - base /\ Asked' = Asked + 1 /\ Asked < Size
      BY <1>0, <1>1, <1>3, <2>1, <2>2 DEF Asked, Size
    <2>5. ASSUME NEW c
          PROVE  /\ c \in Answered' <=> c \in 1 .. (n + 1) - base /\ base + c \in accepted
                 /\ c \in Answered <=> c \in 1 .. n - base /\ base + c \in accepted
      <3>1. c \in Answered' <=> c \in 1 .. n' - base' /\ base' + c \in accepted'
        BY <2>2 DEF Answered
      <3>2. c \in Answered <=> c \in 1 .. n - base /\ base + c \in accepted
        BY <2>2 DEF Answered
      <3> QED BY <1>1, <1>3, <3>1, <3>2, Zenon
    <2>6. Answered = 1 .. Asked
      <3>1. \A c \in 1 .. n - base : base + c \in base + 1 .. n
        BY <1>0
      <3> QED BY <2>1, <2>2, <2>4, <3>1 DEF Answered
    <2>7. Answered' = Answered
      <3>1. n + 1 \notin accepted
        BY <1>0 DEF IdsKnown
      <3>2. \A c \in 1 .. (n + 1) - base : c \in 1 .. n - base \/ base + c = n + 1
        BY <1>0
      <3>3. 1 .. n - base \subseteq 1 .. (n + 1) - base
        BY <1>0
      <3>4. \A c : c \in Answered' <=> c \in Answered
        BY <2>5, <3>1, <3>2, <3>3
      <3> QED BY <3>4
    <2> QED BY <2>3, <2>4, <2>6, <2>7 DEF Promise!Ask
  <1> QED BY <1>1, <1>2, <1>3

\* A read of a call in step that finds OK ends the exchange of its last command.
LEMMA SucceedStep ==
    ASSUME TypeOK, InCall, Read, InStep', FoundOk(SubSeq(line, 1, Taken))
    PROVE  Promise!Succeed \/ UNCHANGED <<Size, Asked, Answered, Result>>
  <1>0. /\ n \in Nat /\ base \in Nat /\ tries \in Nat /\ Commands(op) \in Nat
    BY BoundsAssumption DEF TypeOK, Commands
  <1>1. InStep /\ pc = "recv"
    BY StaysOut DEF Read, CallStep
  <1>2. /\ HandleSync(SubSeq(line, 1, Taken))
        /\ FoundOk(SubSeq(line, 1, Taken)) <=> Found(SubSeq(line, 1, Taken), {"ok"})
    BY <1>1, TrueOk DEF Read, InStep
  <1>3. UNCHANGED <<op, n, base, clean, misled, accepted>>
    <2>1. misled' \in BOOLEAN /\ misled \in BOOLEAN
      BY DEF Read, TypeOK
    <2>2. ~misled /\ ~misled'
      BY <1>1 DEF InStep
    <2>3. misled' = misled
      BY <2>1, <2>2, Zenon
    <2> QED BY <2>3 DEF Read, modem
  <1>4. CASE pc' = "send"
    <2>1. ret' = ret
      BY <1>2, <1>4 DEF HandleSync, Return
    <2> QED BY <1>1, <1>3, <1>4, <2>1, NotSeen
  <1>5. CASE pc' # "send"
    <2>1. pc' = "idle" /\ ret' = "ok" /\ ~(op = "init" /\ tries + 1 < InitCount)
      BY <1>2, <1>5 DEF HandleSync, Return
    <2>2. Waits \/ Quiet
      BY <1>1 DEF InCall
    <2>3. Taken \in 0 .. Len(line)
      BY BoundsAssumption DEF Taken, TypeOK
    <2>4. Waits /\ n \in accepted
      BY <1>2, <2>2, <2>3, OwnOk
    <2>5. n = base + tries + 1 /\ tries < Commands(op) /\ base + 1 .. n - 1 \subseteq accepted
      BY <1>1, <2>4 DEF Waits, InCall
    <2>6. n - base = Commands(op)
      BY <1>0, <2>1, <2>5 DEF Commands
    <2>7. \A c \in 1 .. n - base : base + c = n \/ base + c \in base + 1 .. n - 1
      BY <1>0
    <2>8. Size = n - base /\ Answered = 1 .. Size
      BY <1>1, <2>4, <2>5, <2>6, <2>7 DEF InStepNow, Size, Answered
    <2>9. Size > 0
      BY <1>0, <2>5, <2>8
    <2>10. Size' = 0 /\ Asked' = 0 /\ Answered' = {} /\ Result' = "ok"
      BY <2>1 DEF InStepNow, Size, Asked, Answered, Result
    <2> QED BY <2>8, <2>9, <2>10 DEF Promise!Succeed, Promise!Over
  <1> QED BY <1>4, <1>5

\* Every step of the dialogue is a step of Exchange, or none.
LEMMA PromiseStep ==
    TypeOK /\ InCall /\ IdsKnown /\ [Next]_vars => [Promise!Next]_(Promise!vars)
  <1> SUFFICES ASSUME TypeOK, InCall, IdsKnown, [Next]_vars
               PROVE  Promise!Next \/ UNCHANGED <<Size, Asked, Answered, Result>>
    BY DEF Promise!vars
  <1> USE BoundsAssumption
  <1>0. /\ n \in Nat /\ base \in Nat /\ tries \in Nat
        /\ \A o \in AllCalls : Commands(o) \in Nat \ {0}
    BY DEF TypeOK, Commands
  <1>1. ASSUME NEW o \in Calls, Begin(o) PROVE Promise!Next
    <2>1. /\ pc = "idle" /\ pc' = "send" /\ op' = o /\ ret' = "none"
          /\ n' = n /\ base' = n /\ o \in AllCalls
      BY <1>1, CallsAssumption DEF Begin, modem
    <2>2. Size = 0 /\ Result' = "none"
      BY <2>1 DEF InStepNow, Size, Result
    <2>3. Asked' = 0 /\ Answered' = {}
      BY <1>0, <2>1 DEF Asked, Answered
    <2>4. Size' = 0 \/ Size' \in Nat \ {0}
      BY <1>0, <2>1 DEF Size
    <2> QED BY <2>2, <2>3, <2>4
            DEF Promise!Next, Promise!Begin, Promise!Refuse, Promise!Over
  <1>2. ASSUME NEW o \in Calls, BadArguments(o) PROVE Promise!Next
    <2>1. pc = "idle" /\ pc' = "idle" /\ ret' = "raised"
      BY <1>2 DEF BadArguments
    <2>2. Size = 0 /\ Size' = 0 /\ Asked' = 0 /\ Answered' = {}
      BY <2>1 DEF InStepNow, Size, Asked, Answered
    <2>3. Result' \in {"raised", "none"}
      BY <2>1 DEF Result
    <2> QED BY <2>2, <2>3 DEF Promise!Next, Promise!Refuse, Promise!Over
  <1>s. InStepNow => Size \in Nat \ {0}
    BY <1>0 DEF InStepNow, Size, TypeOK
  <1>3. ASSUME InStepNow, InStep', pc' = "idle", ret' \in {"failed", "raised"}
        PROVE  Promise!Next
    <2>1. Size' = 0 /\ Asked' = 0 /\ Answered' = {} /\ Result' \in {"failed", "raised"}
      BY <1>3 DEF InStepNow, Size, Asked, Answered, Result
    <2> QED BY <1>3, <1>s, <2>1 DEF Promise!Next, Promise!Fail, Promise!Over
  <1>f. ASSUME InStepNow, ~InStep' PROVE Promise!Next
    <2>1. Size' = 0 /\ Asked' = 0 /\ Answered' = {} /\ Result' = "none"
      BY <1>f DEF InStepNow, Size, Asked, Answered, Result
    <2> QED BY <1>f, <1>s, <2>1 DEF Promise!Next, Promise!Forfeit, Promise!Over
  <1>4. CASE CallStep /\ ~InStep
    BY <1>4, StaysOut, NotSeen
  <1>5. CASE CallStep /\ InStep /\ ~InStep'
    <2>1. pc # "idle"
      BY <1>5 DEF CallStep, Send, SendFails, Read, ReadFails, Sleep
    <2> QED BY <1>5, <1>f, <2>1 DEF InStepNow
  <1>6. CASE CallStep /\ InStep /\ InStep'
    <2>1. CASE Send
      BY <1>6, <2>1, AskStep DEF Promise!Next
    <2>2. CASE SendFails
      <3>1. pc = "send" /\ pc' = "idle" /\ ret' \in {"failed", "raised"}
        BY <2>2 DEF SendFails, Return, SendError
      <3> QED BY <1>3, <1>6, <3>1 DEF InStepNow
    <2>3. CASE Read /\ FoundOk(SubSeq(line, 1, Taken))
      BY <1>6, <2>3, SucceedStep DEF Promise!Next
    <2>4. CASE Read /\ ~FoundOk(SubSeq(line, 1, Taken))
      <3>1. pc = "recv" /\ HandleSync(SubSeq(line, 1, Taken))
        BY <1>6, <2>4, TrueOk DEF Read, InStep
      <3>2. pc' = "idle" /\ ret' = "failed"
        BY <2>4, <3>1 DEF HandleSync, Return
      <3> QED BY <1>3, <1>6, <3>1, <3>2 DEF InStepNow
    <2>5. CASE ReadFails
      <3>1. ~FoundOk(<<>>)
        BY DEF FoundOk, Found
      <3>2. pc = "recv" /\ HandleSync(<<>>)
        BY <1>6, <2>5 DEF ReadFails, Handle, HandlePoll, InStep, SyncCalls, PollCalls
      <3>3. pc' = "idle" /\ ret' = "failed"
        BY <3>1, <3>2 DEF HandleSync, Return
      <3> QED BY <1>3, <1>6, <3>2, <3>3 DEF InStepNow
    <2>6. CASE Sleep
      BY <1>6, <2>6 DEF Sleep, InCall
    <2> QED BY <1>6, <2>1, <2>2, <2>3, <2>4, <2>5, <2>6 DEF CallStep
  <1>7. CASE Answer /\ InStepNow
    <2>1. /\ queue \in Seq(QueueEntry) /\ queue # <<>>
          /\ UNCHANGED <<pc, op, ret, n, base, clean, misled, tries>>
      BY <1>7 DEF Answer, caller, TypeOK, QueueEntry
    <2>2. accepted' = accepted \/ accepted' = accepted \cup {Head(queue).id}
      BY <1>7 DEF Answer
    <2>3. pc = "recv" /\ ~Quiet
      BY <1>7, <2>1 DEF InStepNow, InCall, Quiet, TypeOK
    <2>4. /\ n = base + tries + 1 /\ Len(queue) = 1 /\ queue[1].id = n
      BY <1>7, <2>1, <2>3 DEF InStepNow, InCall, Waits
    <2>5. Head(queue).id = n
      BY <2>1, <2>4
    <2>6. UNCHANGED <<Size, Asked, Result>>
      BY <2>1 DEF InStep, InStepNow, Size, Asked, Result, Commands
    <2>7. Asked = n - base /\ Asked \in 1 .. n - base /\ base + Asked = n
      BY <1>0, <1>7, <2>4 DEF Asked
    <2>8. \A c \in 1 .. n - base : base + c = n <=> c = Asked
      BY <1>0, <2>7
    <2>9. InStepNow'
      BY <1>7, <2>1 DEF InStep, InStepNow, Commands
    <2>10. Answered' = Answered \/ Answered' = Answered \cup {Asked}
      BY <1>7, <2>1, <2>2, <2>5, <2>7, <2>8, <2>9 DEF Answered
    <2>11. Asked > 0
      BY <1>0, <2>4, <2>7
    <2> QED BY <2>6, <2>10, <2>11 DEF Promise!Next, Promise!Answer
  <1>8. CASE Answer /\ ~InStepNow
    <2>1. UNCHANGED <<pc, op, ret, n, base, clean, misled>>
      BY <1>8 DEF Answer, caller
    <2>2. ~InStepNow' /\ (InStep' <=> InStep)
      BY <1>8, <2>1 DEF InStepNow, InStep, Commands
    <2> QED BY <1>8, <2>1, <2>2 DEF Size, Asked, Answered, Result
  <1>9. CASE \/ Close \/ Open \/ Drop \/ LinkChange \/ Announce \/ Deliver \/ Reboot
             \/ UNCHANGED vars
    <2>1. UNCHANGED <<pc, op, clean, misled, n, base, accepted, ret>>
      BY <1>9 DEF Close, Open, Drop, LinkChange, Announce, Deliver, Reboot, vars, caller,
                  modem, history
    <2> QED BY <2>1, NotSeen
  <1> QED BY <1>1, <1>2, <1>4, <1>5, <1>6, <1>7, <1>8, <1>9 DEF Next, Environment

\* A synchronous call that begins with nothing outstanding exchanges commands and
\* answers in lock step, until it writes more than one command line at a time or takes
\* a text with an OK in it for the answer, if it does: Me909s implements Exchange.
THEOREM ExchangeImplemented == Spec => ImplementsExchange
  <1>1. Init => Promise!Init
    BY DEF Init, Promise!Init, InStep, InStepNow, Size, Asked, Answered, Result
  <1>2. Init => ExchangeInv
    BY DEF Init, ExchangeInv, InCall, InSync
  <1>3. TypeOK /\ ExchangeInv /\ [Next]_vars => ExchangeInv'
    BY ExchangeStep
  <1>4. TypeOK /\ ExchangeInv /\ IdsKnown /\ [Next]_vars
           => [Promise!Next]_(Promise!vars)
    BY PromiseStep DEF ExchangeInv
  <1> QED BY <1>1, <1>2, <1>3, <1>4, TypeCorrect, IdsKnownCorrect, PTL
          DEF Spec, ImplementsExchange, Promise!Spec

-----------------------------------------------------------------------------
(* StateReport *)

KnownOn(k) == \A d \in 0 .. 1 : Reports(line[k], op, d) => d \in seen \cup unread

\* A state that a polling function returns is one that a report it read carries,
\* and reports are known.
LEMMA ReportRead ==
    ASSUME TypeOK, ReportsKnown, pc = "recv", op \in PollCalls,
           NEW m \in 0 .. Len(line), NEW d \in Reported(SubSeq(line, 1, m))
    PROVE  d \in 0 .. 1 /\ d \in seen \cup unread
  <1> DEFINE buf == SubSeq(line, 1, m)
  <1>1. /\ Len(line) \in Nat /\ Len(buf) = m
        /\ \A i \in 1 .. m : buf[i] = line[i]
    BY ReadParts DEF TypeOK
  <1>2. d \in 0 .. 1 /\ \E k \in 1 .. Len(buf) : Reports(buf[k], op, d)
    <2> HIDE DEF buf
    <2>1. d \in Wanted(op) /\ IF op = "status" THEN FirstQry(buf, d) ELSE FoundStat(buf, d)
      BY DEF buf, Reported
    <2>2. op = "status" \/ op \in {"online", "offline"}
      BY DEF PollCalls
    <2>3. d \in 0 .. 1
      BY <2>1, <2>2 DEF Wanted
    <2>4. \E k \in 1 .. Len(buf) : Reports(buf[k], op, d)
      BY <2>1, <2>2 DEF FirstQry, FoundStat, Reports
    <2> QED BY <2>3, <2>4
  <1>3. PICK k \in 1 .. Len(line) : Reports(line[k], op, d)
    BY <1>1, <1>2
  <1>4. KnownOn(k)
    BY DEF ReportsKnown, KnownOn
  <1> QED BY <1>2, <1>3, <1>4 DEF KnownOn

\* What a step of the line's environment does to ReportsKnown: every cell of the
\* line is an old one or carries the link's new or present state.
LEMMA StillKnown ==
    ASSUME TypeOK, ReportsKnown, pc' = pc, op' = op, unread' = unread,
           seen \subseteq seen', pc # "idle" => link' \in seen',
           \A k \in 1 .. Len(line') :
              \/ \E j \in 1 .. Len(line) : line'[k] = line[j]
              \/ line'[k].kind \in {"qry", "stat"} => line'[k].digit \in {link, link'}
    PROVE  ReportsKnown'
  <1> SUFFICES ASSUME pc # "idle", NEW k \in 1 .. Len(line') PROVE KnownOn(k)'
    BY DEF ReportsKnown, KnownOn
  <1>1. CASE \E j \in 1 .. Len(line) : line'[k] = line[j]
    <2>1. PICK j \in 1 .. Len(line) : line'[k] = line[j]
      BY <1>1
    <2>2. KnownOn(j)
      BY DEF ReportsKnown, KnownOn
    <2> QED BY <2>1, <2>2 DEF KnownOn, Reports
  <1>2. CASE line'[k].kind \in {"qry", "stat"} => line'[k].digit \in {link, link'}
    <2>1. link \in seen' /\ link' \in seen'
      BY DEF ReportsKnown
    <2> QED BY <1>2, <2>1 DEF KnownOn, Reports
  <1> QED BY <1>1, <1>2

\* What a polling function returns on a read that does not mislead it.
LEMMA ReadReport ==
    ASSUME TypeOK, ReportsKnown, pc = "recv", NEW m \in 0 .. Len(line),
           Handle(SubSeq(line, 1, m)), UNCHANGED <<op, seen, unread>>,
           misled' \/ ~Misleads(SubSeq(line, 1, m)) \/ pc' = "sleep"
    PROVE  StateReport'
  <1>1. CASE op \in PollCalls /\ pc' = "idle" /\ ~misled'
    <2>1. \E d \in Reported(SubSeq(line, 1, m)) : ret' = Word(d)
      BY <1>1 DEF Handle, HandleSync, HandlePoll, Return, SyncCalls, PollCalls
    <2>2. PICK d \in Reported(SubSeq(line, 1, m)) : ret' = Word(d)
      BY <2>1
    <2>3. d \in 0 .. 1 /\ d \in seen \cup unread
      BY <1>1, <2>2, ReportRead
    <2>4. \A e \in 0 .. 1 : ret' = Word(e) => e = d
      BY <2>2, <2>3 DEF Word
    <2> QED BY <2>3, <2>4 DEF StateReport
  <1>2. CASE ~(op \in PollCalls /\ pc' = "idle" /\ ~misled')
    BY <1>2 DEF StateReport
  <1> QED BY <1>1, <1>2

\* Every step keeps each report on the line accounted for.
LEMMA ReportStep == TypeOK /\ ReportInv /\ [Next]_vars => ReportInv'
  <1> SUFFICES ASSUME TypeOK, ReportsKnown, StateReport, [Next]_vars
               PROVE  ReportsKnown' /\ StateReport'
    BY DEF ReportInv
  <1>1. ASSUME NEW o \in Calls, Begin(o) PROVE ReportsKnown' /\ StateReport'
    <2>1. /\ pc' = "send" /\ op' = o /\ line' = line /\ link' = link /\ seen' = {link}
          /\ unread' = {d \in 0 .. 1 : \E k \in 1 .. Len(line) : Reports(line[k], o, d)}
      BY <1>1 DEF Begin, modem
    <2>2. StateReport'
      BY <2>1 DEF StateReport
    <2>3. ASSUME NEW k \in 1 .. Len(line'), NEW d \in 0 .. 1, Reports(line'[k], op', d)
          PROVE  d \in unread'
      BY <2>1, <2>3
    <2>4. ReportsKnown'
      BY <2>1, <2>3 DEF ReportsKnown, Reports
    <2> QED BY <2>2, <2>4
  <1>2. ASSUME NEW o \in Calls, BadArguments(o) PROVE ReportsKnown' /\ StateReport'
    <2>1. pc' = "idle" /\ op' \notin PollCalls
      BY <1>2 DEF BadArguments, PollCalls
    <2> QED BY <2>1 DEF ReportsKnown, StateReport
  <1>3. CASE Send \/ SendFails
    <2>1. /\ pc = "send" /\ line' = line /\ link' = link /\ seen' = seen
          /\ unread' = unread /\ op' = op
      BY <1>3 DEF Send, SendFails, history
    <2>2. ReportsKnown'
      BY <2>1 DEF ReportsKnown, Reports
    <2>3. pc' = "idle" /\ op \in PollCalls => ret' = "failed"
      BY <1>3 DEF Send, SendFails, Return, SendError, PollCalls, AsyncCalls
    <2> QED BY <2>1, <2>2, <2>3 DEF StateReport, Word
  <1>5. CASE Read
    <2>1. /\ pc = "recv" /\ Handle(SubSeq(line, 1, Taken))
          /\ UNCHANGED <<op, seen, unread, link>>
          /\ line' = SubSeq(line, Taken + 1, Len(line))
          /\ misled' = (misled \/ (Misleads(SubSeq(line, 1, Taken)) /\ pc' # "sleep"))
      BY <1>5 DEF Read, modem, history
    <2>2. Taken \in 0 .. Len(line)
      BY BoundsAssumption DEF Taken, TypeOK
    <2>3. /\ Len(line') = Len(line) - Taken
          /\ \A i \in 1 .. Len(line) - Taken : line'[i] = line[i + Taken]
      BY <2>1, <2>2, ReadParts
    <2>4. \A k \in 1 .. Len(line') : k + Taken \in 1 .. Len(line)
      BY <2>2, <2>3 DEF TypeOK
    <2>5. ReportsKnown'
      <3> SUFFICES ASSUME NEW k \in 1 .. Len(line') PROVE KnownOn(k)'
        BY <2>1 DEF ReportsKnown, KnownOn
      <3>1. KnownOn(k + Taken)
        BY <2>1, <2>4 DEF ReportsKnown, KnownOn
      <3> QED BY <2>1, <2>3, <3>1 DEF KnownOn, Reports
    <2>6. misled' \/ ~Misleads(SubSeq(line, 1, Taken)) \/ pc' = "sleep"
      BY <2>1
    <2>7. StateReport'
      BY <2>1, <2>2, <2>6, ReadReport
    <2> QED BY <2>5, <2>7
  <1>6. CASE ReadFails
    <2>1. /\ pc = "recv" /\ Handle(<<>>) /\ UNCHANGED <<op, seen, unread, link, line>>
      BY <1>6 DEF ReadFails, modem, history
    <2>2. SubSeq(line, 1, 0) = <<>> /\ 0 \in 0 .. Len(line)
      BY SubSeqEmpty DEF TypeOK
    <2>3. ~Misleads(<<>>)
      BY BoundsAssumption DEF Misleads, Found, DigitBehind
    <2>4. StateReport'
      BY <2>1, <2>2, <2>3, ReadReport
    <2> QED BY <2>1, <2>4 DEF ReportsKnown, Reports
  <1>7. CASE Sleep
    <2>1. /\ pc = "sleep" /\ UNCHANGED <<op, line, link, seen, unread>>
          /\ pc' = "idle" => ret' = "failed"
      BY <1>7 DEF Sleep, Return, modem, history
    <2> QED BY <2>1 DEF ReportsKnown, StateReport, Word, Reports
  <1>8. CASE Close \/ Open
    BY <1>8 DEF Close, Open, ReportsKnown, StateReport, caller, history
  <1>9. CASE Environment
    <2>1. /\ UNCHANGED <<pc, op, ret, misled, unread>> /\ seen \subseteq seen'
          /\ pc # "idle" => link' \in seen'
      BY <1>9 DEF Environment, Answer, LinkChange, Announce, Deliver, Drop, Reboot, caller,
                  modem, history, ReportsKnown
    <2>2. \A k \in 1 .. Len(line') :
             \/ \E j \in 1 .. Len(line) : line'[k] = line[j]
             \/ line'[k].kind \in {"qry", "stat"} => line'[k].digit \in {link, link'}
      <3>1. CASE Answer
        <4>1. queue \in Seq(QueueEntry) /\ queue # <<>>
          BY <3>1 DEF Answer, TypeOK, QueueEntry
        <4>2. PICK a \in Answers(Head(queue)) : line' = line \o a
          BY <3>1 DEF Answer
        <4>3. AnswerShape(a)
          BY <4>1, AnswersShape, HeadTailProperties DEF TypeOK
        <4>4. /\ Len(line) \in Nat /\ Len(a) \in Nat /\ Len(line') = Len(line) + Len(a)
              /\ \A i \in 1 .. Len(line) : line'[i] = line[i]
              /\ \A i \in 1 .. Len(a) : line'[Len(line) + i] = a[i]
          <5>1. Len(line) \in Nat /\ a \in Seq(Cell) /\ Len(a) \in Nat
            BY <4>3 DEF AnswerShape, TypeOK
          <5>2. /\ Len(line \o a) = Len(line) + Len(a)
                /\ \A i \in 1 .. Len(line) : (line \o a)[i] = line[i]
                /\ \A i \in 1 .. Len(a) : (line \o a)[Len(line) + i] = a[i]
            BY <5>1, LineAppend
          <5> QED BY <4>2, <5>1, <5>2
        <4>5. ASSUME NEW k \in 1 .. Len(line'), k \notin 1 .. Len(line)
              PROVE  line'[k].kind \in {"qry", "stat"} => line'[k].digit = link
          <5>1. k - Len(line) \in 1 .. Len(a) /\ k = Len(line) + (k - Len(line))
            BY <4>4, <4>5
          <5>2. \A i \in 1 .. Len(a) :
                   a[i].kind \in {"qry", "stat"} => a[i].digit = link
            BY <4>3 DEF AnswerShape
          <5>3. line'[k] = a[k - Len(line)]
            BY <4>4, <5>1
          <5> QED BY <5>1, <5>2, <5>3
        <4> QED BY <4>4, <4>5
      <3>2. CASE LinkChange
        <4>1. /\ line' = line \o Message("stat", 0, 1 - link) /\ link' = 1 - link
              /\ 1 - link \in 0 .. 1
          BY <3>2 DEF LinkChange, TypeOK
        <4> QED BY <4>1, ReportAppended
      <3>5. CASE Announce
        <4>1. line' = line \o Message("word", 0, 0) /\ 0 \in 0 .. 1
          BY <3>5 DEF Announce
        <4>2. \A k \in 1 .. Len(line') :
                 \/ k \in 1 .. Len(line) /\ line'[k] = line[k]
                 \/ line'[k].kind = "word"
          BY <4>1, ReportAppended
        <4> QED BY <4>2
      <3>3. CASE Deliver \/ Reboot
        BY <3>3 DEF Deliver, Reboot
      <3>4. CASE Drop
        <4>1. PICK m \in 0 .. Len(line) :
                 /\ Len(line') = Len(line) - m
                 /\ \A i \in 1 .. Len(line) - m : line'[i] = line[i + m]
          BY <3>4, LineShortened
        <4>2. \A k \in 1 .. Len(line') : k + m \in 1 .. Len(line)
          BY <4>1 DEF TypeOK
        <4> QED BY <4>1, <4>2
      <3> QED BY <1>9, <3>1, <3>2, <3>3, <3>4, <3>5 DEF Environment
    <2>3. ReportsKnown'
      BY <2>1, <2>2, StillKnown
    <2>4. StateReport'
      BY <2>1 DEF StateReport
    <2> QED BY <2>3, <2>4
  <1>10. CASE UNCHANGED vars
    BY <1>10 DEF vars, ReportsKnown, StateReport, caller, modem, history
  <1> QED BY <1>1, <1>2, <1>3, <1>5, <1>6, <1>7, <1>8, <1>9, <1>10
          DEF Next, CallStep

\* A link state returned by status, online or offline was seen during the call, or a
\* report of it lay unread when the call began, unless the call took another text for
\* the report, or a byte behind a full buffer for its digit.
THEOREM StateReportCorrect == Spec => []StateReport
  <1>1. Init => ReportInv
    BY DEF Init, ReportInv, ReportsKnown, StateReport, PollCalls
  <1>2. TypeOK /\ ReportInv /\ [Next]_vars => ReportInv'
    BY ReportStep
  <1>3. ReportInv => StateReport
    BY DEF ReportInv
  <1> QED BY <1>1, <1>2, <1>3, TypeCorrect, PTL DEF Spec

-----------------------------------------------------------------------------
(* The length of a call *)

\* The loops are within their turns, and each kind of function stays in its own part
\* of the code: those of AsyncCalls do not wait, only those of PollCalls sleep.
TurnsInv ==
    pc # "idle" =>
       \/ op \in AsyncCalls /\ pc = "send"
       \/ op \in SyncCalls /\ pc \in {"send", "recv"} /\ tries < Commands(op)
       \/ op \in PollCalls /\ tries < 3 /\ (pc = "send" => tries = 0)

\* A function that has read goes on within its turns, one step nearer to its end.
LEMMA ReadTurn ==
    ASSUME TypeOK, TurnsInv, pc = "recv", NEW buf, Handle(buf), op' = op
    PROVE  TurnsInv' /\ StepsLeft' \in 0 .. StepsLeft - 1
  <1>1. tries \in Nat /\ InitCount \in Nat \ {0} /\ Commands(op) \in Nat
    BY BoundsAssumption DEF TypeOK, Commands
  <1>2. CASE op \in SyncCalls
    <2>1. op \notin PollCalls /\ tries < Commands(op)
      BY <1>2 DEF TurnsInv, SyncCalls, PollCalls, AsyncCalls
    <2>2. StepsLeft = 2 * (Commands(op) - tries) - 1
      BY <2>1 DEF StepsLeft
    <2>3. \/ pc' = "idle" /\ tries' = tries
          \/ pc' = "send" /\ tries' = tries + 1 /\ tries + 1 < Commands(op)
      BY <2>1 DEF Handle, HandleSync, HandlePoll, Return, Commands
    <2>4. CASE pc' = "idle"
      BY <1>1, <2>1, <2>2, <2>4 DEF TurnsInv, StepsLeft
    <2>5. CASE pc' = "send" /\ tries' = tries + 1 /\ tries + 1 < Commands(op)
      <3>1. Commands(op)' = Commands(op)
        BY DEF Commands
      <3>2. TurnsInv'
        BY <1>2, <2>5, <3>1 DEF TurnsInv
      <3>3. StepsLeft' = 2 * (Commands(op) - (tries + 1))
        BY <1>2, <2>1, <2>5, <3>1 DEF StepsLeft
      <3> QED BY <1>1, <2>2, <2>5, <3>2, <3>3
    <2> QED BY <2>3, <2>4, <2>5
  <1>3. CASE op \in PollCalls
    <2>1. op \notin SyncCalls /\ tries < 3
      BY <1>3 DEF TurnsInv, SyncCalls, PollCalls, AsyncCalls
    <2>2. tries' = tries /\ pc' \in {"idle", "sleep"}
      BY <2>1 DEF Handle, HandleSync, HandlePoll, Return
    <2> QED BY <1>1, <1>3, <2>1, <2>2 DEF TurnsInv, StepsLeft
  <1> QED BY <1>2, <1>3 DEF TurnsInv

\* What the running function does next keeps it within its turns, and takes it one
\* step nearer to its end.
LEMMA CallTurn ==
    ASSUME TypeOK, TurnsInv, CallStep
    PROVE  TurnsInv' /\ StepsLeft' \in 0 .. StepsLeft - 1
  <1>1. tries \in Nat /\ InitCount \in Nat \ {0} /\ Commands(op) \in Nat
    BY BoundsAssumption DEF TypeOK, Commands
  <1>2. CASE Send
    <2>1. pc = "send" /\ op' = op /\ tries' = tries
          /\ pc' = IF op \in AsyncCalls THEN "idle" ELSE "recv"
      BY <1>2 DEF Send, Return
    <2>2. Commands(op)' = Commands(op)
      BY <2>1 DEF Commands
    <2>3. CASE op \in AsyncCalls
      BY <2>1, <2>3 DEF TurnsInv, StepsLeft, AsyncCalls, SyncCalls, PollCalls
    <2>4. CASE op \in SyncCalls /\ tries < Commands(op)
      <3>1. op \notin PollCalls /\ op \notin AsyncCalls
        BY <2>4 DEF AsyncCalls, SyncCalls, PollCalls
      <3>2. StepsLeft = 2 * (Commands(op) - tries)
            /\ StepsLeft' = 2 * (Commands(op) - tries) - 1
        BY <2>1, <2>2, <2>4, <3>1 DEF StepsLeft
      <3> QED BY <1>1, <2>1, <2>2, <2>4, <3>1, <3>2 DEF TurnsInv
    <2>5. CASE op \in PollCalls /\ tries = 0
      <3>1. op \notin AsyncCalls
        BY <2>5 DEF AsyncCalls, PollCalls
      <3> QED BY <2>1, <2>5, <3>1 DEF TurnsInv, StepsLeft
    <2> QED BY <2>1, <2>3, <2>4, <2>5 DEF TurnsInv
  <1>3. CASE SendFails
    <2>1. pc = "send" /\ pc' = "idle"
      BY <1>3 DEF SendFails, Return
    <2> QED BY <1>1, <2>1 DEF TurnsInv, StepsLeft, AsyncCalls, SyncCalls, PollCalls
  <1>4. CASE Read \/ ReadFails
    <2>1. pc = "recv" /\ op' = op /\ \E buf : Handle(buf)
      BY <1>4 DEF Read, ReadFails
    <2> QED BY <2>1, ReadTurn
  <1>5. CASE Sleep
    <2>1. op \in PollCalls /\ tries < 3 /\ pc = "sleep"
      BY <1>5 DEF Sleep, TurnsInv
    <2>2. op' = op /\ tries' = tries + 1
          /\ pc' = IF tries + 1 < 3 THEN "recv" ELSE "idle"
      BY <1>5 DEF Sleep, Return
    <2> QED BY <1>1, <2>1, <2>2 DEF TurnsInv, StepsLeft
  <1> QED BY <1>2, <1>3, <1>4, <1>5 DEF CallStep

\* The modem and the line leave the function where it is.
LEMMA OtherTurn ==
    ASSUME TypeOK, TurnsInv, [Next]_vars, ~CallStep
    PROVE  TurnsInv' /\ (pc # "idle" => StepsLeft' = StepsLeft)
  <1>1. ASSUME NEW o \in Calls, Begin(o) PROVE TurnsInv' /\ pc = "idle"
    <2>1. pc = "idle" /\ pc' = "send" /\ op' = o /\ tries' = 0
      BY <1>1 DEF Begin
    <2>2. o \in AsyncCalls \cup SyncCalls \cup PollCalls
      BY CallsAssumption DEF AllCalls
    <2>3. Commands(o) > 0
      BY BoundsAssumption DEF Commands
    <2>4. Commands(op)' = Commands(o)
      BY <2>1 DEF Commands
    <2> QED BY <2>1, <2>2, <2>3, <2>4 DEF TurnsInv
  <1>2. ASSUME NEW o \in Calls, BadArguments(o) PROVE TurnsInv' /\ pc = "idle"
    BY <1>2 DEF BadArguments, TurnsInv
  <1>3. CASE Close \/ Open \/ Environment \/ UNCHANGED vars
    <2>1. UNCHANGED <<pc, op, tries>>
      BY <1>3 DEF Close, Open, Environment, Answer, LinkChange, Announce,
                  Deliver, Drop, Reboot, vars, caller
    <2> QED BY <2>1 DEF TurnsInv, StepsLeft, Commands
  <1> QED BY <1>1, <1>2, <1>3 DEF Next

\* For any number of init's commands and whatever the modem sends or fails to send, a
\* call uses up its writes, waits and sleeps one by one.
THEOREM BoundedWaitCorrect == Spec => BoundedWait
  <1>1. Init => TurnsInv
    BY DEF Init, TurnsInv
  <1>2. TypeOK /\ TurnsInv /\ [Next]_vars => TurnsInv'
    BY CallTurn, OtherTurn
  <1>3. TypeOK /\ TurnsInv /\ [Next]_vars
           => [/\ CallStep => StepsLeft' \in 0 .. StepsLeft - 1
               /\ pc # "idle" /\ ~CallStep => StepsLeft' = StepsLeft]_vars
    BY CallTurn, OtherTurn
  <1> QED BY <1>1, <1>2, <1>3, TypeCorrect, PTL DEF Spec, BoundedWait
==============================================================================

------------------------------- MODULE LteProofs -------------------------------
(***************************************************************************)
(* Proofs about Lte: run over the terminal that the handles provide, the   *)
(* dialogue is the one of Me909s, and the handles are those of LteHandle,  *)
(* so that what is proved of each holds of the module as a whole.          *)
(***************************************************************************)
EXTENDS Lte, SequenceTheorems, TLAPS

\* The two halves, with what is proved about them: the formulas below without Dialogue!
\* or Serial! in front are the same ones.
INSTANCE Me909sProofs WITH tty <- Tty
INSTANCE LteHandleProofs WITH line <- termios

-----------------------------------------------------------------------------
(* The handles *)

\* LteHandle's assumptions on its constants.
LEMMA HandleAssumptions ==
    /\ NULL \notin Handles
    /\ Configs \subseteq [named : BOOLEAN, baud : Nat, parity : STRING,
                          data_bit : Int, stop_bit : Int]
  BY LteAssumption

\* The formulas about the handles under both names.
LEMMA SameHandles ==
    /\ Serial!HandleInit <=> HandleInit
    /\ Serial!HandleNext <=> HandleNext
    /\ Serial!HandleTypeOK <=> HandleTypeOK
  <1>1. Serial!HandleInit <=> HandleInit
    BY DEF Serial!HandleInit, HandleInit
  <1>2. Serial!LineSettings = LineSettings /\ (Serial!LineSettings)' = LineSettings'
    BY DEF Serial!LineSettings, Serial!LineOf, Serial!Speed, Serial!CharSize,
           Serial!StopBits, Serial!Byte, Serial!PosixBauds,
           LineSettings, LineOf, Speed, CharSize, StopBits, Byte, PosixBauds
  <1>3. Serial!HandleTypeOK <=> HandleTypeOK
    BY <1>2 DEF Serial!HandleTypeOK, HandleTypeOK
  <1>4. \A c : /\ Serial!GoodArgs(c) <=> GoodArgs(c)
               /\ Serial!GoodParity(c) <=> GoodParity(c)
               /\ Serial!LineOf(c) = LineOf(c) /\ Serial!Saved(c) = Saved(c)
    BY DEF Serial!GoodArgs, Serial!GoodParity, Serial!LineOf, Serial!Saved, Serial!Speed,
           Serial!CharSize, Serial!StopBits, Serial!Byte, Serial!PosixBauds,
           GoodArgs, GoodParity, LineOf, Saved, Speed, CharSize, StopBits, Byte, PosixBauds
  <1>5. (Serial!Running <=> Running) /\ (Serial!Dangling <=> Dangling)
    BY DEF Serial!Running, Running, Serial!Dangling, Dangling
  <1>6. \A c : Serial!NewLteRefused(c) <=> NewLteRefused(c)
    BY <1>4, <1>5 DEF Serial!NewLteRefused, NewLteRefused
  <1>7. \A c, h : /\ Serial!NewLteAbsent(c, h) <=> NewLteAbsent(c, h)
                  /\ Serial!NewLteBadParity(c, h) <=> NewLteBadParity(c, h)
                  /\ Serial!NewLteOpenFails(c, h) <=> NewLteOpenFails(c, h)
    BY <1>4, <1>5 DEF Serial!NewLteAbsent, Serial!NewLteBadParity, Serial!NewLteOpenFails,
                      NewLteAbsent, NewLteBadParity, NewLteOpenFails
  <1>8. \A c, h : /\ Serial!NewLteSetupFails(c, h) <=> NewLteSetupFails(c, h)
                  /\ Serial!NewLte(c, h) <=> NewLte(c, h)
    BY <1>4, <1>5 DEF Serial!NewLteSetupFails, Serial!NewLte, NewLteSetupFails, NewLte
  <1>9. Serial!CloseAndFree <=> CloseAndFree
    BY DEF Serial!CloseAndFree, Serial!Dangling, CloseAndFree, Dangling
  <1>10. /\ Serial!DelLte <=> DelLte
         /\ Serial!Exit <=> Exit
         /\ Serial!UseDangling <=> UseDangling
    BY <1>5, <1>9 DEF Serial!DelLte, Serial!Exit, Serial!UseDangling, DelLte, Exit,
                      UseDangling
  <1>11. Serial!HandleNext <=> HandleNext
    BY <1>6, <1>7, <1>8, <1>10 DEF Serial!HandleNext, HandleNext
  <1> QED BY <1>1, <1>3, <1>11

\* The module's handles are a behaviour of LteHandle: a call leaves them alone.
LEMMA ModuleHandles == LteSpec => HandleSpec
  <1>1. LteInit => HandleInit
    BY SameHandles DEF LteInit
  <1>2. [LteNext]_lteVars => [HandleNext]_handleVars
    BY SameHandles DEF LteNext, Manage, Call, Proceed, Outside, lteVars, handle, handleVars
  <1> QED BY <1>1, <1>2, PTL DEF LteSpec, HandleSpec

\* HandleInv holds of them, and so a handle that is connected has its descriptor in the
\* list.
LEMMA ModuleHandleInv == LteSpec => []HandleInv
  BY ModuleHandles, HandleInvariant, HandleAssumptions, PTL

LEMMA DescriptorListed ==
    ASSUME HandleInv
    PROVE  /\ live \subseteq Handles /\ s \in [Handles -> BOOLEAN] /\ opened \in Seq(Handles)
           /\ Connected => opened # <<>>
  BY DEF HandleInv, HandleTypeOK, StackInv, NoOrphanDescriptor, Connected

-----------------------------------------------------------------------------
(* What one call of new_lte or del_lte does to the terminal *)

\* The descriptors that are left, and whether ctx can use one.
Loses      == opened' = opened /\ ~Connected'
Keeps      == UNCHANGED <<ctx, live, s, opened>>
Connects   == Connected' /\ opened' # <<>> /\ opened' \in Seq(Handles)
Releases   == Connected /\ ~Connected' /\ opened' \in Seq(Handles)

\* What a call of new_lte or del_lte can do to the terminal: nothing, lose the
\* device, open it, or close it.
LEMMA HandleEffect ==
    ASSUME HandleInv, HandleNext
    PROVE  Loses \/ Keeps \/ Connects \/ Releases
  <1>0. /\ NULL \notin Handles /\ NULL \notin live
        /\ live \subseteq Handles /\ s \in [Handles -> BOOLEAN] /\ opened \in Seq(Handles)
        /\ Connected => opened # <<>>
    BY LteAssumption, DescriptorListed
  <1> USE <1>0
  <1>1. ASSUME NEW c \in Configs, NewLteRefused(c)
        PROVE  live' = live /\ s' = s /\ opened' = opened /\ ctx' \notin live'
    BY <1>1 DEF NewLteRefused
  <1>2. ASSUME NEW c \in Configs, NEW h \in Handles, NewLteAbsent(c, h)
        PROVE  /\ live' \subseteq Handles /\ opened' = opened /\ ctx' \notin live'
               /\ s' = [s EXCEPT ![h] = FALSE]
    BY <1>2 DEF NewLteAbsent
  <1>3. ASSUME NEW c \in Configs, NEW h \in Handles, NewLteBadParity(c, h)
        PROVE  live' = live /\ s' = s /\ opened' = opened /\ ctx' \notin live'
    BY <1>3 DEF NewLteBadParity
  <1>4. ASSUME NEW c \in Configs, NEW h \in Handles,
               NewLteOpenFails(c, h) \/ NewLteSetupFails(c, h)
        PROVE  /\ live' = live /\ opened' = opened /\ ctx' \notin live'
               /\ s' = [s EXCEPT ![h] = FALSE]
    BY <1>4 DEF NewLteOpenFails, NewLteSetupFails
  <1>5. ASSUME NEW c \in Configs, NEW h \in Handles, NewLte(c, h)
        PROVE  /\ live' \subseteq Handles /\ ctx' = h /\ h \in live'
               /\ s' = [s EXCEPT ![h] = TRUE]
               /\ opened' # <<>> /\ opened' \in Seq(Handles)
    BY <1>5 DEF NewLte
  <1>6. ASSUME CloseAndFree
        PROVE  /\ live' \subseteq Handles /\ ctx' \notin live'
               /\ \/ opened' = opened /\ s' = s
                  \/ /\ Connected
                     /\ s' = [s EXCEPT ![ctx] = FALSE]
                     /\ opened' \in Seq(Handles)
    <2>1. live' = live \ {ctx} /\ ctx' = ctx
      BY <1>6 DEF CloseAndFree
    <2>2. CASE Connected
      <3>1. PICK k \in 1 .. Len(opened) :
               opened' = SubSeq(opened, 1, k - 1) \o SubSeq(opened, k + 1, Len(opened))
        BY <1>6, <2>2 DEF CloseAndFree, Connected
      <3>2. SubSeq(opened, 1, k - 1) \in Seq(Handles)
        BY <3>1, SubSeqProperties
      <3>3. SubSeq(opened, k + 1, Len(opened)) \in Seq(Handles)
        BY <3>1, SubSeqProperties
      <3>4. opened' \in Seq(Handles)
        BY <3>1, <3>2, <3>3, ConcatProperties
      <3>5. s' = [s EXCEPT ![ctx] = FALSE]
        BY <1>6, <2>2 DEF CloseAndFree, Connected
      <3> QED BY <2>1, <2>2, <3>4, <3>5
    <2>3. CASE ~Connected
      <3>1. opened' = opened /\ s' = s
        BY <1>6, <2>3 DEF CloseAndFree, Connected
      <3> QED BY <2>1, <3>1
    <2> QED BY <2>2, <2>3
  <1>7. ASSUME UseDangling PROVE Keeps
    BY <1>7 DEF UseDangling, Keeps
  <1>8. ctx' \notin live' => ~Connected'
    BY DEF Connected
  <1>9. \A h \in Handles : /\ [s EXCEPT ![h] = FALSE] \in [Handles -> BOOLEAN]
                           /\ [s EXCEPT ![h] = TRUE] \in [Handles -> BOOLEAN]
                           /\ [s EXCEPT ![h] = TRUE][h] = TRUE
    OBVIOUS
  <1>10. ASSUME NEW h \in Handles, ctx' = h, h \in live', s' = [s EXCEPT ![h] = TRUE]
         PROVE  Connected'
    <2>1. s'[h] = TRUE
      BY <1>9, <1>10
    <2> QED BY <1>10, <2>1, Zenon DEF Connected
  <1>11. Connected => ctx \in Handles
    BY DEF Connected
  <1>12. CASE \E c \in Configs : NewLteRefused(c)
    BY <1>1, <1>8, <1>12 DEF Loses
  <1>13. CASE \E c \in Configs, h \in Handles :
                 \/ NewLteAbsent(c, h) \/ NewLteBadParity(c, h)
                 \/ NewLteOpenFails(c, h) \/ NewLteSetupFails(c, h)
    BY <1>2, <1>3, <1>4, <1>8, <1>9, <1>13 DEF Loses
  <1>14. CASE \E c \in Configs, h \in Handles : NewLte(c, h)
    BY <1>5, <1>9, <1>10, <1>14 DEF Connects
  <1>15. CASE CloseAndFree
    BY <1>6, <1>8, <1>9, <1>11, <1>15 DEF Loses, Releases
  <1>16. CASE UseDangling
    BY <1>7, <1>16 DEF Keeps
  <1>17. DelLte \/ Exit => CloseAndFree
    BY DEF DelLte, Exit
  <1> QED BY <1>12, <1>13, <1>14, <1>15, <1>16, <1>17 DEF HandleNext

-----------------------------------------------------------------------------
(* The steps of the module are steps of the dialogue *)

\* Such a call is a step of the dialogue, or none.
LEMMA ManageStep ==
    ASSUME HandleInv, Manage
    PROVE  Dialogue!Next \/ UNCHANGED Dialogue!vars
  <1>1. /\ pc = "idle" /\ Discard
        /\ UNCHANGED <<pc, op, tries, ret, n, queue, stub, rebooting, link,
                       accepted, base, clean, misled, seen, unread>>
    BY DEF Manage, dialogue
  <1>2. Loses \/ Keeps \/ Connects \/ Releases
    BY HandleEffect, SameHandles DEF Manage
  <1>3. Connected => opened # <<>>
    BY DescriptorListed
  <1>4. Tty' = Tty /\ line' = line /\ avail' = avail => UNCHANGED Dialogue!vars
    BY <1>1 DEF Dialogue!vars, Dialogue!caller, Dialogue!modem, Dialogue!history
  <1>5. Tty = "open" /\ Tty' = "held" /\ line' = line /\ avail' = avail => Dialogue!Next
    <2> SUFFICES ASSUME Tty = "open", Tty' = "held", line' = line, avail' = avail
                 PROVE  Dialogue!Close
      BY DEF Dialogue!Next
    <2> QED BY <1>1 DEF Dialogue!Close, Dialogue!caller, Dialogue!modem, Dialogue!history
  <1>6. /\ Tty = "open" /\ Tty' = "closed"
        /\ line' = SubSeq(line, avail + 1, Len(line)) /\ avail' = 0
        => Dialogue!Next
    <2> SUFFICES ASSUME Tty = "open", Tty' = "closed",
                        line' = SubSeq(line, avail + 1, Len(line)), avail' = 0
                 PROVE  Dialogue!Close
      BY DEF Dialogue!Next
    <2> QED BY <1>1 DEF Dialogue!Close, Dialogue!caller, Dialogue!modem, Dialogue!history
  <1>7. Tty # "open" /\ Tty' = "open" /\ line' = line /\ avail' = avail => Dialogue!Next
    <2> SUFFICES ASSUME Tty # "open", Tty' = "open", line' = line, avail' = avail
                 PROVE  Dialogue!Open
      BY DEF Dialogue!Next
    <2> QED BY <1>1 DEF Dialogue!Open, Dialogue!caller, Dialogue!modem, Dialogue!history
  <1>8. opened' = <<>> /\ opened # <<>>
           => line' = SubSeq(line, avail + 1, Len(line)) /\ avail' = 0
    BY <1>1 DEF Discard
  <1>9. opened' # <<>> \/ opened = <<>> => line' = line /\ avail' = avail
    BY <1>1 DEF Discard, terminal
  <1>10. CASE Loses
    <2>1. line' = line /\ avail' = avail
      BY <1>9, <1>10 DEF Loses
    <2>2. Connected => Tty = "open" /\ Tty' = "held"
      BY <1>3, <1>10 DEF Loses, Tty
    <2>3. ~Connected => Tty' = Tty
      BY <1>10 DEF Loses, Tty
    <2> QED BY <1>3, <1>4, <1>5, <2>1, <2>2, <2>3
  <1>11. CASE Keeps
    <2>1. line' = line /\ avail' = avail
      BY <1>9, <1>11 DEF Keeps
    <2>2. Tty' = Tty
      BY <1>11 DEF Keeps, Tty, Connected
    <2> QED BY <1>3, <1>4, <2>1, <2>2
  <1>12. CASE Connects
    <2>1. line' = line /\ avail' = avail
      BY <1>9, <1>12 DEF Connects
    <2>2. Tty' = "open" /\ (Tty = "open" => Tty' = Tty)
      BY <1>12 DEF Connects, Tty
    <2> QED BY <1>3, <1>4, <1>7, <2>1, <2>2
  <1>13. CASE Releases
    <2>1. Tty = "open" /\ opened # <<>>
      BY <1>3, <1>13 DEF Releases, Tty
    <2>2. CASE opened' = <<>>
      <3>1. Tty' = "closed"
        BY <1>13, <2>2 DEF Releases, Tty
      <3> QED BY <1>3, <1>6, <1>8, <2>1, <2>2, <3>1
    <2>3. CASE opened' # <<>>
      <3>1. Tty' = "held"
        BY <1>13, <2>3 DEF Releases, Tty
      <3> QED BY <1>3, <1>5, <1>9, <2>1, <2>3, <3>1
    <2> QED BY <2>2, <2>3
  <1> QED BY <1>2, <1>10, <1>11, <1>12, <1>13

\* A step that leaves the handles alone leaves the terminal open or closed.
LEMMA DialogueStep ==
    ASSUME (\E o \in Calls : Call(o)) \/ Proceed \/ Outside
    PROVE  Dialogue!Next
  <1>1. \/ \E o \in Calls : Dialogue!Begin(o) \/ Dialogue!BadArguments(o)
        \/ Dialogue!CallStep
        \/ Dialogue!Environment
    BY DEF Call, Proceed, Outside, Dialogue!Environment
  <1> QED BY <1>1 DEF Dialogue!Next

-----------------------------------------------------------------------------
\* The dialogue over the terminal of the handles is the dialogue of Me909s.
THEOREM DialogueImplemented == LteSpec => ImplementsDialogue
  <1>1. LteInit => Dialogue!Init
    BY DEF LteInit
  <1>2. HandleInv /\ [LteNext]_lteVars => [Dialogue!Next]_(Dialogue!vars)
    <2> SUFFICES ASSUME HandleInv, [LteNext]_lteVars
                 PROVE  Dialogue!Next \/ UNCHANGED Dialogue!vars
      OBVIOUS
    <2>1. CASE Manage
      BY <2>1, ManageStep
    <2>2. CASE (\E o \in Calls : Call(o)) \/ Proceed \/ Outside
      BY <2>2, DialogueStep
    <2>3. CASE UNCHANGED lteVars
      BY <2>3 DEF lteVars, handle, terminal, dialogue, Connected, Tty,
                  Dialogue!vars, Dialogue!caller, Dialogue!modem, Dialogue!history
    <2> QED BY <2>1, <2>2, <2>3 DEF LteNext
  <1> QED BY <1>1, <1>2, ModuleHandleInv, PTL DEF LteSpec, ImplementsDialogue, Dialogue!Spec

-----------------------------------------------------------------------------
(* What is proved about the dialogue holds of the module *)

\* Me909s's assumptions on its constants.
LEMMA DialogueAssumptions ==
    /\ Calls \subseteq AllCalls
    /\ InitCount \in Nat \ {0} /\ MaxCmd \in Nat /\ MaxLines \in Nat \ {0}
    /\ RxCap \in Nat \ {0} /\ LineCap \in Nat
  <1>1. Dialogue!AllCalls = AllCalls
    BY DEF Dialogue!AllCalls, Dialogue!SyncCalls, Dialogue!PollCalls, Dialogue!AsyncCalls,
           AllCalls, SyncCalls, PollCalls, AsyncCalls
  <1> QED BY <1>1, LteAssumption

\* The dialogue's formulas under both names.
LEMMA SameDialogue ==
    /\ Dialogue!Init <=> Init
    /\ [Dialogue!Next]_(Dialogue!vars) <=> [Next]_vars
    /\ Dialogue!TypeOK <=> TypeOK
  <1>1. Dialogue!vars = vars /\ (Dialogue!vars)' = vars'
    BY DEF Dialogue!vars, Dialogue!caller, Dialogue!modem, Dialogue!history,
           vars, caller, modem, history
  <1>2. Dialogue!Init <=> Init
    BY DEF Dialogue!Init, Init
  <1>3. Dialogue!TypeOK <=> TypeOK
    BY DEF Dialogue!TypeOK, Dialogue!Cell, Dialogue!Kinds, Dialogue!AllCalls,
           Dialogue!SyncCalls, Dialogue!PollCalls, Dialogue!AsyncCalls,
           TypeOK, Cell, Kinds, AllCalls, SyncCalls, PollCalls, AsyncCalls
  <1>4. \A o : /\ Dialogue!Begin(o) <=> Begin(o)
               /\ Dialogue!BadArguments(o) <=> BadArguments(o)
    BY DEF Dialogue!Begin, Dialogue!BadArguments, Dialogue!Commands, Dialogue!Outstanding,
           Dialogue!Reports, Dialogue!Final, Dialogue!modem, Dialogue!history,
           Begin, BadArguments, Commands, Outstanding, Reports, Final, modem, history
  <1>5. Dialogue!CallStep <=> CallStep
    <2>1. \A buf : /\ \A kinds : Dialogue!Found(buf, kinds) <=> Found(buf, kinds)
                   /\ Dialogue!FoundOk(buf) <=> FoundOk(buf)
                   /\ \A d : /\ Dialogue!FirstQry(buf, d) <=> FirstQry(buf, d)
                             /\ Dialogue!FoundStat(buf, d) <=> FoundStat(buf, d)
                   /\ Dialogue!DigitBehind(buf) <=> DigitBehind(buf)
      BY DEF Dialogue!Found, Dialogue!FoundOk, Dialogue!FirstQry, Dialogue!FoundStat,
             Dialogue!DigitBehind, Dialogue!NoQryBefore, Dialogue!WholeAt,
             Found, FoundOk, FirstQry, FoundStat, DigitBehind, NoQryBefore, WholeAt
    <2>5. \A buf : Dialogue!Reported(buf) = Reported(buf)
      BY <2>1 DEF Dialogue!Reported, Dialogue!Wanted, Reported, Wanted
    <2>6. \A buf : Dialogue!Misleads(buf) <=> Misleads(buf)
      BY <2>1, <2>5 DEF Dialogue!Misleads, Dialogue!SyncCalls, Misleads, SyncCalls
    <2>7. \A buf : Dialogue!Handle(buf) <=> Handle(buf)
      BY <2>1, <2>5, <2>6 DEF Dialogue!Handle, Dialogue!HandleSync, Dialogue!HandlePoll,
             Dialogue!Wanted, Dialogue!Return, Dialogue!Word, Dialogue!SyncCalls,
             Dialogue!PollCalls, Handle, HandleSync, HandlePoll, Wanted, Return, Word,
             SyncCalls, PollCalls
    <2>2. Dialogue!Read <=> Read
      BY <2>6, <2>7 DEF Dialogue!Read, Dialogue!Taken, Dialogue!modem, Read, Taken, modem
    <2>3. Dialogue!ReadFails <=> ReadFails
      BY <2>7 DEF Dialogue!ReadFails, Dialogue!modem, Dialogue!history,
                  ReadFails, modem, history
    <2>8. /\ Dialogue!Strings(op) = Strings(op)
          /\ \A t : Dialogue!Beginnings(t) = Beginnings(t)
          /\ \A w : Dialogue!Receives(w) <=> Receives(w)
      BY DEF Dialogue!Strings, Dialogue!Beginnings, Dialogue!Receives,
             Strings, Beginnings, Receives
    <2>4. /\ Dialogue!Send <=> Send
          /\ Dialogue!SendFails <=> SendFails
          /\ Dialogue!Sleep <=> Sleep
      BY <2>8 DEF Dialogue!Send, Dialogue!SendFails, Dialogue!Sleep, Dialogue!SendError,
             Dialogue!Return, Dialogue!AsyncCalls, Dialogue!modem, Dialogue!history,
             Send, SendFails, Sleep, SendError, Return, AsyncCalls, modem, history
    <2> QED BY <2>2, <2>3, <2>4 DEF Dialogue!CallStep, CallStep
  <1>6. (Dialogue!Close <=> Close) /\ (Dialogue!Open <=> Open)
    BY DEF Dialogue!Close, Dialogue!Open, Dialogue!caller, Dialogue!modem, Dialogue!history,
           Close, Open, caller, modem, history
  <1>7. Dialogue!Environment <=> Environment
    <2>1. \A q : Dialogue!Answers(q) = Answers(q)
      BY DEF Dialogue!Answers, Dialogue!Message, Dialogue!FreeText, Answers, Message, FreeText
    <2>2. Dialogue!Answer <=> Answer
      BY <2>1 DEF Dialogue!Answer, Dialogue!caller, Dialogue!FreeText, Answer, caller, FreeText
    <2>3. /\ Dialogue!LinkChange <=> LinkChange
          /\ Dialogue!Announce <=> Announce
          /\ Dialogue!Deliver <=> Deliver
          /\ Dialogue!Drop <=> Drop
          /\ Dialogue!Reboot <=> Reboot
      BY DEF Dialogue!LinkChange, Dialogue!Announce, Dialogue!Deliver, Dialogue!Drop,
             Dialogue!Reboot, Dialogue!Message, Dialogue!caller, Dialogue!modem,
             Dialogue!history, LinkChange, Announce, Deliver, Drop, Reboot, Message, caller,
             modem, history
    <2> QED BY <2>2, <2>3 DEF Dialogue!Environment, Environment
  <1>8. Dialogue!Next <=> Next
    BY <1>4, <1>5, <1>6, <1>7 DEF Dialogue!Next, Next
  <1> QED BY <1>1, <1>2, <1>3, <1>8

\* The module's dialogue is a behaviour of Me909s.
LEMMA ModuleDialogue == LteSpec => Spec
  BY DialogueImplemented, SameDialogue, PTL DEF ImplementsDialogue, Dialogue!Spec, Spec

-----------------------------------------------------------------------------
(* Theorems about the whole module *)

\* Both halves keep their types in any order of their calls: a terminal that nobody has
\* open holds nothing to read.
THEOREM LteTypeCorrect == LteSpec => []LteTypeOK
  <1>1. LteSpec => []TypeOK
    BY ModuleDialogue, TypeCorrect, DialogueAssumptions, PTL
  <1>2. LteSpec => []HandleTypeOK
    BY ModuleHandles, HandleTypeCorrect, HandleAssumptions, PTL
  <1>3. HandleTypeOK /\ TypeOK => LteTypeOK
    BY SameDialogue, SameHandles DEF LteTypeOK
  <1> QED BY <1>1, <1>2, <1>3, PTL

\* In any order of new_lte, del_lte and the AT functions, a synchronous call that stays
\* in step and reports success had every command accepted and leaves nothing outstanding.
THEOREM LteInSync == LteSpec => []InSync
  BY ModuleDialogue, InSyncCorrect, DialogueAssumptions, PTL

\* Such a call is a lock-step exchange at every moment for as long as it stays in step,
\* whatever became of the handles before it.
THEOREM LteExchange == LteSpec => ImplementsExchange
  BY ModuleDialogue, ExchangeImplemented, DialogueAssumptions, PTL

\* In any order of new_lte, del_lte and the AT functions, a link state that status,
\* online or offline returns was true during the call or lay unread at its start, unless
\* the call took another text for the report or a byte behind the buffer for its digit.
THEOREM LteStateReport == LteSpec => []StateReport
  BY ModuleDialogue, StateReportCorrect, DialogueAssumptions, PTL

\* The bound on a call's writes, waits and sleeps is that of the whole module: new_lte,
\* del_lte and the interpreter's exit wait for the call to return.
THEOREM LteBoundedWait == LteSpec => BoundedWait
  BY ModuleDialogue, BoundedWaitCorrect, DialogueAssumptions, PTL

\* Nothing is written after a new_lte that failed or a del_lte, not even an unfinished
\* line, whatever descriptors are open still.
THEOREM LteCommandsFollowConnect == LteSpec => CommandsFollowConnect
  <1> DEFINE Locked == pc # "idle" => ~exited
  <1>1. LteSpec => []OutcomeHolds
    BY ModuleHandles, OutcomeHoldsCorrect, HandleAssumptions, PTL
  <1>2. LteInit => Locked
    BY SameDialogue DEF LteInit, Init
  <1>3. Locked /\ [LteNext]_lteVars => Locked'
    <2> SUFFICES ASSUME Locked, [LteNext]_lteVars PROVE Locked'
      OBVIOUS
    <2>1. CASE Manage
      BY <2>1 DEF Manage, dialogue
    <2>2. ASSUME NEW o \in Calls, Call(o) PROVE ~exited'
      BY <2>2 DEF Call, Serial!Running, handle
    <2>3. CASE Proceed
      <3>1. pc # "idle" /\ exited' = exited
        BY <2>3 DEF Proceed, handle, Dialogue!CallStep, Dialogue!Send, Dialogue!SendFails,
                    Dialogue!Read, Dialogue!ReadFails, Dialogue!Sleep
      <3> QED BY <3>1
    <2>4. CASE Outside
      BY <2>4 DEF Outside, handle, Dialogue!Answer, Dialogue!LinkChange,
                  Dialogue!Announce, Dialogue!Deliver, Dialogue!Drop, Dialogue!caller
    <2>5. CASE UNCHANGED lteVars
      BY <2>5 DEF lteVars, handle, dialogue
    <2> QED BY <2>1, <2>2, <2>3, <2>4, <2>5 DEF LteNext
  <1>4. OutcomeHolds /\ Locked /\ [LteNext]_lteVars
           => [n' # n \/ stub' # stub => last = "connected" /\ ~exited]_lteVars
    <2> SUFFICES ASSUME OutcomeHolds, Locked, LteNext, n' # n \/ stub' # stub
                 PROVE  last = "connected" /\ ~exited
      OBVIOUS
    <2>1. ~Manage
      BY DEF Manage, dialogue
    <2>2. ASSUME NEW o \in Calls PROVE ~Call(o)
      BY DEF Call, Dialogue!BadArguments, Dialogue!Begin, Dialogue!modem
    <2>3. ~Outside
      BY DEF Outside, Dialogue!Answer, Dialogue!LinkChange, Dialogue!Announce,
             Dialogue!Deliver, Dialogue!Drop, Dialogue!modem
    <2>4. Proceed
      BY <2>1, <2>2, <2>3 DEF LteNext
    <2>5. Dialogue!Send \/ (Dialogue!SendFails /\ Tty = "open")
      BY <2>4 DEF Proceed, Dialogue!CallStep, Dialogue!SendFails, Dialogue!Read,
                  Dialogue!ReadFails, Dialogue!Sleep, Dialogue!modem
    <2>6. pc = "send" /\ Connected
      BY <2>5 DEF Dialogue!Send, Dialogue!SendFails, Tty
    <2> QED BY <2>6 DEF OutcomeHolds, Connected
  <1> QED BY <1>1, <1>2, <1>3, <1>4, PTL DEF LteSpec, CommandsFollowConnect

\* In every interleaving with AT calls the line settings form a stack, and no path of
\* new_lte or del_lte leaves a descriptor behind.
THEOREM LteLineRestored == LteSpec => [](SettingsStack /\ NoOrphanDescriptor)
  BY ModuleHandles, SettingsStackCorrect, NoOrphanDescriptorCorrect, HandleAssumptions, PTL
==============================================================================

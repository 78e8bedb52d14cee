---------------------------- MODULE LteHandleProofs ----------------------------
(***************************************************************************)
(* Proofs about LteHandle: its types, the stack of line settings, the      *)
(* descriptors and the use of freed memory, for any set of addresses, any  *)
(* configurations and any number of calls.                                 *)
(***************************************************************************)
EXTENDS LteHandle, SequenceTheorems, TLAPS

\* No descriptor is listed twice.
OpenedOnce ==
    \A i, j \in 1 .. Len(opened) : opened[i] = opened[j] => i = j

StackInv == SettingsStack /\ NoOrphanDescriptor /\ OpenedOnce

HandleInv == HandleTypeOK /\ StackInv

-----------------------------------------------------------------------------
(* Lemmas *)

\* A live ctx is connected, and taking its descriptor out of the list takes the
\* last one.
LEMMA CtxIsNewest ==
    ASSUME HandleInv, ctx \in live, NEW k \in 1 .. Len(opened), opened[k] = ctx
    PROVE  LET rest == SubSeq(opened, 1, k - 1)
                       \o SubSeq(opened, k + 1, Len(opened)) IN
           /\ k = Len(opened)
           /\ rest \in Seq(Handles) /\ Len(rest) = Len(opened) - 1
           /\ \A i \in 1 .. Len(opened) - 1 : rest[i] = opened[i]
  <1>1. opened \in Seq(Handles) /\ Len(opened) \in Nat
    BY DEF HandleInv, HandleTypeOK
  <1>2. opened[Len(opened)] = ctx
    BY DEF HandleInv, StackInv, NoOrphanDescriptor
  <1>3. k = Len(opened)
    BY <1>1, <1>2 DEF HandleInv, StackInv, OpenedOnce
  <1>4. \A i \in 1 .. k - 1 : opened[i] \in Handles
    BY <1>1
  <1>5. /\ SubSeq(opened, 1, k - 1) \in Seq(Handles)
        /\ Len(SubSeq(opened, 1, k - 1)) = Len(opened) - 1
        /\ \A i \in 1 .. k - 1 : SubSeq(opened, 1, k - 1)[i] = opened[i]
    <2>1. /\ SubSeq(opened, 1, k - 1) \in Seq(Handles)
          /\ Len(SubSeq(opened, 1, k - 1)) =
                IF 1 <= k - 1 THEN k - 1 - 1 + 1 ELSE 0
          /\ \A i \in 1 .. k - 1 - 1 + 1 :
                SubSeq(opened, 1, k - 1)[i] = opened[1 + i - 1]
      BY <1>1, <1>4, SubSeqProperties
    <2> QED BY <1>1, <1>3, <2>1
  <1>6. SubSeq(opened, k + 1, Len(opened)) = <<>>
    BY <1>1, <1>3, SubSeqEmpty
  <1>7. SubSeq(opened, 1, k - 1) \o <<>> = SubSeq(opened, 1, k - 1)
    BY <1>5, ConcatEmptySeq
  <1> QED BY <1>3, <1>5, <1>6, <1>7

\* The types of what CloseAndFree assigns.
CloseTypes ==
    /\ ctx \in Handles \cup {NULL} /\ live \subseteq Handles
    /\ s \in [Handles -> BOOLEAN]
    /\ uart \in [Handles -> [conf : LineSettings, old_tios : LineSettings]]
    /\ opened \in Seq(Handles) /\ line \in LineSettings /\ fault \in BOOLEAN

\* del_lte and free_lte keep the stack: they take its newest entry off and put
\* the settings below it in force.
LEMMA CloseStep == HandleInv /\ CloseAndFree => CloseTypes' /\ StackInv'
  <1> SUFFICES ASSUME HandleInv, CloseAndFree PROVE CloseTypes' /\ StackInv'
    OBVIOUS
  <1>1. HandleTypeOK /\ SettingsStack /\ NoOrphanDescriptor /\ OpenedOnce
    BY DEF HandleInv, StackInv
  <1>2. /\ ctx' = ctx /\ uart' = uart /\ live' = live \ {ctx}
        /\ fault' \in BOOLEAN /\ live' \subseteq Handles
    BY <1>1 DEF CloseAndFree, HandleTypeOK, Dangling
  <1>3. CASE ctx \in live /\ s[ctx]
    <2>1. PICK k \in 1 .. Len(opened) :
             /\ opened[k] = ctx
             /\ opened' = SubSeq(opened, 1, k - 1)
                          \o SubSeq(opened, k + 1, Len(opened))
      BY <1>3 DEF CloseAndFree
    <2>2. /\ k = Len(opened) /\ opened' \in Seq(Handles)
          /\ Len(opened') = Len(opened) - 1
          /\ \A i \in 1 .. Len(opened) - 1 : opened'[i] = opened[i]
      BY <1>3, <2>1, CtxIsNewest
    <2>3. /\ line' = uart[ctx].old_tios
          /\ s' = [s EXCEPT ![ctx] = FALSE]
      BY <1>3 DEF CloseAndFree
    <2>4. opened \in Seq(Handles) /\ Len(opened) \in Nat /\ Len(opened') \in Nat
          /\ ctx \in Handles
      BY <1>1, <1>3, <2>2 DEF HandleTypeOK
    <2>5. OpenedOnce'
      BY <1>1, <2>2, <2>4 DEF OpenedOnce
    <2>6. SettingsStack'
      <3>1. \A i \in 1 .. Len(opened') :
               uart'[opened'[i]].old_tios =
                  IF i = 1 THEN OrigLine ELSE uart'[opened'[i - 1]].conf
        BY <1>1, <1>2, <2>2, <2>4 DEF SettingsStack
      <3>2. uart[opened[k]].old_tios =
               IF k = 1 THEN OrigLine ELSE uart[opened[k - 1]].conf
        BY <1>1 DEF SettingsStack
      <3>3. CASE k = 1
        <4>1. opened' = <<>>
          BY <2>2, <3>3, EmptySeq
        <4> QED BY <2>1, <2>3, <3>1, <3>2, <3>3, <4>1 DEF SettingsStack
      <3>4. CASE k # 1
        <4>1. Len(opened') = k - 1 /\ opened' # <<>> /\ opened'[k - 1] = opened[k - 1]
          BY <2>2, <2>4, <3>4
        <4>2. line' = uart'[opened'[Len(opened')]].conf
          BY <1>2, <2>1, <2>3, <3>2, <3>4, <4>1
        <4> QED BY <3>1, <4>1, <4>2 DEF SettingsStack
      <3> QED BY <3>3, <3>4
    <2>7. NoOrphanDescriptor'
      <3>1. ASSUME NEW h \in Handles
            PROVE  (\E i \in 1 .. Len(opened') : opened'[i] = h)
                      <=> (h \in live' /\ s'[h])
        <4>1. (\E i \in 1 .. Len(opened) : opened[i] = h) <=> (h \in live /\ s[h])
          BY <1>1 DEF NoOrphanDescriptor
        <4>2. CASE h = ctx
          <5>1. \A i \in 1 .. Len(opened') : opened'[i] # ctx
            BY <1>1, <2>1, <2>2, <2>4 DEF OpenedOnce
          <5> QED BY <1>2, <4>2, <5>1
        <4>3. CASE h # ctx
          <5>1. s'[h] = s[h] /\ (h \in live' <=> h \in live)
            BY <1>1, <1>2, <2>3, <4>3 DEF HandleTypeOK
          <5>2. (\E i \in 1 .. Len(opened') : opened'[i] = h)
                   <=> (\E i \in 1 .. Len(opened) : opened[i] = h)
            BY <2>1, <2>2, <2>4, <4>3
          <5> QED BY <4>1, <5>1, <5>2
        <4> QED BY <4>2, <4>3
      <3> QED BY <1>2, <3>1 DEF NoOrphanDescriptor
    <2>8. CloseTypes'
      BY <1>1, <1>2, <2>2, <2>3, <2>4 DEF CloseTypes, HandleTypeOK
    <2> QED BY <2>5, <2>6, <2>7, <2>8 DEF StackInv
  <1>4. CASE ~(ctx \in live /\ s[ctx])
    <2>1. UNCHANGED <<line, opened, s>>
      BY <1>4 DEF CloseAndFree
    <2>2. ctx \notin live
      BY <1>1, <1>4 DEF NoOrphanDescriptor, HandleTypeOK
    <2>3. live' = live
      BY <1>2, <2>2
    <2> QED BY <1>1, <1>2, <2>1, <2>3
            DEF CloseTypes, StackInv, HandleTypeOK, SettingsStack, NoOrphanDescriptor,
                OpenedOnce
  <1> QED BY <1>3, <1>4

\* A successful new_lte pushes the settings in force and puts its own in force.
LEMMA OpenStep ==
    ASSUME HandleInv, NEW c \in Configs, NEW h \in Handles, NewLte(c, h)
    PROVE  HandleInv'
  <1>1. HandleTypeOK /\ SettingsStack /\ NoOrphanDescriptor /\ OpenedOnce
    BY DEF HandleInv, StackInv
  <1>2. /\ h \notin live /\ live' = live \cup {h} /\ ctx' = h
        /\ s' = [s EXCEPT ![h] = TRUE] /\ opened' = Append(opened, h)
        /\ uart' = [uart EXCEPT ![h] = [conf |-> LineOf(c), old_tios |-> line]]
        /\ line' = LineOf(c) /\ last' = "connected"
        /\ exited' = exited /\ fault' = fault
    BY DEF NewLte, Saved
  <1>3. opened \in Seq(Handles) /\ Len(opened) \in Nat
    BY <1>1 DEF HandleTypeOK
  <1>4. /\ opened' \in Seq(Handles) /\ Len(opened') = Len(opened) + 1
        /\ \A i \in 1 .. Len(opened) : opened'[i] = opened[i]
        /\ opened'[Len(opened) + 1] = h /\ opened' # <<>>
    BY <1>2, <1>3
  <1>5. \A i \in 1 .. Len(opened) : opened[i] \in Handles /\ opened[i] # h
    BY <1>1, <1>2, <1>3 DEF NoOrphanDescriptor
  <1>6. /\ \A g \in Handles \ {h} : uart'[g] = uart[g] /\ s'[g] = s[g]
        /\ uart'[h].conf = LineOf(c) /\ uart'[h].old_tios = line /\ s'[h]
    BY <1>1, <1>2 DEF HandleTypeOK
  <1>7. HandleTypeOK'
    <2>1. LineOf(c) \in LineSettings
      BY DEF LineSettings
    <2> HIDE DEF LineSettings
    <2>2. [conf |-> LineOf(c), old_tios |-> line]
             \in [conf : LineSettings, old_tios : LineSettings]
      BY <1>1, <2>1 DEF HandleTypeOK
    <2>3. uart' \in [Handles -> [conf : LineSettings, old_tios : LineSettings]]
      BY <1>1, <1>2, <2>2 DEF HandleTypeOK
    <2> QED BY <1>1, <1>2, <1>4, <2>1, <2>3 DEF HandleTypeOK
  <1>8. OpenedOnce'
    BY <1>1, <1>3, <1>4, <1>5 DEF OpenedOnce
  <1>9. SettingsStack'
    <2>1. ASSUME NEW k \in 1 .. Len(opened')
          PROVE  uart'[opened'[k]].old_tios =
                    IF k = 1 THEN OrigLine ELSE uart'[opened'[k - 1]].conf
      <3>1. CASE k \in 1 .. Len(opened)
        <4>1. opened'[k] = opened[k] /\ uart'[opened[k]] = uart[opened[k]]
          BY <1>4, <1>5, <1>6, <3>1
        <4>2. k # 1 => /\ opened'[k - 1] = opened[k - 1]
                       /\ uart'[opened[k - 1]] = uart[opened[k - 1]]
          BY <1>3, <1>4, <1>5, <1>6, <3>1
        <4> QED BY <1>1, <3>1, <4>1, <4>2 DEF SettingsStack
      <3>2. CASE k = Len(opened) + 1
        <4>1. uart'[opened'[k]].old_tios = line
          BY <1>4, <1>6, <3>2
        <4>2. CASE k = 1
          <5>1. opened = <<>>
            BY <1>3, <3>2, <4>2, EmptySeq
          <5> QED BY <1>1, <4>1, <4>2, <5>1 DEF SettingsStack
        <4>3. CASE k # 1
          <5>1. opened # <<>> /\ k - 1 = Len(opened) /\ k - 1 \in 1 .. Len(opened)
            BY <1>3, <3>2, <4>3
          <5>2. opened'[k - 1] = opened[k - 1] /\ uart'[opened[k - 1]] = uart[opened[k - 1]]
            BY <1>4, <1>5, <1>6, <5>1
          <5> QED BY <1>1, <4>1, <4>3, <5>1, <5>2 DEF SettingsStack
        <4> QED BY <4>2, <4>3
      <3> QED BY <1>3, <1>4, <3>1, <3>2
    <2> QED BY <1>2, <1>4, <1>6, <2>1 DEF SettingsStack
  <1>10. NoOrphanDescriptor'
    <2>1. ASSUME NEW g \in Handles
          PROVE  (\E k \in 1 .. Len(opened') : opened'[k] = g)
                    <=> (g \in live' /\ s'[g])
      <3>1. CASE g = h
        <4>1. Len(opened) + 1 \in 1 .. Len(opened')
          BY <1>3, <1>4
        <4> QED BY <1>2, <1>4, <1>6, <3>1, <4>1
      <3>2. CASE g # h
        <4>1. (\E k \in 1 .. Len(opened) : opened[k] = g) <=> (g \in live /\ s[g])
          BY <1>1 DEF NoOrphanDescriptor
        <4>2. (\E k \in 1 .. Len(opened') : opened'[k] = g)
                 <=> (\E k \in 1 .. Len(opened) : opened[k] = g)
          BY <1>3, <1>4, <3>2
        <4> QED BY <1>2, <1>6, <3>2, <4>1, <4>2
      <3> QED BY <3>1, <3>2
    <2> QED BY <1>2, <1>4, <2>1 DEF NoOrphanDescriptor
  <1> QED BY <1>7, <1>8, <1>9, <1>10 DEF HandleInv, StackInv

\* A failing new_lte changes nothing that the stack depends on: only the fields
\* of an address that holds no descriptor.
LEMMA FailedNew ==
    ASSUME HandleInv, HandleTypeOK', NEW h \in Handles, h \notin live,
           opened' = opened, line' = line,
           \A g \in Handles \ {h} : /\ uart'[g] = uart[g] /\ s'[g] = s[g]
                                    /\ g \in live' <=> g \in live,
           ~(h \in live' /\ s'[h]),
           ctx' \notin live'
    PROVE  HandleInv'
  <1>1. HandleTypeOK /\ SettingsStack /\ NoOrphanDescriptor /\ OpenedOnce
    BY DEF HandleInv, StackInv
  <1>2. \A i \in 1 .. Len(opened) : opened[i] \in Handles \ {h}
    BY <1>1 DEF HandleTypeOK, NoOrphanDescriptor
  <1>3. OpenedOnce'
    BY <1>1 DEF OpenedOnce
  <1>4. \A i \in 1 .. Len(opened) : uart'[opened[i]] = uart[opened[i]]
    BY <1>2
  <1>5. Len(opened) \in Nat /\ (opened # <<>> => Len(opened) \in 1 .. Len(opened))
    BY <1>1, EmptySeq DEF HandleTypeOK
  <1>6. SettingsStack'
    <2>1. ASSUME NEW k \in 1 .. Len(opened)
          PROVE  uart'[opened[k]].old_tios =
                    IF k = 1 THEN OrigLine ELSE uart'[opened[k - 1]].conf
      <3>1. k # 1 => k - 1 \in 1 .. Len(opened)
        BY <1>5
      <3> QED BY <1>1, <1>4, <3>1 DEF SettingsStack
    <2> QED BY <1>1, <1>4, <1>5, <2>1 DEF SettingsStack
  <1>7. NoOrphanDescriptor'
    <2>1. ASSUME NEW g \in Handles
          PROVE  (\E k \in 1 .. Len(opened) : opened[k] = g) <=> (g \in live' /\ s'[g])
      BY <1>1, <1>2 DEF NoOrphanDescriptor
    <2> QED BY <2>1 DEF NoOrphanDescriptor
  <1> QED BY <1>3, <1>6, <1>7 DEF HandleInv, StackInv

\* Every call keeps the invariant of the handle.
LEMMA HandleStep == HandleInv /\ [HandleNext]_handleVars => HandleInv'
  <1> SUFFICES ASSUME HandleInv, [HandleNext]_handleVars PROVE HandleInv'
    OBVIOUS
  <1>1. HandleTypeOK /\ NULL \notin Handles /\ NULL \notin live
    BY HandleAssumption DEF HandleInv, HandleTypeOK
  <1>2. ASSUME NEW c \in Configs, NewLteRefused(c) PROVE HandleInv'
    BY <1>1, <1>2 DEF NewLteRefused, HandleInv, HandleTypeOK, StackInv, SettingsStack,
                      NoOrphanDescriptor, OpenedOnce
  <1>3. ASSUME NEW c \in Configs, NEW h \in Handles, NewLteAbsent(c, h)
        PROVE  HandleInv'
    <2>1. HandleTypeOK'
      BY <1>1, <1>3 DEF NewLteAbsent, HandleTypeOK
    <2>2. /\ h \notin live /\ opened' = opened /\ line' = line /\ uart' = uart
          /\ live' = live \cup {h} /\ s' = [s EXCEPT ![h] = FALSE] /\ ctx' = NULL
      BY <1>3 DEF NewLteAbsent
    <2>3. ~s'[h] /\ \A g \in Handles \ {h} : s'[g] = s[g]
      BY <1>1, <2>2 DEF HandleTypeOK
    <2> QED BY <1>1, <2>1, <2>2, <2>3, FailedNew
  <1>4. ASSUME NEW c \in Configs, NEW h \in Handles, NewLteBadParity(c, h)
        PROVE  HandleInv'
    <2>1. HandleTypeOK'
      BY <1>1, <1>4 DEF NewLteBadParity, HandleTypeOK
    <2> QED BY <1>1, <1>4, <2>1, FailedNew DEF NewLteBadParity
  <1>5. ASSUME NEW c \in Configs, NEW h \in Handles, NewLteOpenFails(c, h)
        PROVE  HandleInv'
    <2>1. HandleTypeOK'
      BY <1>1, <1>5 DEF NewLteOpenFails, HandleTypeOK
    <2>2. /\ h \notin live /\ opened' = opened /\ line' = line /\ uart' = uart
          /\ live' = live /\ s' = [s EXCEPT ![h] = FALSE] /\ ctx' = h
      BY <1>5 DEF NewLteOpenFails
    <2>3. \A g \in Handles \ {h} : s'[g] = s[g]
      BY <1>1, <2>2 DEF HandleTypeOK
    <2> QED BY <2>1, <2>2, <2>3, FailedNew
  <1>6. ASSUME NEW c \in Configs, NEW h \in Handles, NewLteSetupFails(c, h)
        PROVE  HandleInv'
    <2>1. /\ h \notin live /\ opened' = opened /\ line' = line
          /\ uart' = [uart EXCEPT ![h] = [conf |-> LineOf(c), old_tios |-> line]]
          /\ live' = live /\ s' = [s EXCEPT ![h] = FALSE] /\ ctx' = h
      BY <1>6 DEF NewLteSetupFails, Saved
    <2>2. LineOf(c) \in LineSettings
      BY DEF LineSettings
    <2> HIDE DEF LineSettings
    <2>3. uart' \in [Handles -> [conf : LineSettings, old_tios : LineSettings]]
      BY <1>1, <2>1, <2>2 DEF HandleTypeOK
    <2>4. HandleTypeOK'
      BY <1>1, <1>6, <2>3 DEF NewLteSetupFails, HandleTypeOK
    <2>5. \A g \in Handles \ {h} : s'[g] = s[g] /\ uart'[g] = uart[g]
      BY <1>1, <2>1 DEF HandleTypeOK
    <2> QED BY <2>1, <2>4, <2>5, FailedNew
  <1>7. ASSUME NEW c \in Configs, NEW h \in Handles, NewLte(c, h) PROVE HandleInv'
    BY <1>7, OpenStep
  <1>8. CASE DelLte \/ Exit
    <2>1. CloseTypes' /\ StackInv'
      BY <1>8, CloseStep DEF DelLte, Exit
    <2>2. last' \in {"none", "connected", "new_failed", "connect_failed", "deleted"}
          /\ exited' \in BOOLEAN
      BY <1>1, <1>8 DEF DelLte, Exit, HandleTypeOK
    <2> QED BY <2>1, <2>2 DEF HandleInv, HandleTypeOK, CloseTypes
  <1>9. CASE UseDangling
    BY <1>9 DEF UseDangling, HandleInv, HandleTypeOK, StackInv, SettingsStack,
                NoOrphanDescriptor, OpenedOnce
  <1>10. CASE UNCHANGED handleVars
    BY <1>10 DEF handleVars, HandleInv, HandleTypeOK, StackInv, SettingsStack,
                 NoOrphanDescriptor, OpenedOnce
  <1> QED BY <1>2, <1>3, <1>4, <1>5, <1>6, <1>7, <1>8, <1>9, <1>10 DEF HandleNext

\* The module is loaded with no handle.
LEMMA FirstHandle == HandleInit => HandleInv
  <1> SUFFICES ASSUME HandleInit PROVE HandleInv
    OBVIOUS
  <1>1. opened \in Seq(Handles) /\ Len(opened) = 0
    BY DEF HandleInit
  <1>2. OrigLine \in LineSettings
    BY DEF LineSettings
  <1> HIDE DEF LineSettings
  <1>3. HandleTypeOK
    BY <1>1, <1>2 DEF HandleInit, HandleTypeOK
  <1> QED BY <1>1, <1>3, HandleAssumption
          DEF HandleInit, HandleInv, StackInv, SettingsStack, NoOrphanDescriptor, OpenedOnce

\* HandleInv is an invariant of every life of the handle.
LEMMA HandleInvariant == HandleSpec => []HandleInv
  BY FirstHandle, HandleStep, PTL DEF HandleSpec

-----------------------------------------------------------------------------
(* Theorems *)

\* The variables of the handle keep their types.
THEOREM HandleTypeCorrect == HandleSpec => []HandleTypeOK
  <1>1. HandleInv => HandleTypeOK
    BY DEF HandleInv
  <1> QED BY <1>1, HandleInvariant, PTL

\* The saved line settings form a stack that closing unwinds, whatever new_lte
\* calls succeed and fail in between.
THEOREM SettingsStackCorrect == HandleSpec => []SettingsStack
  <1>1. HandleInv => SettingsStack
    BY DEF HandleInv, StackInv
  <1> QED BY <1>1, HandleInvariant, PTL

\* No path of new_lte or del_lte leaves a descriptor open without its handle, or a
\* live ctx without a descriptor.
THEOREM NoOrphanDescriptorCorrect == HandleSpec => []NoOrphanDescriptor
  <1>1. HandleInv => NoOrphanDescriptor
    BY DEF HandleInv, StackInv
  <1> QED BY <1>1, HandleInvariant, PTL

\* What the last new_lte or del_lte told its caller holds after the next one too.
LEMMA OutcomeStep == HandleTypeOK /\ OutcomeHolds /\ [HandleNext]_handleVars => OutcomeHolds'
  <1> SUFFICES ASSUME HandleTypeOK, OutcomeHolds, [HandleNext]_handleVars
               PROVE  OutcomeHolds'
    OBVIOUS
  <1>1. NULL \notin live /\ live \subseteq Handles /\ s \in [Handles -> BOOLEAN]
    BY HandleAssumption DEF HandleTypeOK
  <1>2. ASSUME NEW c \in Configs, NewLteRefused(c) PROVE OutcomeHolds'
    BY <1>1, <1>2 DEF NewLteRefused, OutcomeHolds
  <1>3. ASSUME NEW c \in Configs, NEW h \in Handles,
               \/ NewLteAbsent(c, h) \/ NewLteBadParity(c, h)
               \/ NewLteOpenFails(c, h) \/ NewLteSetupFails(c, h)
        PROVE  OutcomeHolds'
    <2>1. ctx' \notin live' /\ last' \in {"new_failed", "connect_failed"}
      BY <1>1, <1>3, HandleAssumption
         DEF NewLteAbsent, NewLteBadParity, NewLteOpenFails, NewLteSetupFails
    <2> QED BY <2>1 DEF OutcomeHolds
  <1>4. ASSUME NEW c \in Configs, NEW h \in Handles, NewLte(c, h) PROVE OutcomeHolds'
    <2>1. /\ ctx' = h /\ h \in live' /\ last' = "connected"
          /\ s' = [s EXCEPT ![h] = TRUE]
      BY <1>4 DEF NewLte
    <2>2. s'[h] = TRUE
      BY <1>1, <2>1
    <2> QED BY <2>1, <2>2, Zenon DEF OutcomeHolds
  <1>5. CASE DelLte
    BY <1>5 DEF DelLte, CloseAndFree, OutcomeHolds
  <1>6. CASE Exit
    BY <1>6 DEF Exit, OutcomeHolds
  <1>7. CASE UseDangling \/ UNCHANGED handleVars
    BY <1>7 DEF UseDangling, handleVars, OutcomeHolds
  <1> QED BY <1>2, <1>3, <1>4, <1>5, <1>6, <1>7 DEF HandleNext

\* The module is connected exactly when the last new_lte or del_lte said so.
THEOREM OutcomeHoldsCorrect == HandleSpec => []OutcomeHolds
  <1>1. HandleInit => OutcomeHolds
    BY DEF HandleInit, OutcomeHolds
  <1>2. HandleTypeOK /\ OutcomeHolds /\ [HandleNext]_handleVars => OutcomeHolds'
    BY OutcomeStep
  <1> QED BY <1>1, <1>2, HandleTypeCorrect, PTL DEF HandleSpec

\* A ctx that dangles does so since a failed connect or a del_lte.
DanglingKnown ==
    Dangling /\ ~exited => last \in {"connect_failed", "deleted"}

\* A dangling ctx stays known for what it is until the next call.
LEMMA DanglingStep == DanglingKnown /\ [HandleNext]_handleVars => DanglingKnown'
  <1> SUFFICES ASSUME DanglingKnown, [HandleNext]_handleVars PROVE DanglingKnown'
    OBVIOUS
  <1>1. ASSUME NEW c \in Configs, NewLteRefused(c) PROVE DanglingKnown'
    BY <1>1 DEF NewLteRefused, DanglingKnown, Dangling
  <1>2. ASSUME NEW c \in Configs, NEW h \in Handles,
               \/ NewLteAbsent(c, h) \/ NewLteBadParity(c, h)
               \/ NewLteOpenFails(c, h) \/ NewLteSetupFails(c, h) \/ NewLte(c, h)
        PROVE  DanglingKnown'
    BY <1>2 DEF NewLteAbsent, NewLteBadParity, NewLteOpenFails, NewLteSetupFails,
                NewLte, DanglingKnown, Dangling
  <1>3. CASE DelLte \/ Exit \/ UseDangling
    BY <1>3 DEF DelLte, Exit, UseDangling, DanglingKnown, Dangling
  <1>4. CASE UNCHANGED handleVars
    BY <1>4 DEF handleVars, DanglingKnown, Dangling
  <1> QED BY <1>1, <1>2, <1>3, <1>4 DEF HandleNext

\* Freed memory is used only by a call that follows a failed connect or a del_lte.
THEOREM NoUseAfterFreeCorrect == HandleSpec => NoUseAfterFree
  <1>1. HandleInit => DanglingKnown
    BY DEF HandleInit, DanglingKnown, Dangling
  <1>2. DanglingKnown /\ [HandleNext]_handleVars => DanglingKnown'
    BY DanglingStep
  <1>3. DanglingKnown /\ [HandleNext]_handleVars
           => [fault' /\ ~fault => last \in {"connect_failed", "deleted"}]_handleVars
    <2> SUFFICES ASSUME DanglingKnown, HandleNext, fault', ~fault
                 PROVE  last \in {"connect_failed", "deleted"}
      OBVIOUS
    <2>1. ASSUME NEW c \in Configs PROVE ~NewLteRefused(c)
      BY DEF NewLteRefused
    <2>2. ASSUME NEW c \in Configs, NEW h \in Handles
          PROVE  ~ (\/ NewLteAbsent(c, h) \/ NewLteBadParity(c, h)
                    \/ NewLteOpenFails(c, h) \/ NewLteSetupFails(c, h)
                    \/ NewLte(c, h))
      BY DEF NewLteAbsent, NewLteBadParity, NewLteOpenFails, NewLteSetupFails, NewLte
    <2>3. CASE DelLte \/ Exit
      BY <2>3 DEF DelLte, Exit, CloseAndFree, Running, DanglingKnown
    <2>4. CASE UseDangling
      BY <2>4 DEF UseDangling, Running, DanglingKnown
    <2> QED BY <2>1, <2>2, <2>3, <2>4 DEF HandleNext
  <1> QED BY <1>1, <1>2, <1>3, PTL DEF HandleSpec, NoUseAfterFree
==============================================================================

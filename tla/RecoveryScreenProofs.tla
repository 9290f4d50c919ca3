------------------------- MODULE RecoveryScreenProofs -------------------------
(***************************************************************************)
(* Proofs about RecoveryScreen.tla: for any installations, drives, sticks  *)
(* and credentials, what the recovery screen says is true, and it restores *)
(* and shuts down only when it may.  The tool it runs is the one of        *)
(* RecoveryProofs.tla, and its lemmas are used here.                       *)
(***************************************************************************)
EXTENDS RecoveryScreen, RecoveryProofs

Threads == [pc : {"none", "confirm", "run", "wait", "post", "posted"},
            win : Installs \cup {None}, key : Letters \cup {NoLetter},
            restoration : BOOLEAN, exit : {-1, 0, 1}]

ScreenTypeOK ==
    /\ RecoverTypeOK
    /\ selected \in Installs \cup {None}
    /\ thread \in Threads
    /\ busy \in BOOLEAN /\ enabled \in BOOLEAN

-------------------------------------------------------------------------------
(* The inductive invariant. *)

\* The screen is the only program of the recovery environment besides the
\* tool: no pairing, no activation.
OnlyTheScreen ==
    /\ running = PE /\ script = "idle"
    /\ \A p \in Pairers : pairer[p] = PairIdle

\* The tool was run for what the thread was started for.
SameJob == /\ tool.win = thread.win /\ tool.letter = thread.key
           /\ tool.inspecting = ~thread.restoration

\* The tool runs only while a thread waits for it, and the result that the
\* thread carries to the window is that of this run.
ThreadAndTool ==
    /\ thread.pc = "none" => thread = NoThread
    /\ thread.pc \in {"confirm", "run"} =>
          thread.win \in Installs /\ thread.key \in Letters /\ thread.exit = 1
    /\ thread.pc # "wait" => tool.pc = "idle"
    /\ thread.pc = "wait" => SameJob
    /\ thread.pc \in {"post", "posted"} /\ thread.exit = 0 =>
          SameJob /\ tool.exit = 0

\* One thread at a time, and nothing can be selected beside it.
OneThread ==
    /\ ~busy => thread = NoThread
    /\ thread.pc \in {"run", "wait", "post", "posted"} => ~enabled

\* The pair that may be restored is the one that was inspected.
VerifiedIsChecked ==
    verifiedWindows # None => <<verifiedWindows, verifiedKey>> = checked

\* What was reported as restored stays so in memory as well, from where it
\* may be written back.
CompleteStays ==
    complete # None =>
        /\ complete \in Installs
        /\ ~durable[complete].registered /\ ~hive[complete].registered

ScreenInvariant ==
    /\ OnlyTheScreen /\ ToolInOrder /\ SuccessIsDurable
    /\ ThreadAndTool /\ OneThread /\ VerifiedIsChecked
    /\ RestoreWasChecked /\ CompleteStays

-------------------------------------------------------------------------------
(* The tool, as the screen runs it. *)

\* Neither pairing nor activation is under way on the recovery screen.
LEMMA NoDesktopWork ==
  ASSUME OnlyTheScreen
  PROVE  PairersOnDesktop /\ OneRegisters /\ ScriptInOrder
  BY DEF OnlyTheScreen, PairIdle, PairersOnDesktop, OneRegisters, Registered,
         ScriptInOrder

\* The screen does nothing to the computer that the life of the restriction in
\* FilterRecovery.tla does not allow.
LEMMA ScreenStepsRecover ==
  ASSUME ScreenTypeOK, ThreadAndTool, [ScreenNext]_allVars
  PROVE  [RecoverNext]_recoverVars
<1>1. CASE Drives
  BY <1>1 DEF Drives, RecoverNext, UsbNext, lifeVars
<1>2. CASE Tool
  BY <1>2 DEF Tool, RecoverNext
<1>3. CASE ThreadRun
  <2>1. thread \in Threads
    BY DEF ScreenTypeOK
  <2>2. /\ thread.win \in Installs /\ thread.key \in Letters \cup {NoLetter}
        /\ (~thread.restoration) \in BOOLEAN
    BY <1>3, <2>1 DEF ThreadRun, ThreadAndTool
  <2> QED
    BY <1>3, <2>2 DEF ThreadRun, RecoverNext
<1>4. CASE Reboot
  BY <1>4 DEF Reboot, RecoverNext
<1>5. CASE UNCHANGED recoverVars
  BY <1>5
<1> QED
  BY <1>1, <1>2, <1>3, <1>4, <1>5
  DEF ScreenNext, ThreadStep, ThreadWait, ThreadPost, Finished, SelectTarget,
      CheckClicked, RestoreClicked, ConfirmYes, ConfirmNo, Leave, allVars

\* So the tool keeps its order.
LEMMA RecoverPartStep ==
  ASSUME ScreenTypeOK, ScreenInvariant, [ScreenNext]_allVars
  PROVE  RecoverTypeOK' /\ ToolInOrder' /\ SuccessIsDurable'
<1>1. /\ RecoverTypeOK /\ PairersOnDesktop /\ OneRegisters /\ ScriptInOrder
      /\ ToolInOrder /\ SuccessIsDurable
  BY NoDesktopWork DEF ScreenTypeOK, ScreenInvariant
<1>2. [RecoverNext]_recoverVars
  BY ScreenStepsRecover DEF ScreenInvariant
<1> QED
  BY <1>1, <1>2, RecoverTypeStep, ToolInOrderStep, SuccessIsDurableStep

\* No registration comes back.
LEMMA RemovalStays ==
  ASSUME ScreenTypeOK, ScreenInvariant, [ScreenNext]_allVars,
         NEW w \in Installs, ~hive[w].registered, ~durable[w].registered
  PROVE  ~hive'[w].registered /\ ~durable'[w].registered
<1>1. /\ RecoverTypeOK /\ PairersOnDesktop /\ OneRegisters /\ ScriptInOrder
      /\ ToolInOrder /\ running = PE
  BY NoDesktopWork DEF ScreenTypeOK, ScreenInvariant, OnlyTheScreen
<1>2. [RecoverNext]_recoverVars
  BY ScreenStepsRecover DEF ScreenInvariant
<1>3. ASSUME NEW x \in Installs \cup {PE}, Restart(x)
      PROVE  ~hive'[w].registered /\ ~durable'[w].registered
  BY <1>3 DEF Restart
<1>4. ASSUME \A x \in Installs \cup {PE} : ~Restart(x)
      PROVE  ~hive'[w].registered /\ ~durable'[w].registered
  BY <1>1, <1>2, <1>4, HiveInPE
<1> QED
  BY <1>3, <1>4

\* A running tool does not change what it was started for.
LEMMA ToolKeepsJob ==
  ASSUME RecoverTypeOK, ToolStep
  PROVE  /\ tool.pc # "idle"
         /\ tool'.win = tool.win /\ tool'.letter = tool.letter
         /\ tool'.inspecting = tool.inspecting
<1>0. tool \in [pc : ToolStates, win : Installs \cup {"none"},
                letter : Letters \cup {NoLetter}, inspecting : BOOLEAN,
                exit : {-1, 0, 1}, shown : [1 .. 2 -> Int]]
  BY DEF RecoverTypeOK
<1> USE <1>0 DEF ToolAt, Exit
<1>1. CASE inspectCopy
  BY <1>1 DEF inspectCopy
<1>2. CASE Reauthorize
  BY <1>2 DEF Reauthorize
<1>3. CASE removeRegistration \/ FlushRemoval
  BY <1>3 DEF removeRegistration, FlushRemoval
<1>4. CASE UnloadHive
  BY <1>4 DEF UnloadHive
<1>5. CASE protectedCopy \/ LoadHive \/ ToolFails
  BY <1>5 DEF protectedCopy, LoadHive, ToolFails
<1> QED
  BY <1>1, <1>2, <1>3, <1>4, <1>5 DEF ToolStep

-------------------------------------------------------------------------------
(* The screen. *)

ScreenPart ==
    /\ selected \in Installs \cup {None} /\ thread \in Threads
    /\ busy \in BOOLEAN /\ enabled \in BOOLEAN
    /\ OnlyTheScreen /\ ThreadAndTool /\ OneThread /\ VerifiedIsChecked
    /\ RestoreWasChecked

\* What a thread is before it exists, and after it gave up.
LEMMA NoThreadType ==
  NoThread \in Threads /\ NoThread.pc = "none" /\ ~NoThread.restoration
  BY DEF NoThread, Threads

\* The handlers that start a thread, or fail to.
LEMMA ClickStep ==
  ASSUME ScreenTypeOK, ScreenPart, NEW l \in Letters,
         CheckClicked(l) \/ RestoreClicked(l)
  PROVE  ScreenPart'
<1> USE DEF ScreenPart
<1>0. /\ UNCHANGED <<recoverVars, selected, checked, verifiedKey>>
      /\ verifiedWindows' = None \/ UNCHANGED verifiedWindows
      /\ Usable
  BY DEF CheckClicked, RestoreClicked
<1>1. OnlyTheScreen' /\ UNCHANGED tool /\ VerifiedIsChecked'
  BY <1>0 DEF OnlyTheScreen, VerifiedIsChecked, recoverVars, usbVars, lifeVars
<1>2. CASE UNCHANGED <<buttonVars, thread>>
  BY <1>0, <1>1, <1>2
  DEF ThreadAndTool, SameJob, OneThread, RestoreWasChecked, buttonVars
<1>3. CASE Failed /\ ~busy
  <2>1. thread' = NoThread /\ busy' = FALSE /\ enabled' = TRUE
    BY <1>3 DEF Failed, enable
  <2>2. tool.pc = "idle"
    BY <1>3, NoThreadType DEF OneThread, ThreadAndTool
  <2> QED
    BY <1>0, <1>1, <2>1, <2>2, NoThreadType
    DEF ThreadAndTool, OneThread, RestoreWasChecked
<1>4. ASSUME ~busy, busy' = TRUE, NEW r \in BOOLEAN, ~Rejected(r, l),
             \/ thread' = Job("run", l, r) /\ r = FALSE /\ enabled' = FALSE
             \/ thread' = Job("confirm", l, r) /\ UNCHANGED enabled
                /\ UNCHANGED verifiedWindows
      PROVE  ScreenPart'
  <2>1. tool.pc = "idle"
    BY <1>4, NoThreadType DEF OneThread, ThreadAndTool
  <2>2. selected \in Installs
    BY <1>4 DEF Rejected
  <2>3. /\ thread' \in Threads /\ thread'.win = selected /\ thread'.key = l
        /\ thread'.restoration = r /\ thread'.exit = 1
        /\ thread'.pc \in {"run", "confirm"}
        /\ thread'.pc = "run" => enabled' = FALSE
    BY <1>4, <2>2 DEF Job, Threads
  <2>4. RestoreWasChecked'
    <3>1. CASE r
      <4>1. selected = verifiedWindows /\ l = verifiedKey /\ selected # None
        BY <1>4, <3>1 DEF Rejected
      <4>2. <<selected, l>> = checked
        BY <4>1 DEF VerifiedIsChecked
      <4> QED
        BY <1>0, <2>3, <4>2 DEF RestoreWasChecked
    <3>2. CASE ~r
      BY <2>3, <3>2 DEF RestoreWasChecked
    <3> QED
      BY <3>1, <3>2
  <2>5. ThreadAndTool'
    BY <1>1, <2>1, <2>2, <2>3 DEF ThreadAndTool
  <2>6. OneThread' /\ enabled' \in BOOLEAN
    BY <1>4, <2>3 DEF OneThread
  <2> QED
    BY <1>0, <1>1, <1>4, <2>3, <2>4, <2>5, <2>6
<1> QED
  BY <1>2, <1>3, <1>4 DEF CheckClicked, RestoreClicked, enable, buttonVars

\* The confirmation box.
LEMMA ConfirmStep ==
  ASSUME ScreenTypeOK, ScreenPart, ConfirmYes \/ ConfirmNo
  PROVE  ScreenPart'
<1> USE DEF ScreenPart
<1>0. /\ UNCHANGED <<recoverVars, selected, checked, verifiedKey,
                     verifiedWindows>>
      /\ thread.pc = "confirm" /\ tool.pc = "idle" /\ thread \in Threads
      /\ thread.win \in Installs /\ thread.key \in Letters /\ thread.exit = 1
      /\ busy = TRUE
  <2>1. thread.pc = "confirm"
    BY DEF ConfirmYes, ConfirmNo
  <2> QED
    BY <2>1, NoThreadType
    DEF ConfirmYes, ConfirmNo, choiceVars, ThreadAndTool, OneThread
<1>1. OnlyTheScreen' /\ UNCHANGED tool /\ VerifiedIsChecked'
  BY <1>0 DEF OnlyTheScreen, VerifiedIsChecked, recoverVars, usbVars, lifeVars
<1>2. CASE thread' = NoThread /\ busy' = FALSE /\ enabled' \in BOOLEAN
  BY <1>0, <1>1, <1>2, NoThreadType
  DEF ThreadAndTool, OneThread, RestoreWasChecked
<1>3. CASE /\ thread' = [thread EXCEPT !.pc = "run"]
           /\ UNCHANGED busy /\ enabled' = FALSE
  <2>1. /\ thread' \in Threads /\ thread'.pc = "run"
        /\ thread'.win = thread.win /\ thread'.key = thread.key
        /\ thread'.exit = thread.exit
        /\ thread'.restoration = thread.restoration
    BY <1>0, <1>3 DEF Threads
  <2> QED
    BY <1>0, <1>1, <1>3, <2>1 DEF ThreadAndTool, OneThread, RestoreWasChecked
<1> QED
  BY <1>2, <1>3 DEF ConfirmYes, ConfirmNo, Failed, enable

\* The thread: it starts the tool, waits for it and posts the result.
LEMMA ThreadPartStep ==
  ASSUME ScreenTypeOK, ScreenPart, ThreadStep
  PROVE  ScreenPart'
<1> USE DEF ScreenPart
<1>0. /\ UNCHANGED <<selected, checked, verifiedKey, verifiedWindows, busy,
                     enabled>>
      /\ UNCHANGED <<running, script, pairer>>
      /\ thread.pc \in {"run", "wait", "post"} /\ thread \in Threads
      /\ ~enabled /\ busy = TRUE
  <2>1. thread.pc \in {"run", "wait", "post"}
    BY DEF ThreadStep, ThreadRun, ThreadWait, ThreadPost
  <2>2. UNCHANGED <<running, script, pairer>>
    BY DEF ThreadStep, ThreadRun, ThreadWait, ThreadPost, RunTool, recoverVars,
           usbVars, lifeVars
  <2> QED
    BY <2>1, <2>2, NoThreadType
    DEF ThreadStep, ThreadRun, ThreadWait, ThreadPost, choiceVars, buttonVars,
        OneThread
<1>1. OnlyTheScreen' /\ VerifiedIsChecked'
  BY <1>0 DEF OnlyTheScreen, VerifiedIsChecked
<1>2. CASE ThreadRun
  <2>0. thread.pc = "run" /\ thread.exit = 1 /\ tool.pc = "idle"
    BY <1>2 DEF ThreadRun, ThreadAndTool
  <2>1. CASE /\ RunTool(thread.win, thread.key, ~thread.restoration)
             /\ thread' = [thread EXCEPT !.pc = "wait"]
    <3>1. /\ thread' \in Threads /\ thread'.pc = "wait"
          /\ thread'.win = thread.win /\ thread'.key = thread.key
          /\ thread'.restoration = thread.restoration
      BY <1>0, <2>1 DEF Threads
    <3>2. /\ tool'.win = thread.win /\ tool'.letter = thread.key
          /\ tool'.inspecting = ~thread.restoration
      BY <2>1 DEF RunTool
    <3>3. SameJob'
      BY <3>1, <3>2, Zenon DEF SameJob
    <3> QED
      BY <1>0, <1>1, <3>1, <3>3 DEF ThreadAndTool, OneThread, RestoreWasChecked
  <2>2. CASE thread' = [thread EXCEPT !.pc = "post"] /\ UNCHANGED recoverVars
    <3>1. /\ thread' \in Threads /\ thread'.pc = "post"
          /\ thread'.win = thread.win /\ thread'.key = thread.key
          /\ thread'.restoration = thread.restoration /\ thread'.exit = 1
      BY <1>0, <2>0, <2>2 DEF Threads
    <3>2. UNCHANGED tool
      BY <2>2 DEF recoverVars, lifeVars
    <3> QED
      BY <1>0, <1>1, <2>0, <3>1, <3>2
      DEF ThreadAndTool, OneThread, RestoreWasChecked
  <2> QED
    BY <1>2, <2>1, <2>2 DEF ThreadRun
<1>3. CASE ThreadWait
  <2>0. /\ UNCHANGED tool /\ tool.pc = "idle" /\ tool.exit \in {-1, 0, 1}
        /\ SameJob
    BY <1>3 DEF ThreadWait, ThreadAndTool, recoverVars, lifeVars, ScreenTypeOK,
                RecoverTypeOK
  <2>1. /\ thread' \in Threads /\ thread'.pc = "post"
        /\ thread'.win = thread.win /\ thread'.key = thread.key
        /\ thread'.restoration = thread.restoration
        /\ thread'.exit = tool.exit
    BY <1>0, <1>3, <2>0 DEF ThreadWait, Threads
  <2>2. SameJob'
    BY <2>0, <2>1 DEF SameJob
  <2> QED
    BY <1>0, <1>1, <2>0, <2>1, <2>2
    DEF ThreadAndTool, OneThread, RestoreWasChecked
<1>4. CASE ThreadPost
  <2>0. UNCHANGED tool /\ tool.pc = "idle" /\ thread.pc = "post"
    BY <1>4 DEF ThreadPost, ThreadAndTool, recoverVars, lifeVars
  <2>1. CASE thread' = NoThread
    BY <1>0, <1>1, <2>0, <2>1, NoThreadType
    DEF ThreadAndTool, OneThread, RestoreWasChecked
  <2>2. CASE thread' = [thread EXCEPT !.pc = "posted"]
    <3>1. /\ thread' \in Threads /\ thread'.pc = "posted"
          /\ thread'.win = thread.win /\ thread'.key = thread.key
          /\ thread'.restoration = thread.restoration
          /\ thread'.exit = thread.exit
      BY <1>0, <2>2 DEF Threads
    <3>2. SameJob => SameJob'
      BY <2>0, <3>1 DEF SameJob
    <3> QED
      BY <1>0, <1>1, <2>0, <3>1, <3>2
      DEF ThreadAndTool, OneThread, RestoreWasChecked
  <2> QED
    BY <1>4, <2>1, <2>2 DEF ThreadPost
<1> QED
  BY <1>2, <1>3, <1>4 DEF ThreadStep

\* The result arrives: the pair that may be restored next is the one the tool
\* has just inspected.
LEMMA FinishedStep ==
  ASSUME ScreenTypeOK, ScreenPart, Finished
  PROVE  ScreenPart'
<1> USE DEF ScreenPart
<1>0. /\ UNCHANGED recoverVars /\ UNCHANGED selected
      /\ busy' = FALSE /\ enabled' = TRUE /\ thread' = NoThread
      /\ thread.pc = "posted" /\ tool.pc = "idle" /\ thread \in Threads
  <2>1. thread.pc = "posted"
    BY DEF Finished
  <2> QED
    BY <2>1 DEF Finished, enable, ThreadAndTool
<1>1. OnlyTheScreen' /\ UNCHANGED tool
  BY <1>0 DEF OnlyTheScreen, recoverVars, usbVars, lifeVars
<1>2. VerifiedIsChecked'
  <2>1. CASE thread.exit = 0 /\ ~thread.restoration
    <3>1. /\ tool.win = thread.win /\ tool.letter = thread.key
          /\ tool.exit = 0 /\ tool.inspecting
      BY <1>0, <2>1 DEF ThreadAndTool, SameJob
    <3>2. /\ verifiedWindows' = thread.win /\ verifiedKey' = thread.key
          /\ checked' = <<tool.win, tool.letter>>
      BY <2>1, <3>1 DEF Finished
    <3> QED
      BY <3>1, <3>2 DEF VerifiedIsChecked
  <2>2. CASE ~(thread.exit = 0 /\ ~thread.restoration)
    BY <2>2 DEF Finished, VerifiedIsChecked
  <2> QED
    BY <2>1, <2>2
<1> QED
  BY <1>0, <1>1, <1>2, NoThreadType
  DEF ThreadAndTool, OneThread, RestoreWasChecked

\* Everything else: the drives, the tool, another selection, leaving, and a
\* boot into the screen again.
LEMMA OtherScreenStep ==
  ASSUME ScreenTypeOK, ScreenPart,
         \/ Drives \/ Tool \/ Leave \/ Reboot \/ UNCHANGED allVars
         \/ \E w \in Installs : SelectTarget(w)
  PROVE  ScreenPart'
<1> USE DEF ScreenPart
<1>1. CASE Reboot
  <2>1. /\ selected' \in Installs \cup {None} /\ verifiedWindows' = None
        /\ busy' = FALSE /\ enabled' = TRUE /\ thread' = NoThread
    BY <1>1 DEF Reboot, Opened
  <2>2. /\ OnlyTheScreen' /\ tool' = ToolIdle
    BY <1>1 DEF Reboot, Restart, OnlyTheScreen
  <2> QED
    BY <2>1, <2>2, NoThreadType
    DEF ThreadAndTool, OneThread, RestoreWasChecked, VerifiedIsChecked, ToolIdle
<1>2. ASSUME NEW w \in Installs, SelectTarget(w) PROVE ScreenPart'
  <2>1. /\ UNCHANGED <<running, script, pairer, tool, thread, busy, enabled>>
        /\ selected' = w /\ verifiedWindows' = None
    BY <1>2 DEF SelectTarget, recoverVars, usbVars, lifeVars
  <2>2. thread = NoThread
    <3>1. thread.pc \notin {"confirm", "run", "wait", "post", "posted"}
      BY <1>2 DEF SelectTarget, Usable, OneThread
    <3>2. thread.pc = "none"
      BY <3>1 DEF Threads
    <3> QED
      BY <3>2 DEF ThreadAndTool
  <2> QED
    BY <2>1, <2>2, NoThreadType
    DEF OnlyTheScreen, ThreadAndTool, OneThread, RestoreWasChecked,
        VerifiedIsChecked
<1>3. ASSUME UNCHANGED <<running, script, pairer, choiceVars, buttonVars,
                         thread, checked>>,
             tool' = tool \/ Tool
      PROVE  ScreenPart'
  <2>0. /\ OnlyTheScreen' /\ VerifiedIsChecked' /\ RestoreWasChecked'
        /\ OneThread'
    BY <1>3 DEF OnlyTheScreen, VerifiedIsChecked, RestoreWasChecked, OneThread,
                choiceVars, buttonVars
  <2>1. ThreadAndTool'
    <3>1. CASE tool' = tool
      BY <1>3, <3>1 DEF ThreadAndTool, SameJob
    <3>2. CASE Tool
      <4>1. /\ tool.pc # "idle"
            /\ tool'.win = tool.win /\ tool'.letter = tool.letter
            /\ tool'.inspecting = tool.inspecting
        BY <3>2, ToolKeepsJob DEF Tool, ScreenTypeOK
      <4>2. thread.pc = "wait" /\ SameJob
        BY <4>1 DEF ThreadAndTool
      <4>3. SameJob'
        BY <1>3, <4>1, <4>2 DEF SameJob
      <4> QED
        BY <1>3, <4>2, <4>3 DEF ThreadAndTool
    <3> QED
      BY <1>3, <3>1, <3>2
  <2> QED
    BY <1>3, <2>0, <2>1 DEF choiceVars, buttonVars
<1>4. CASE Tool
  <2>1. UNCHANGED <<running, script, pairer>>
    BY <1>4
    DEF Tool, ToolStep, inspectCopy, protectedCopy, LoadHive, Reauthorize,
        removeRegistration, SetHive, FlushRemoval, UnloadHive, ToolFails,
        usbVars
  <2> QED
    BY <1>3, <1>4, <2>1 DEF Tool, screenVars
<1>5. CASE Drives
  BY <1>3, <1>5 DEF Drives, Insert, Remove, lifeVars, screenVars
<1>6. CASE Leave
  BY <1>3, <1>6 DEF Leave, recoverVars, usbVars, lifeVars
<1>7. CASE UNCHANGED allVars
  BY <1>3, <1>7 DEF allVars, recoverVars, usbVars, lifeVars, screenVars
<1> QED
  BY <1>1, <1>2, <1>4, <1>5, <1>6, <1>7

\* "Recovery complete" is said of a removal that succeeded, and stays true.
LEMMA CompleteStaysStep ==
  ASSUME ScreenTypeOK, ScreenInvariant, [ScreenNext]_allVars
  PROVE  CompleteStays'
<1>0. ThreadAndTool /\ SuccessIsDurable /\ CompleteStays /\ thread \in Threads
  BY DEF ScreenInvariant, ScreenTypeOK
<1>1. \/ UNCHANGED complete \/ complete' = None
      \/ Finished /\ thread.exit = 0 /\ thread.restoration
         /\ complete' = thread.win
  BY DEF ScreenNext, Drives, Tool, ThreadStep, ThreadRun, ThreadWait,
         ThreadPost, Finished, SelectTarget, CheckClicked, RestoreClicked,
         ConfirmYes, ConfirmNo, Leave, Reboot, Opened, allVars, screenVars
<1>2. CASE complete' = None
  BY <1>2 DEF CompleteStays
<1>3. CASE UNCHANGED complete
  BY <1>0, <1>3, RemovalStays DEF CompleteStays
<1>4. CASE /\ Finished /\ thread.exit = 0 /\ thread.restoration
           /\ complete' = thread.win
  <2>1. /\ tool.win = thread.win /\ tool.exit = 0 /\ ~tool.inspecting
    BY <1>0, <1>4 DEF Finished, ThreadAndTool, SameJob
  <2>2. ~durable[thread.win].registered /\ ~hive[thread.win].registered
    BY <1>0, <2>1 DEF SuccessIsDurable
  <2>3. UNCHANGED <<hive, durable>>
    BY <1>4 DEF Finished, recoverVars, usbVars
  <2>4. thread.win \in Installs \cup {None}
    BY <1>0 DEF Threads
  <2> QED
    BY <1>4, <2>2, <2>3, <2>4 DEF CompleteStays
<1> QED
  BY <1>1, <1>2, <1>3, <1>4

-------------------------------------------------------------------------------
(* The theorems. *)

\* The screen comes up with nothing under way.
LEMMA ScreenInvariantInit ==
  ASSUME ScreenInit
  PROVE  ScreenTypeOK /\ ScreenInvariant
<1> USE DEF ScreenInit
<1>1. FoundHives \subseteq Hives
  <2>1. 0 \in 0 .. MaxKeys /\ \A k \in Keys : k \in 0 .. MaxKeys
    BY RecoveryAssumption DEF Keys
  <2>2. SUFFICES ASSUME NEW h \in FoundHives PROVE h \in Hives
    OBVIOUS
  <2>3. CASE \E k \in Keys, r \in BOOLEAN :
                h = [paired |-> TRUE, verifier |-> k, parts |-> Parts,
                     registered |-> r]
    BY <2>1, <2>3 DEF Hives
  <2>4. CASE \E q \in BOOLEAN :
                h = [paired |-> q, verifier |-> 0, parts |-> {},
                     registered |-> FALSE]
    BY <2>1, <2>4 DEF Hives
  <2>5. CASE h = [paired |-> FALSE, verifier |-> 0, parts |-> Parts,
                  registered |-> TRUE]
    BY <2>1, <2>5 DEF Hives
  <2> QED
    BY <2>3, <2>4, <2>5 DEF FoundHives
<1>2. hive \in [Installs -> Hives] /\ durable \in [Installs -> Hives]
  BY <1>1
<1>3. credential \in [Sticks -> Torn .. MaxKeys]
  <2>1. \A s \in Sticks : (IF s \in Keys THEN s ELSE 0) \in Torn .. MaxKeys
    BY RecoveryAssumption DEF Sticks, Keys, Torn
  <2> QED
    BY <2>1
<1>4. UsbTypeOK
  <2>1. /\ drive \in [Letters -> 0 .. MaxSticks] /\ drawn \in 0 .. MaxKeys
    BY RecoveryAssumption
  <2>2. PairIdle \in [pc : PairStates, letter : Letters \cup {NoLetter},
                      stick : 0 .. MaxSticks, key : 0 .. MaxKeys]
    BY RecoveryAssumption DEF PairIdle, PairStates
  <2> QED
    BY <1>2, <1>3, <2>1, <2>2 DEF UsbTypeOK
<1>5. ScreenTypeOK
  BY <1>4, ToolIdleType, NoThreadType
  DEF ScreenTypeOK, RecoverTypeOK, ScriptStates
<1>6. OnlyTheScreen /\ ToolInOrder /\ SuccessIsDurable
  BY DEF OnlyTheScreen, ToolInOrder, SuccessIsDurable, ToolIdle
<1>7. /\ ThreadAndTool /\ OneThread /\ VerifiedIsChecked /\ RestoreWasChecked
      /\ CompleteStays
  BY NoThreadType DEF ThreadAndTool, OneThread, VerifiedIsChecked,
                      RestoreWasChecked, CompleteStays, ToolIdle
<1> QED
  BY <1>5, <1>6, <1>7 DEF ScreenInvariant

\* The inductive invariant of the screen, its thread and the tool it runs.
THEOREM ScreenInvariantHolds ==
  ScreenSpec => [](ScreenTypeOK /\ ScreenInvariant)
<1>1. ScreenInit => ScreenTypeOK /\ ScreenInvariant
  BY ScreenInvariantInit
<1>2. ScreenTypeOK /\ ScreenInvariant /\ [ScreenNext]_allVars =>
         ScreenTypeOK' /\ ScreenInvariant'
  <2> SUFFICES ASSUME ScreenTypeOK, ScreenInvariant, [ScreenNext]_allVars
               PROVE  ScreenTypeOK' /\ ScreenInvariant'
    OBVIOUS
  <2>1. ScreenPart
    BY DEF ScreenTypeOK, ScreenInvariant, ScreenPart
  <2>2. ScreenPart'
    BY <2>1, ClickStep, ConfirmStep, ThreadPartStep, FinishedStep,
       OtherScreenStep DEF ScreenNext
  <2>3. RecoverTypeOK' /\ ToolInOrder' /\ SuccessIsDurable' /\ CompleteStays'
    BY RecoverPartStep, CompleteStaysStep
  <2> QED
    BY <2>2, <2>3 DEF ScreenPart, ScreenTypeOK, ScreenInvariant
<1> QED
  BY <1>1, <1>2, PTL DEF ScreenSpec

\* "Recovery complete" is true when it is shown, and while it is.
THEOREM CompleteIsAlwaysTrue == ScreenSpec => []CompleteIsTrue
<1>1. ScreenTypeOK /\ ScreenInvariant => CompleteIsTrue
  BY DEF ScreenInvariant, CompleteStays, CompleteIsTrue
<1> QED
  BY <1>1, ScreenInvariantHolds, PTL

\* A restoration is only ever run for the pair that was inspected and is on
\* display.
THEOREM RestoresAreChecked == ScreenSpec => []RestoreWasChecked
<1>1. ScreenTypeOK /\ ScreenInvariant => RestoreWasChecked
  BY DEF ScreenInvariant
<1> QED
  BY <1>1, ScreenInvariantHolds, PTL

\* The screen begins to shut down only when neither thread nor tool works.
THEOREM LeavesOnlyIdle == ScreenSpec => NeverLeavesWhileWorking
<1>1. ScreenTypeOK /\ ScreenInvariant /\ [ScreenNext]_allVars =>
         [~leaving /\ leaving' => thread = NoThread /\ tool.pc = "idle"]_allVars
  <2> SUFFICES ASSUME ScreenTypeOK, ScreenInvariant, ScreenNext,
                      ~leaving, leaving'
               PROVE  thread = NoThread /\ tool.pc = "idle"
    OBVIOUS
  <2>1. Leave
    BY DEF ScreenNext, Drives, Tool, ThreadStep, ThreadRun, ThreadWait,
           ThreadPost, Finished, SelectTarget, CheckClicked, RestoreClicked,
           ConfirmYes, ConfirmNo, Reboot, Opened, screenVars
  <2>2. thread = NoThread
    BY <2>1 DEF Leave, ScreenInvariant, OneThread
  <2> QED
    BY <2>2, NoThreadType DEF ScreenInvariant, ThreadAndTool
<1> QED
  BY <1>1, ScreenInvariantHolds, PTL DEF ScreenSpec, NeverLeavesWhileWorking

===============================================================================

---------------------------- MODULE RecoveryScreen ----------------------------
(***************************************************************************)
(* The recovery screen of src/src/recovery_screen.cpp: a window whose      *)
(* message loop starts one detached thread at a time; the thread runs the  *)
(* recovery tool of FilterRecovery.tla as a process, waits for its exit    *)
(* code and posts the result back to the window.  Drives can be inserted,  *)
(* pulled and swapped throughout, also while the confirmation box is open  *)
(* and while the tool is between its two checks.                           *)
(***************************************************************************)
EXTENDS FilterRecovery

None    == "none"   \* the empty string
Nothing == <<None, NoLetter>>

VARIABLES
    selected,       \* current entry of targetBox
    verifiedWindows,
    verifiedKey,
    busy,
    enabled,        \* Check, Targets, Restart and Close are enabled
    restoreEnabled, \* Restore is enabled
    thread,         \* the confirmation box, then the detached thread
    leaving,        \* reboot() was called: wpeutil is shutting down
    complete,       \* the installation "Recovery complete" was shown for
    checked         \* history: the pair the last successful inspection was for

choiceVars == <<selected, verifiedWindows, verifiedKey>>
buttonVars == <<busy, enabled, restoreEnabled>>
screenVars == <<choiceVars, buttonVars, thread, leaving, complete, checked>>
allVars    == <<recoverVars, screenVars>>

NoThread == [pc |-> "none", win |-> None, key |-> NoLetter,
             restoration |-> FALSE, exit |-> 1]

\* WM_CREATE: a single installation is selected for the operator.
Opened ==
    /\ selected' \in IF Cardinality(Installs) = 1 THEN Installs ELSE {None}
    /\ verifiedWindows' = None /\ verifiedKey' = NoLetter
    /\ busy' = FALSE /\ enabled' = TRUE /\ restoreEnabled' = FALSE
    /\ thread' = NoThread
    /\ leaving' = FALSE /\ complete' = None /\ checked' = Nothing

\* The screen comes up in the recovery environment, on a computer whose
\* installations are paired or not, with or without a verifier, restricted or
\* not, or restricted since before there was pairing; with one credential per
\* stick.  How far an activation came besides the registration (parts) is
\* nothing the tool or the screen looks at.
FoundHives ==
    {[paired |-> TRUE, verifier |-> k, parts |-> Parts, registered |-> r] :
        k \in Keys, r \in BOOLEAN} \cup
    {[paired |-> p, verifier |-> 0, parts |-> {}, registered |-> FALSE] :
        p \in BOOLEAN} \cup
    {[paired |-> FALSE, verifier |-> 0, parts |-> Parts, registered |-> TRUE]}

ScreenInit ==
    /\ running = PE
    /\ hive \in [Installs -> FoundHives] /\ durable = hive
    /\ credential = [s \in Sticks |-> IF s \in Keys THEN s ELSE 0]
    /\ drive = [l \in Letters |-> 0]
    /\ drawn = MaxKeys
    /\ pairer = [p \in Pairers |-> PairIdle]
    /\ script = "idle" /\ tool = ToolIdle /\ mounted = {}
    /\ backups = [w \in Installs |-> {}]
    /\ selected \in IF Cardinality(Installs) = 1 THEN Installs ELSE {None}
    /\ verifiedWindows = None /\ verifiedKey = NoLetter
    /\ busy = FALSE /\ enabled = TRUE /\ restoreEnabled = FALSE
    /\ thread = NoThread
    /\ leaving = FALSE /\ complete = None /\ checked = Nothing

-------------------------------------------------------------------------------
\* Input reaches the window: the confirmation box disables its owner.
Usable == thread.pc # "confirm"

\* keyPath(): the letters under which a recovery.key is found; more than one,
\* or none, is an error.
Found == {l \in Letters : readKey(l) # 0}

\* enable(available), after the assignments of the same handler.
enable(available) ==
    /\ enabled' = available
    /\ restoreEnabled' = (available /\ verifiedWindows' # None)

SelectTarget(w) ==
    /\ enabled /\ Usable
    /\ selected' = w
    /\ verifiedWindows' = None
    /\ restoreEnabled' = FALSE
    /\ UNCHANGED <<recoverVars, verifiedKey, busy, enabled, thread, leaving,
                   complete, checked>>

\* Mutant of Rejected: the verified pair is not compared.
RejectedUnverified(restoration, l) ==
    \/ selected = None
    \/ Found # {l}

\* start(): the exchange of busy, the checks, and the thread (or the
\* confirmation box first).  "failed" is the catch clause, also for a thread
\* that cannot be created.
Rejected(restoration, l) ==
    \/ selected = None
    \/ Found # {l}
    \/ restoration /\ (selected # verifiedWindows \/ l # verifiedKey)

Failed ==
    /\ busy' = FALSE
    /\ thread' = NoThread
    /\ enable(TRUE)

Job(pc, l, restoration) ==
    [pc |-> pc, win |-> selected, key |-> l, restoration |-> restoration,
     exit |-> 1]

CheckClicked(l) ==
    /\ enabled /\ Usable
    /\ verifiedWindows' = None
    /\ IF busy THEN UNCHANGED <<buttonVars, thread>>
       ELSE \/ Failed
            \/ /\ ~Rejected(FALSE, l)
               /\ busy' = TRUE
               /\ thread' = Job("run", l, FALSE)
               /\ enable(FALSE)
    /\ UNCHANGED <<recoverVars, selected, verifiedKey, leaving, complete,
                   checked>>

RestoreClicked(l) ==
    /\ restoreEnabled /\ Usable
    /\ UNCHANGED verifiedWindows
    /\ IF busy THEN UNCHANGED <<buttonVars, thread>>
       ELSE \/ (\A m \in Letters : Rejected(TRUE, m)) /\ Failed
            \/ /\ ~Rejected(TRUE, l)
               /\ busy' = TRUE
               /\ thread' = Job("confirm", l, TRUE)
               /\ UNCHANGED <<enabled, restoreEnabled>>
    /\ UNCHANGED <<recoverVars, selected, verifiedKey, leaving, complete,
                   checked>>

ConfirmYes ==
    /\ thread.pc = "confirm"
    /\ UNCHANGED verifiedWindows
    /\ \/ Failed
       \/ /\ thread' = [thread EXCEPT !.pc = "run"]
          /\ enable(FALSE)
          /\ UNCHANGED busy
    /\ UNCHANGED <<recoverVars, selected, verifiedKey, leaving, complete,
                   checked>>

ConfirmNo ==
    /\ thread.pc = "confirm"
    /\ busy' = FALSE
    /\ thread' = NoThread
    /\ UNCHANGED <<recoverVars, choiceVars, enabled, restoreEnabled, leaving,
                   complete, checked>>

-------------------------------------------------------------------------------
(* The detached thread: runTool() and PostMessage. *)

ThreadRun ==
    /\ thread.pc = "run"
    /\ \/ /\ RunTool(thread.win, thread.key, ~thread.restoration)
          /\ thread' = [thread EXCEPT !.pc = "wait"]
       \/ /\ thread' = [thread EXCEPT !.pc = "post"]
          /\ UNCHANGED recoverVars
    /\ UNCHANGED <<choiceVars, buttonVars, leaving, complete, checked>>

\* Mutant of ThreadWait: a failed run is not reported.
ThreadReportsSuccess ==
    /\ thread.pc = "wait" /\ tool.pc = "idle" /\ tool.exit = 0
    /\ thread' = [thread EXCEPT !.pc = "post", !.exit = tool.exit]
    /\ UNCHANGED <<recoverVars, choiceVars, buttonVars, leaving, complete,
                   checked>>

ThreadWait ==
    /\ thread.pc = "wait" /\ tool.pc = "idle"
    /\ thread' = [thread EXCEPT !.pc = "post", !.exit = tool.exit]
    /\ UNCHANGED <<recoverVars, choiceVars, buttonVars, leaving, complete,
                   checked>>

\* A result that cannot be posted is deleted, and nothing else happens.
ThreadPost ==
    /\ thread.pc = "post"
    /\ thread' \in {[thread EXCEPT !.pc = "posted"], NoThread}
    /\ UNCHANGED <<recoverVars, choiceVars, buttonVars, leaving, complete,
                   checked>>

ThreadStep == ThreadRun \/ ThreadWait \/ ThreadPost

Finished ==
    /\ thread.pc = "posted"
    /\ busy' = FALSE
    /\ LET ok == thread.exit = 0
       IN  /\ IF ok /\ ~thread.restoration
              THEN /\ verifiedWindows' = thread.win
                   /\ verifiedKey' = thread.key
              ELSE verifiedWindows' = None /\ UNCHANGED verifiedKey
           /\ complete' = IF ok /\ thread.restoration THEN thread.win ELSE None
           /\ checked' = IF tool.exit = 0 /\ tool.inspecting
                         THEN <<tool.win, tool.letter>>
                         ELSE checked
    /\ enable(TRUE)
    /\ thread' = NoThread
    /\ UNCHANGED <<recoverVars, selected, leaving>>

\* Mutant of Leave: busy is not tested.
LeaveAnytime ==
    /\ Usable
    /\ leaving' = TRUE
    /\ UNCHANGED <<recoverVars, choiceVars, buttonVars, thread, complete,
                   checked>>

\* Restart, Shut down, and WM_CLOSE, which no disabled button prevents.
Leave ==
    /\ Usable
    /\ ~busy
    /\ leaving' = TRUE
    /\ UNCHANGED <<recoverVars, choiceVars, buttonVars, thread, complete,
                   checked>>

\* The computer goes down, because it was asked to or without warning, and
\* the operator boots the recovery screen again.
Reboot == Restart(PE) /\ Opened

-------------------------------------------------------------------------------
Drives ==
    /\ \/ \E s \in Sticks, l \in Letters : Insert(s, l)
       \/ \E l \in Letters : Remove(l)
    /\ UNCHANGED <<lifeVars, screenVars>>

Tool == ToolStep /\ UNCHANGED screenVars

ScreenNext ==
    \/ Drives
    \/ Tool
    \/ ThreadStep
    \/ Finished
    \/ \E w \in Installs : SelectTarget(w)
    \/ \E l \in Letters : CheckClicked(l) \/ RestoreClicked(l)
    \/ ConfirmYes \/ ConfirmNo
    \/ Leave
    \/ Reboot

ScreenSpec == ScreenInit /\ [][ScreenNext]_allVars

\* The tool and the thread are scheduled, and the window's thread returns to
\* its message loop; the operator owes nothing.
ScreenFairness ==
    WF_allVars(Tool) /\ WF_allVars(ThreadStep) /\ WF_allVars(Finished)

FairScreenSpec == ScreenSpec /\ ScreenFairness

-------------------------------------------------------------------------------
(* Properties. *)

\* A restoration runs only for a pair of installation and drive letter that
\* the last successful inspection was for, and for the installation that is
\* on display.
RestoreWasChecked ==
    thread.restoration =>
        <<thread.win, thread.key>> = checked /\ thread.win = selected

\* The screen never shuts the computer down while the tool may have the hive
\* of an installation loaded, nor before its result was shown.
NeverLeavesWhileWorking ==
    [][~leaving /\ leaving' => thread = NoThread /\ tool.pc = "idle"]_allVars

\* "Recovery complete" is shown only when the registration is gone from the
\* file of that installation's hive, and stays true while it is shown.
CompleteIsTrue ==
    complete # None => ~durable[complete].registered

\* The thread is gone and the window still waits for it: PostMessage failed.
ResultDropped == busy /\ thread = NoThread

\* A check or restoration that was started ends with its result on display
\* and the buttons usable again, unless its result could not be posted.
ScreenComesBack ==
    thread.pc \in {"run", "wait", "post", "posted"} ~>
        (enabled /\ ~busy) \/ ResultDropped

===============================================================================

---------------------------- MODULE FilterRecovery ----------------------------
(***************************************************************************)
(* The life of the desktop restriction of an installation: the activation  *)
(* script src/tools/enable-desktop-key-required.ps1 on the desktop, and    *)
(* swa_filter_recovery (src/src/filter_recovery.cpp) run from the recovery *)
(* environment, over the hives and drives of RecoveryUsb.tla.  The computer *)
(* can be restarted, or lose power, between any two steps of any of them.  *)
(***************************************************************************)
EXTENDS RecoveryUsb, DesktopFilter

VARIABLES
    script,     \* where the activation script is
    tool,       \* the recover() run in the recovery environment
    mounted,    \* installations whose hive file the recovery tool has loaded
    backups     \* per installation: was the filter registered in each backup

lifeVars    == <<script, tool, mounted, backups>>
recoverVars == <<usbVars, lifeVars>>

\* exit is the code of the last run, -1 while there is none.  shown: the
\* credentials read while the run had only looked at a copy of the hive, and
\* while it had the hive loaded (history, never read by the code).
ToolIdle == [pc |-> "idle", win |-> "none", letter |-> NoLetter,
             inspecting |-> FALSE, exit |-> -1, shown |-> <<0, 0>>]

RecoverInit ==
    /\ UsbInit
    /\ script = "idle"
    /\ tool = ToolIdle
    /\ mounted = {}
    /\ backups = [w \in Installs |-> {}]

-------------------------------------------------------------------------------
(* The activation script, run by an administrator on the running desktop.   *)

ScriptFrom(from, to) == script = from /\ script' = to

SetHive(w, h) ==
    /\ hive' = [hive EXCEPT ![w] = h]
    /\ UNCHANGED <<running, durable, credential, drive, drawn, pairer>>

\* All checks up to the staging directory: none of the three registry keys
\* may exist, and --check-usb must succeed.  The checks that concern nothing
\* modelled here (hashes, accounts, inventory) make the script stop instead.
ActivateStart(l) ==
    /\ running # PE
    /\ LET h == hive[running]
       IN  ~h.registered /\ h.parts \cap {"config", "class"} = {}
    /\ authorize(running, l)
    /\ ScriptFrom("idle", "configure")
    /\ UNCHANGED <<usbVars, tool, mounted, backups>>

\* The DLL is staged and verified, then the configuration key and its values
\* are created; a failure on the way leaves what was created before it.
ActivateConfigure ==
    /\ \/ /\ ScriptFrom("configure", "class")
          /\ SetHive(running, [hive[running] EXCEPT !.parts = @ \cup
                                                        {"config", "mode"}])
       \/ /\ ScriptFrom("configure", "idle")
          /\ SetHive(running, [hive[running] EXCEPT !.parts = @ \cup
                                                        {"config"}])
       \/ ScriptFrom("configure", "idle") /\ UNCHANGED usbVars
    /\ UNCHANGED <<tool, mounted, backups>>

ActivateClass ==
    /\ \/ /\ ScriptFrom("class", "register")
          /\ SetHive(running, [hive[running] EXCEPT !.parts = @ \cup
                                                        {"class"}])
       \/ ScriptFrom("class", "idle") /\ UNCHANGED usbVars
    /\ UNCHANGED <<tool, mounted, backups>>

\* The registration is the last key created.
ActivateRegister ==
    /\ \/ /\ ScriptFrom("register", "verify")
          /\ SetHive(running, [hive[running] EXCEPT !.registered = TRUE])
       \/ ScriptFrom("register", "idle") /\ UNCHANGED usbVars
    /\ UNCHANGED <<tool, mounted, backups>>

\* The provider is hashed once more.  On any error the script takes back the
\* registration, and nothing else; that may fail, too.
ActivateVerify ==
    /\ \/ ScriptFrom("verify", "idle") /\ UNCHANGED usbVars
       \/ /\ ScriptFrom("verify", "idle")
          /\ SetHive(running, [hive[running] EXCEPT !.registered = FALSE])
    /\ UNCHANGED <<tool, mounted, backups>>

\* configuredMode() of the filter: the script writes Version before Mode.
configuredMode(h) == IF "mode" \in h.parts THEN "require" ELSE "none"

Activate ==
    \/ \E l \in Letters : ActivateStart(l)
    \/ ActivateConfigure \/ ActivateClass \/ ActivateRegister
    \/ ActivateVerify

-------------------------------------------------------------------------------
(* recover(): --inspect-usb and --remove-filter. *)

ToolAt(pc) == running = PE /\ tool.pc = pc

\* authorizeRecovery(): a paired installation needs its credential; an
\* unpaired one accepts none, and nothing to inspect.
authorizeRecovery(w, l, inspecting) ==
    IF hive[w].paired THEN authorize(w, l)
                      ELSE l = NoLetter /\ ~inspecting

Exit(code) == [tool EXCEPT !.pc = "idle", !.exit = code]

RunTool(w, l, inspecting) ==
    /\ running = PE
    /\ tool.pc = "idle"
    /\ inspecting => l # NoLetter
    /\ tool' = [pc |-> "inspect", win |-> w, letter |-> l,
                inspecting |-> inspecting, exit |-> -1, shown |-> <<0, 0>>]
    /\ UNCHANGED <<usbVars, script, mounted, backups>>

\* inspectCopy(): nothing of the target is written.  The file of a loaded
\* hive cannot be copied.  An inspection ends here.
inspectCopy ==
    /\ ToolAt("inspect")
    /\ tool.win \notin mounted
    /\ authorizeRecovery(tool.win, tool.letter, tool.inspecting)
    /\ tool' = [(IF tool.inspecting THEN Exit(0)
                                    ELSE [tool EXCEPT !.pc = "backup"])
                EXCEPT !.shown[1] = readKey(tool.letter)]
    /\ UNCHANGED <<usbVars, script, mounted, backups>>

\* protectedCopy() into the target's config directory.
protectedCopy ==
    /\ ToolAt("backup")
    /\ backups' = [backups EXCEPT ![tool.win] =
                        @ \cup {durable[tool.win].registered}]
    /\ tool' = [tool EXCEPT !.pc = "load"]
    /\ UNCHANGED <<usbVars, script, mounted>>

LoadHive ==
    /\ ToolAt("load")
    /\ mounted' = mounted \cup {tool.win}
    /\ tool' = [tool EXCEPT !.pc = "authorize"]
    /\ UNCHANGED <<usbVars, script, backups>>

\* Mutant of Reauthorize: the first check is trusted.
TrustFirstCheck ==
    /\ ToolAt("authorize")
    /\ tool' = [tool EXCEPT !.pc = "remove"]
    /\ UNCHANGED <<usbVars, script, mounted, backups>>

\* The structure check, and the credential once more.
Reauthorize ==
    /\ ToolAt("authorize")
    /\ tool' = [tool EXCEPT
                  !.pc = IF authorizeRecovery(tool.win, tool.letter, FALSE)
                         THEN "remove" ELSE "abort",
                  !.shown[2] = readKey(tool.letter)]
    /\ UNCHANGED <<usbVars, script, mounted, backups>>

\* Mutant of removeRegistration: a refusal is taken for an absent key.
RefusalTakenForAbsence ==
    /\ ToolAt("remove")
    /\ tool' = [tool EXCEPT !.pc = "unload"]
    /\ UNCHANGED <<usbVars, script, mounted, backups>>

\* removeRegistration(): RegDeleteKey, which finds the key, or does not, or
\* refuses; then RegFlushKey.
removeRegistration ==
    /\ ToolAt("remove")
    /\ \/ /\ hive[tool.win].registered
          /\ SetHive(tool.win, [hive[tool.win] EXCEPT !.registered = FALSE])
          /\ tool' = [tool EXCEPT !.pc = "flush"]
       \/ /\ ~hive[tool.win].registered
          /\ tool' = [tool EXCEPT !.pc = "unload"]
          /\ UNCHANGED usbVars
       \/ /\ tool' = [tool EXCEPT !.pc = "abort"]
          /\ UNCHANGED usbVars
    /\ UNCHANGED <<script, mounted, backups>>

FlushRemoval ==
    /\ ToolAt("flush")
    /\ \/ /\ durable' = [durable EXCEPT ![tool.win] = hive[tool.win]]
          /\ tool' = [tool EXCEPT !.pc = "unload"]
       \/ /\ tool' = [tool EXCEPT !.pc = "abort"]
          /\ UNCHANGED durable
    /\ UNCHANGED <<running, hive, credential, drive, drawn, pairer, script,
                   mounted, backups>>

\* RegUnLoadKey writes the hive back; if it fails the hive stays loaded and
\* the run reports an error, whatever it did before.
UnloadHive ==
    /\ ToolAt("unload") \/ ToolAt("abort")
    /\ \/ /\ mounted' = mounted \ {tool.win}
          /\ durable' = [durable EXCEPT ![tool.win] = hive[tool.win]]
          /\ tool' = Exit(IF tool.pc = "unload" THEN 0 ELSE 1)
       \/ /\ tool' = Exit(1)
          /\ UNCHANGED <<mounted, durable>>
    /\ UNCHANGED <<running, hive, credential, drive, drawn, pairer, script,
                   backups>>

\* An error before the hive is loaded: missing files, no privilege, wrong or
\* missing credential, a copy or the load fails.
ToolFails ==
    /\ ToolAt("inspect") \/ ToolAt("backup") \/ ToolAt("load")
    /\ tool' = Exit(1)
    /\ UNCHANGED <<usbVars, script, mounted, backups>>

ToolStep ==
    \/ inspectCopy \/ protectedCopy \/ LoadHive \/ Reauthorize
    \/ removeRegistration \/ FlushRemoval \/ UnloadHive \/ ToolFails

-------------------------------------------------------------------------------
\* The computer restarts into x, in the middle of whatever it was doing.
\* Either Windows wrote its hives back, or the power failed.
Restart(x) ==
    /\ running' = x
    /\ \/ durable' = hive /\ UNCHANGED hive
       \/ hive' = durable /\ UNCHANGED durable
    /\ pairer' = [p \in Pairers |-> PairIdle]
    /\ script' = "idle"
    /\ tool' = ToolIdle
    /\ mounted' = {}
    /\ UNCHANGED <<credential, drive, drawn, backups>>

RecoverNext ==
    \/ UsbNext /\ UNCHANGED lifeVars
    \/ Activate
    \/ \E w \in Installs, l \in Letters \cup {NoLetter}, i \in BOOLEAN :
          RunTool(w, l, i)
    \/ ToolStep
    \/ \E x \in Installs \cup {PE} : Restart(x)

RecoverSpec == RecoverInit /\ [][RecoverNext]_recoverVars

-------------------------------------------------------------------------------
(* Properties. *)

\* An installation never has the restriction without the way out of it: its
\* pairing is complete and the credential is on a stick.  This holds in the
\* file of the hive as well, so also after a power failure in the middle of
\* pairing or activation.
RestrictedIsRecoverable ==
    \A w \in Installs \ Legacy : \A h \in {hive[w], durable[w]} :
        h.registered => h.verifier # 0 /\ OnStick(h.verifier)

\* A filter that is registered is in force: LogonUI finds its class, and no
\* local sign-in or unlock screen offers a PIN, password or other convenience
\* provider, not even when the key provider is missing from the list or was
\* excluded by another filter.  (A list above the filter's limit is outside the
\* claim: the filter leaves it alone.)  An activation that is cut short leaves no
\* registered filter that lets them through, in memory or in the file.
RegisteredFilterHides ==
    \A w \in Installs \ Legacy : \A h \in {hive[w], durable[w]} :
        h.registered =>
            "class" \in h.parts /\ configuredMode(h) \in RequiringModes

\* Once an installation has a verifier no second pairing, concurrent or
\* later, replaces it; only a power failure can undo one that was not
\* written back, and then no success was reported for it.
PairingNotReplaced ==
    [][\A w \in Installs :
          /\ durable[w].verifier # 0 =>
                durable'[w].verifier = durable[w].verifier
          /\ hive[w].verifier # 0 /\ hive'[w].verifier # hive[w].verifier =>
                /\ hive'[w].verifier = 0
                /\ \A p \in Pairers : ~PairAt(p, "paired")]_recoverVars

\* In the recovery environment nothing of a paired installation is written
\* before its credential was read: no backup, no load.  The registration is
\* removed only if the credential was read again with the hive loaded, so
\* pulling or swapping the stick after the first check stops the removal.
TargetTouchedOnlyAuthorized ==
    [][\A w \in Installs :
          running = PE /\ hive[w].paired =>
            /\ backups'[w] # backups[w] \/ (w \in mounted' /\ w \notin mounted)
                  => hive[w].verifier = tool.shown[1]
            /\ hive[w].registered /\ ~hive'[w].registered /\ running' = PE
               /\ w \in mounted'
                  => hive[w].verifier = tool.shown[2]]_recoverVars

\* When --remove-filter reports success, the registration is gone from the
\* file of the hive and the hive is not left loaded: a power failure right
\* after the report changes nothing.
SuccessIsDurable ==
    tool.exit = 0 /\ ~tool.inspecting =>
        /\ ~durable[tool.win].registered /\ ~hive[tool.win].registered
        /\ tool.win \notin mounted

===============================================================================

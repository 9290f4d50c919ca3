----------------------------- MODULE Installation -----------------------------
(***************************************************************************)
(* Registering the provider with Windows: tools/install-provider.ps1 and   *)
(* tools/unregister-provider.ps1, beside the enrolments whose receipt the  *)
(* installer asks for.  One of the two scripts runs at a time, any command *)
(* of theirs may throw, and they may be killed or lose power between two   *)
(* commands.  The registry is written back as a whole, sooner or later.    *)
(* The preferences that historical updates saved, which the unregister     *)
(* script restores first, are left out.                                    *)
(***************************************************************************)
EXTENDS Enrollment

VARIABLES
    script,     \* what the running script does next
    files,      \* the installation directory
    registry,   \* the provider's two keys: COM class and registration
    saved       \* the same in the file of the hive

installVars == <<script, files, registry, saved>>

\* "bare": the class key without its InprocServer32 and its path.
Empty == [class |-> "none", registered |-> FALSE]

InstallInit ==
    /\ Init
    /\ script = "idle"
    /\ files = "none"
    /\ registry = Empty
    /\ saved = Empty

From(a, b) == script = a /\ script' = b

-------------------------------------------------------------------------------
(* install-provider.ps1 *)

\* The receipt of a validated account, the tested binaries, and no trace of
\* an earlier installation; otherwise the script has not begun.
InstallStart ==
    /\ From("idle", "copy")
    /\ receipt # None
    /\ registry = Empty /\ files = "none"
    /\ UNCHANGED <<files, registry, saved>>

\* Directory, files, their hashes, and the contract check of the copy.  What
\* was copied stays when one of them fails.
CopyFiles ==
    /\ \/ From("copy", "class") /\ files' = "verified"
       \/ From("copy", "idle") /\ files' = "unverified"
    /\ UNCHANGED <<registry, saved>>

CreateClass ==
    /\ \/ From("class", "server") /\ registry' = [registry EXCEPT !.class = "bare"]
       \/ From("class", "idle") /\ UNCHANGED registry
    /\ UNCHANGED <<files, saved>>

\* From here on an exception is caught, and what was created is removed.
CreateServer ==
    /\ \/ /\ From("server", "register")
          /\ registry' = [registry EXCEPT !.class = "complete"]
       \/ From("server", "remove class") /\ UNCHANGED registry
    /\ UNCHANGED <<files, saved>>

Register ==
    /\ \/ /\ From("register", "report")
          /\ registry' = [registry EXCEPT !.registered = TRUE]
       \/ From("register", "remove class") /\ UNCHANGED registry
    /\ UNCHANGED <<files, saved>>

\* The registration's text and the installer's own report.
Report ==
    /\ From("report", "idle") \/ From("report", "remove registration")
    /\ UNCHANGED <<files, registry, saved>>

-------------------------------------------------------------------------------
(* unregister-provider.ps1, and the removals of the installer's catch block: *)
(* the registration first.                                                   *)

UnregisterStart ==
    /\ From("idle", "remove registration")
    /\ UNCHANGED <<files, registry, saved>>

\* Mutant of RemoveRegistration: the class is removed first.
RemoveClassFirst ==
    /\ \/ /\ From("remove registration", "remove class")
          /\ registry' = [registry EXCEPT !.class = "none"]
       \/ From("remove registration", "idle") /\ UNCHANGED registry
    /\ UNCHANGED <<files, saved>>

RemoveRegistration ==
    /\ \/ /\ From("remove registration", "remove class")
          /\ registry' = [registry EXCEPT !.registered = FALSE]
       \/ From("remove registration", "idle") /\ UNCHANGED registry
    /\ UNCHANGED <<files, saved>>

RemoveClass ==
    /\ From("remove class", "idle")
    /\ \/ registry' = [registry EXCEPT !.class = "none"]
       \/ UNCHANGED registry
    /\ UNCHANGED <<files, saved>>

-------------------------------------------------------------------------------
(* The environment. *)

KillScript ==
    /\ script # "idle" /\ script' = "idle"
    /\ UNCHANGED <<files, registry, saved>>

WriteBack ==
    /\ saved' = registry
    /\ UNCHANGED <<script, files, registry>>

\* The files were hashed, not flushed.
LosePower ==
    /\ PowerLoss
    /\ script' = "idle"
    /\ registry' = saved
    /\ files' \in {files, IF files = "none" THEN "none" ELSE "unflushed"}
    /\ UNCHANGED saved

ScriptStep ==
    \/ InstallStart \/ CopyFiles \/ CreateClass \/ CreateServer \/ Register
    \/ Report
    \/ UnregisterStart \/ RemoveRegistration \/ RemoveClass
    \/ KillScript \/ WriteBack

InstallNext ==
    \/ ((\E s \in Sessions : SessionStep(s)) \/ ChangePin) /\ UNCHANGED installVars
    \/ ScriptStep /\ UNCHANGED vars
    \/ LosePower

InstallSpec == InstallInit /\ [][InstallNext]_<<vars, installVars>>

-------------------------------------------------------------------------------
(* Properties. *)

\* A provider Windows loads, now or after a power failure, can be loaded and
\* can sign in: its class is complete, its files were verified, and the
\* account has a whole profile that each of two keys opens.  No interrupted
\* installation or removal, and no competing enrolment, leaves it otherwise.
RegisteredCanSignIn ==
    \A r \in {registry, saved} :
        r.registered =>
            /\ r.class = "complete"
            /\ files \in {"verified", "unflushed"}
            /\ Loadable
            /\ \E k, l \in Keys :
                  /\ k # l
                  /\ {k, l} = {rec.key : rec \in Range(profile.records)}
                  /\ unlockAccount(profile.records, k) # None
                  /\ unlockAccount(profile.records, l) # None

===============================================================================

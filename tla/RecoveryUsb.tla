----------------------------- MODULE RecoveryUsb ------------------------------
(***************************************************************************)
(* The paired recovery USB of src/src/recovery_usb.cpp: how a Windows       *)
(* installation gets its verifier (pairUsb) and how a credential file is    *)
(* matched against it (authorize).  Several elevated pairUsb processes may  *)
(* run at once, drives come and go between any two of their steps, and the  *)
(* power can fail between any two of them.                                  *)
(*                                                                          *)
(* The SOFTWARE hive of an installation is a record; durable is what its    *)
(* file holds.  Windows writes the hive back as a whole, on RegFlushKey, on *)
(* unloading, on a clean shutdown or on its own account.  A credential is   *)
(* the number of the random draw that made it; its SHA-256 digest stands    *)
(* for the same number.                                                     *)
(***************************************************************************)
EXTENDS Integers, FiniteSets

\* A definition marked as a mutant is a deliberately wrong variant of the one
\* that follows it, used by no specification.

CONSTANTS
    Installs,   \* Windows installations of the computer
    Letters,    \* drive letters a removable drive can appear under
    MaxSticks,  \* bound: removable drives
    MaxKeys,    \* bound: credentials ever drawn
    Pairers,    \* concurrent runs of swa_filter_recovery --pair-usb
    Legacy      \* installations that had the filter before any pairing

ASSUME RecoveryAssumption ==
    /\ MaxSticks \in Nat \ {0} /\ MaxKeys \in Nat \ {0}
    /\ "PE" \notin Installs /\ "none" \notin Letters
    /\ Legacy \subseteq Installs

PE       == "PE"    \* the recovery environment, as the running system
NoLetter == "none"  \* no key file argument
Sticks   == 1 .. MaxSticks
Keys     == 1 .. MaxKeys
Torn     == -1      \* a recovery.key that was created but not fully written

\* What an activation of the desktop restriction leaves in the hive besides
\* the registration: the configuration key, its mode value, the COM class.
Parts == {"config", "mode", "class"}
Hives == [paired : BOOLEAN, verifier : 0 .. MaxKeys, parts : SUBSET Parts,
          registered : BOOLEAN]

VARIABLES
    running,    \* the booted system: an installation, or PE
    hive,       \* SOFTWARE hive as programs see it
    durable,    \* SOFTWARE hive as its file holds it
    credential, \* content of recovery.key on each stick: 0 if there is none
    drive,      \* the stick behind each letter, or 0
    drawn,      \* number of credentials drawn so far
    pairer      \* the --pair-usb processes

usbVars == <<running, hive, durable, credential, drive, drawn, pairer>>

PairIdle == [pc |-> "idle", letter |-> NoLetter, stick |-> 0, key |-> 0]

NewHive(w) == [paired |-> FALSE, verifier |-> 0, parts |-> {},
               registered |-> w \in Legacy]

UsbInit ==
    /\ running \in Installs
    /\ hive = [w \in Installs |-> NewHive(w)]
    /\ durable = hive
    /\ credential = [s \in Sticks |-> 0]
    /\ drive = [l \in Letters |-> 0]
    /\ drawn = 0
    /\ pairer = [p \in Pairers |-> PairIdle]

-------------------------------------------------------------------------------
\* readKey: what the file behind letter l contains, 0 if there is none.
readKey(l) == IF l = NoLetter \/ drive[l] = 0 THEN 0 ELSE credential[drive[l]]

\* Mutant of authorize: a missing record is not an error.
AuthorizeWithoutRecord(w, l) == readKey(l) = hive[w].verifier

\* authorize(): the record is complete, and the file's digest is the
\* verifier.  An incomplete file fails the size test.
authorize(w, l) == hive[w].verifier # 0 /\ readKey(l) = hive[w].verifier

\* The operator's hands.
Insert(s, l) ==
    /\ drive[l] = 0 /\ \A m \in Letters : drive[m] # s
    /\ drive' = [drive EXCEPT ![l] = s]
    /\ UNCHANGED <<running, hive, durable, credential, drawn, pairer>>

Remove(l) ==
    /\ drive[l] # 0
    /\ drive' = [drive EXCEPT ![l] = 0]
    /\ UNCHANGED <<running, hive, durable, credential, drawn, pairer>>

\* Windows writes a changed hive back on its own account.
LazyFlush(w) ==
    /\ durable[w] # hive[w]
    /\ durable' = [durable EXCEPT ![w] = hive[w]]
    /\ UNCHANGED <<running, hive, credential, drive, drawn, pairer>>

-------------------------------------------------------------------------------
(* pairUsb().  Every step may also fail, which ends the process where it is: *)
(* PairFails.                                                                *)

PairAt(p, pc) == pairer[p].pc = pc

PairGoto(p, pc) == pairer' = [pairer EXCEPT ![p].pc = pc]

\* On a desktop, not in the recovery environment; no pairing yet; the
\* directory is on a drive that is there; a fresh credential is drawn.
PairStart(p, l) ==
    /\ PairAt(p, "idle")
    /\ running # PE
    /\ ~hive[running].paired
    /\ drive[l] # 0
    /\ drawn < MaxKeys
    /\ drawn' = drawn + 1
    /\ pairer' = [pairer EXCEPT ![p] = [pc |-> "create", letter |-> l,
                                        stick |-> 0, key |-> drawn + 1]]
    /\ UNCHANGED <<running, hive, durable, credential, drive>>

\* Mutant of PairCreate: an existing recovery.key is overwritten.
PairCreateAlways(p) ==
    LET s == drive[pairer[p].letter]
    IN  /\ PairAt(p, "create")
        /\ s # 0
        /\ credential' = [credential EXCEPT ![s] = Torn]
        /\ pairer' = [pairer EXCEPT ![p].pc = "write", ![p].stick = s]
        /\ UNCHANGED <<running, hive, durable, drive, drawn>>

\* CREATE_NEW: never over an existing recovery.key.
PairCreate(p) ==
    LET l == pairer[p].letter
        s == drive[l]
    IN  /\ PairAt(p, "create")
        /\ s # 0 /\ credential[s] = 0
        /\ credential' = [credential EXCEPT ![s] = Torn]
        /\ pairer' = [pairer EXCEPT ![p].pc = "write", ![p].stick = s]
        /\ UNCHANGED <<running, hive, durable, drive, drawn>>

\* The write through the open handle succeeds only while the stick is there.
PairWrite(p) ==
    LET s == pairer[p].stick
    IN  /\ PairAt(p, "write")
        /\ drive[pairer[p].letter] = s
        /\ credential' = [credential EXCEPT ![s] = pairer[p].key]
        /\ PairGoto(p, "readback")
        /\ UNCHANGED <<running, hive, durable, drive, drawn>>

PairReadBack(p) ==
    /\ PairAt(p, "readback")
    /\ readKey(pairer[p].letter) = pairer[p].key
    /\ PairGoto(p, "register")
    /\ UNCHANGED <<running, hive, durable, credential, drive, drawn>>

\* Mutant of PairRegister: an existing key is accepted.
PairRegisterOpened(p) ==
    /\ PairAt(p, "register")
    /\ hive' = [hive EXCEPT ![running].paired = TRUE]
    /\ PairGoto(p, "record")
    /\ UNCHANGED <<running, durable, credential, drive, drawn>>

\* RegCreateKeyEx with REG_CREATED_NEW_KEY: another process may have been
\* faster since PairStart looked.
PairRegister(p) ==
    /\ PairAt(p, "register")
    /\ ~hive[running].paired
    /\ hive' = [hive EXCEPT ![running].paired = TRUE]
    /\ PairGoto(p, "record")
    /\ UNCHANGED <<running, durable, credential, drive, drawn>>

PairRecord(p) ==
    /\ PairAt(p, "record")
    /\ hive' = [hive EXCEPT ![running].verifier = pairer[p].key]
    /\ PairGoto(p, "flush")
    /\ UNCHANGED <<running, durable, credential, drive, drawn>>

\* Mutant of PairFlush.
PairNoFlush(p) ==
    /\ PairAt(p, "flush")
    /\ PairGoto(p, "confirm")
    /\ UNCHANGED <<running, hive, durable, credential, drive, drawn>>

PairFlush(p) ==
    /\ PairAt(p, "flush")
    /\ durable' = [durable EXCEPT ![running] = hive[running]]
    /\ PairGoto(p, "confirm")
    /\ UNCHANGED <<running, hive, credential, drive, drawn>>

\* "Recovery USB paired and read-back verified."
PairConfirm(p) ==
    /\ PairAt(p, "confirm")
    /\ authorize(running, pairer[p].letter)
    /\ PairGoto(p, "paired")
    /\ UNCHANGED <<running, hive, durable, credential, drive, drawn>>

PairFails(p) ==
    /\ pairer[p].pc \notin {"idle", "paired"}
    /\ pairer' = [pairer EXCEPT ![p] = PairIdle]
    /\ UNCHANGED <<running, hive, durable, credential, drive, drawn>>

PairExit(p) ==
    /\ PairAt(p, "paired")
    /\ pairer' = [pairer EXCEPT ![p] = PairIdle]
    /\ UNCHANGED <<running, hive, durable, credential, drive, drawn>>

PairStep(p) ==
    \/ PairCreate(p) \/ PairWrite(p) \/ PairReadBack(p) \/ PairRegister(p)
    \/ PairRecord(p) \/ PairFlush(p) \/ PairConfirm(p)
    \/ PairFails(p) \/ PairExit(p)

UsbNext ==
    \/ \E s \in Sticks, l \in Letters : Insert(s, l)
    \/ \E l \in Letters : Remove(l)
    \/ \E w \in Installs : LazyFlush(w)
    \/ \E p \in Pairers, l \in Letters : PairStart(p, l)
    \/ \E p \in Pairers : PairStep(p)

-------------------------------------------------------------------------------
(* Properties. *)

PairStates == {"idle", "create", "write", "readback", "register", "record",
               "flush", "confirm", "paired"}

UsbTypeOK ==
    /\ running \in Installs \cup {PE}
    /\ hive \in [Installs -> Hives]
    /\ durable \in [Installs -> Hives]
    /\ credential \in [Sticks -> Torn .. MaxKeys]
    /\ drive \in [Letters -> 0 .. MaxSticks]
    /\ drawn \in 0 .. MaxKeys
    /\ pairer \in [Pairers -> [pc : PairStates,
                               letter : Letters \cup {NoLetter},
                               stick : 0 .. MaxSticks, key : 0 .. MaxKeys]]

OnStick(k) == \E s \in Sticks : credential[s] = k

\* Windows never holds a verifier whose credential is not completely on some
\* stick: not with two pairings at once, not when a drive is pulled between
\* two steps, and not after a power failure.
VerifierHasCredential ==
    \A w \in Installs : \A h \in {hive[w], durable[w]} :
        h.verifier # 0 => h.paired /\ OnStick(h.verifier)

\* A run that reported success did pair: the verifier of its own credential
\* is in the file of the hive.
ReportedPairingIsDurable ==
    \A p \in Pairers :
        PairAt(p, "paired") =>
            /\ durable[running].verifier = pairer[p].key
            /\ OnStick(pairer[p].key)

===============================================================================

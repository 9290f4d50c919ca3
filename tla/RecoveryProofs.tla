---------------------------- MODULE RecoveryProofs ----------------------------
(***************************************************************************)
(* Proofs about RecoveryUsb.tla and FilterRecovery.tla: for any number of  *)
(* installations, drives, sticks, credentials and concurrent pairings, an  *)
(* installation is never restricted without the way out of it.             *)
(***************************************************************************)
EXTENDS FilterRecovery, TLAPS

ToolStates   == {"idle", "inspect", "backup", "load", "authorize", "remove",
                 "flush", "unload", "abort"}
ScriptStates == {"idle", "configure", "class", "register", "verify"}

RecoverTypeOK ==
    /\ UsbTypeOK
    /\ script \in ScriptStates
    /\ tool \in [pc : ToolStates, win : Installs \cup {"none"},
                 letter : Letters \cup {NoLetter}, inspecting : BOOLEAN,
                 exit : {-1, 0, 1}, shown : [1 .. 2 -> Int]]
    /\ mounted \subseteq Installs
    /\ backups \in [Installs -> SUBSET BOOLEAN]

-------------------------------------------------------------------------------
(* The inductive invariant. *)

Written    == {"readback", "register", "record", "flush", "confirm", "paired"}
Registered == {"record", "flush", "confirm", "paired"}

\* Pairing runs on a desktop and with a credential of its own.
PairersOnDesktop ==
    \A p \in Pairers : pairer[p].pc # "idle" =>
        /\ running \in Installs
        /\ pairer[p].letter \in Letters /\ pairer[p].key \in Keys

\* The stick a pairing is writing has an incomplete file, and no other pairing
\* writes it: no complete credential is ever overwritten.
WritesOwnFile ==
    \A p \in Pairers : PairAt(p, "write") =>
        /\ pairer[p].stick \in Sticks
        /\ credential[pairer[p].stick] = Torn
        /\ \A q \in Pairers :
              PairAt(q, "write") /\ pairer[q].stick = pairer[p].stick => q = p

\* A credential that was written stays on its stick.
WrittenIsOnStick ==
    \A p \in Pairers : pairer[p].pc \in Written => OnStick(pairer[p].key)

\* Of the pairings under way one at most created the record, and what it has
\* done so far is in the hive.
OneRegisters ==
    \A p \in Pairers : pairer[p].pc \in Registered =>
        /\ hive[running].paired
        /\ \A q \in Pairers : pairer[q].pc \in Registered => q = p
        /\ PairAt(p, "record") => hive[running].verifier = 0
        /\ ~PairAt(p, "record") => hive[running].verifier = pairer[p].key
        /\ pairer[p].pc \in {"confirm", "paired"} =>
              durable[running].verifier = pairer[p].key

\* A verifier that reached the file is the one in memory.
FileFollowsMemory ==
    \A w \in Installs :
        durable[w].verifier # 0 => hive[w].verifier = durable[w].verifier

\* Only the running system can have a verifier that is not in its file yet.
OthersAreWritten ==
    \A w \in Installs : w # running => hive[w].verifier = durable[w].verifier

\* The activation script runs on a desktop that has a verifier, and the
\* registration comes last.
ScriptInOrder ==
    script # "idle" =>
        /\ running \in Installs
        /\ hive[running].verifier # 0
        /\ script # "configure" => "mode" \in hive[running].parts
        /\ script \in {"register", "verify"} => "class" \in hive[running].parts

\* What a registered filter was registered after.
RegisteredIsWhole ==
    \A w \in Installs \ Legacy : \A h \in {hive[w], durable[w]} :
        h.registered => /\ h.verifier # 0
                        /\ "mode" \in h.parts /\ "class" \in h.parts

\* The recovery tool runs in the recovery environment.  It goes on to the
\* backup, and to the removal, only with the credential.
ToolInOrder ==
    /\ tool # ToolIdle => running = PE /\ tool.win \in Installs
    /\ tool.pc # "idle" => tool.exit = -1
    /\ tool.pc \in {"backup", "load"} /\ hive[tool.win].paired =>
          hive[tool.win].verifier = tool.shown[1]
    /\ tool.pc = "remove" /\ hive[tool.win].paired =>
          hive[tool.win].verifier = tool.shown[2]
    /\ tool.pc \in {"flush", "unload"} => ~hive[tool.win].registered

RecoverInvariant ==
    /\ PairersOnDesktop
    /\ WritesOwnFile
    /\ WrittenIsOnStick
    /\ OneRegisters
    /\ FileFollowsMemory
    /\ OthersAreWritten
    /\ VerifierHasCredential
    /\ ScriptInOrder
    /\ RegisteredIsWhole
    /\ ToolInOrder
    /\ SuccessIsDurable

-------------------------------------------------------------------------------
(* Types. *)

\* A restarted tool has its type.
LEMMA ToolIdleType ==
  ToolIdle \in [pc : ToolStates, win : Installs \cup {"none"},
                letter : Letters \cup {NoLetter}, inspecting : BOOLEAN,
                exit : {-1, 0, 1}, shown : [1 .. 2 -> Int]]
  BY DEF ToolIdle, ToolStates

\* A function updated at one point, of its domain or not, keeps its type.
LEMMA ExceptType ==
  ASSUME NEW D, NEW R, NEW f \in [D -> R], NEW x, NEW v \in R
  PROVE  [f EXCEPT ![x] = v] \in [D -> R]
<1>1. CASE x \in D
  BY <1>1
<1>2. CASE x \notin D
  BY <1>2
<1> QED
  BY <1>1, <1>2

\* A hive in which a pairing changes one value is a hive.
LEMMA PairedHive ==
  ASSUME NEW h \in Hives
  PROVE  /\ [h EXCEPT !.paired = TRUE] \in Hives
         /\ \A k \in 0 .. MaxKeys : [h EXCEPT !.verifier = k] \in Hives
<1>1. [h EXCEPT !.paired = TRUE] \in Hives
  BY DEF Hives
<1>2. ASSUME NEW k \in 0 .. MaxKeys PROVE [h EXCEPT !.verifier = k] \in Hives
  BY DEF Hives
<1> QED
  BY <1>1, <1>2

\* The steps of the drives and of the pairings keep the types.
LEMMA UsbTypeStep ==
  ASSUME UsbTypeOK, PairersOnDesktop, UsbNext
  PROVE  UsbTypeOK'
<1> USE RecoveryAssumption
    DEF UsbTypeOK, Hives, Sticks, Keys, Torn, PairStates, PairAt, PairGoto
<1>1. ASSUME NEW s \in Sticks, NEW l \in Letters, Insert(s, l) PROVE UsbTypeOK'
  BY <1>1 DEF Insert
<1>2. ASSUME NEW l \in Letters, Remove(l) PROVE UsbTypeOK'
  BY <1>2 DEF Remove
<1>3. ASSUME NEW w \in Installs, LazyFlush(w) PROVE UsbTypeOK'
  BY <1>3 DEF LazyFlush
<1>4. ASSUME NEW p \in Pairers, NEW l \in Letters, PairStart(p, l)
      PROVE  UsbTypeOK'
  BY <1>4 DEF PairStart
<1>5. ASSUME NEW p \in Pairers, PairStep(p) PROVE UsbTypeOK'
  <2>1. CASE PairCreate(p)
    <3>1. drive[pairer[p].letter] \in 0 .. MaxSticks
      BY <2>1 DEF PairCreate, PairersOnDesktop
    <3>2. credential' \in [Sticks -> Torn .. MaxKeys]
      BY <2>1, ExceptType DEF PairCreate
    <3>3. pairer' = [pairer EXCEPT ![p] =
                        [pairer[p] EXCEPT !.pc = "write",
                                          !.stick = drive[pairer[p].letter]]]
      BY <2>1 DEF PairCreate
    <3>4. pairer' \in [Pairers -> [pc : PairStates,
                                   letter : Letters \cup {NoLetter},
                                   stick : 0 .. MaxSticks, key : 0 .. MaxKeys]]
      BY <3>1, <3>3
    <3> QED
      BY <2>1, <3>2, <3>4 DEF PairCreate
  <2>2. CASE PairWrite(p)
    <3>0. pairer[p].key \in Torn .. MaxKeys
      OBVIOUS
    <3>1. credential' \in [Sticks -> Torn .. MaxKeys]
      BY <2>2, <3>0, ExceptType DEF PairWrite
    <3> QED
      BY <2>2, <3>1 DEF PairWrite
  <2>3. CASE PairReadBack(p)
    BY <2>3 DEF PairReadBack
  <2>4. CASE PairRegister(p)
    <3>1. hive' \in [Installs -> Hives]
      <4>1. running \in Installs
        BY <2>4 DEF PairRegister, PairersOnDesktop
      <4> DEFINE h == [hive[running] EXCEPT !.paired = TRUE]
      <4>2. h \in Hives
        <5>1. hive[running] \in Hives /\ pairer[p].key \in 0 .. MaxKeys
          BY <4>1
        <5> HIDE DEF Hives
        <5> QED
          BY <5>1, PairedHive
      <4>3. hive' = [hive EXCEPT ![running] = h]
        BY <2>4 DEF PairRegister
      <4> HIDE DEF h, Hives
      <4> QED
        BY <4>1, <4>2, <4>3, ExceptType
    <3>2. pairer' \in [Pairers -> [pc : PairStates,
                                   letter : Letters \cup {NoLetter},
                                   stick : 0 .. MaxSticks, key : 0 .. MaxKeys]]
      BY <2>4 DEF PairRegister
    <3> QED
      BY <2>4, <3>1, <3>2 DEF PairRegister
  <2>5. CASE PairRecord(p)
    <3>1. hive' \in [Installs -> Hives]
      <4>1. running \in Installs
        BY <2>5 DEF PairRecord, PairersOnDesktop
      <4> DEFINE h == [hive[running] EXCEPT !.verifier = pairer[p].key]
      <4>2. h \in Hives
        <5>1. hive[running] \in Hives /\ pairer[p].key \in 0 .. MaxKeys
          BY <4>1
        <5> HIDE DEF Hives
        <5> QED
          BY <5>1, PairedHive
      <4>3. hive' = [hive EXCEPT ![running] = h]
        BY <2>5 DEF PairRecord
      <4> HIDE DEF h, Hives
      <4> QED
        BY <4>1, <4>2, <4>3, ExceptType
    <3>2. pairer' \in [Pairers -> [pc : PairStates,
                                   letter : Letters \cup {NoLetter},
                                   stick : 0 .. MaxSticks, key : 0 .. MaxKeys]]
      BY <2>5 DEF PairRecord
    <3> QED
      BY <2>5, <3>1, <3>2 DEF PairRecord
  <2>6. CASE PairFlush(p)
    BY <2>6 DEF PairFlush
  <2>7. CASE PairConfirm(p)
    BY <2>7 DEF PairConfirm
  <2>8. CASE PairFails(p)
    BY <2>8 DEF PairFails, PairIdle
  <2>9. CASE PairExit(p)
    BY <2>9 DEF PairExit, PairIdle
  <2> QED
    BY <1>5, <2>1, <2>2, <2>3, <2>4, <2>5, <2>6, <2>7, <2>8, <2>9 DEF PairStep
<1> QED
  BY <1>1, <1>2, <1>3, <1>4, <1>5 DEF UsbNext

\* Writing a hive keeps the types, and so does leaving all as it is.
LEMMA SetHiveType ==
  ASSUME UsbTypeOK, NEW w, NEW h \in Hives,
         SetHive(w, h) \/ UNCHANGED usbVars
  PROVE  UsbTypeOK'
  BY ExceptType DEF UsbTypeOK, SetHive, usbVars

\* A hive with other parts, or another registration, is a hive.
LEMMA HiveUpdate ==
  ASSUME NEW h \in Hives, NEW P \in SUBSET Parts, NEW b \in BOOLEAN
  PROVE  /\ [h EXCEPT !.parts = @ \cup P] \in Hives
         /\ [h EXCEPT !.registered = b] \in Hives
  BY DEF Hives

\* The activation script changes the hive of the running system only.
LEMMA ActivateTypeStep ==
  ASSUME RecoverTypeOK, ScriptInOrder, Activate
  PROVE  RecoverTypeOK'
<1> USE DEF RecoverTypeOK, ScriptStates, ScriptFrom
<1>1. ASSUME NEW l \in Letters, ActivateStart(l) PROVE RecoverTypeOK'
  BY <1>1 DEF ActivateStart, usbVars, UsbTypeOK
<1>2. CASE ActivateConfigure \/ ActivateClass \/ ActivateRegister
           \/ ActivateVerify
  <2>1. /\ script' \in ScriptStates
        /\ UNCHANGED <<tool, mounted, backups>>
    BY <1>2 DEF ActivateConfigure, ActivateClass, ActivateRegister,
                ActivateVerify
  <2>2. hive[running] \in Hives
    BY <1>2 DEF ActivateConfigure, ActivateClass, ActivateRegister,
                ActivateVerify, ScriptInOrder, UsbTypeOK
  <2>3. \/ \E P \in SUBSET Parts :
              SetHive(running, [hive[running] EXCEPT !.parts = @ \cup P])
        \/ \E b \in BOOLEAN :
              SetHive(running, [hive[running] EXCEPT !.registered = b])
        \/ UNCHANGED usbVars
    <3>1. /\ {"config", "mode"} \in SUBSET Parts
          /\ {"config"} \in SUBSET Parts /\ {"class"} \in SUBSET Parts
      BY DEF Parts
    <3> QED
      BY <1>2, <3>1, Zenon DEF ActivateConfigure, ActivateClass,
                               ActivateRegister, ActivateVerify
  <2> QED
    BY <2>1, <2>2, <2>3, HiveUpdate, SetHiveType
<1> QED
  BY <1>1, <1>2 DEF Activate

\* What can be read from a drive, or not.
LEMMA ReadKeyType ==
  ASSUME UsbTypeOK, NEW l \in Letters \cup {NoLetter}
  PROVE  readKey(l) \in Int
  BY RecoveryAssumption DEF UsbTypeOK, readKey, Sticks, Torn

\* The recovery tool keeps the types.
LEMMA ToolTypeStep ==
  ASSUME RecoverTypeOK, ToolInOrder, ToolStep
  PROVE  RecoverTypeOK'
<1> USE DEF RecoverTypeOK, ToolAt, Exit
<1>0. running = PE /\ tool.win \in Installs /\ readKey(tool.letter) \in Int
  <2>1. tool.pc # "idle" /\ running = PE
    BY DEF ToolStep, inspectCopy, protectedCopy, LoadHive, Reauthorize,
           removeRegistration, FlushRemoval, UnloadHive, ToolFails
  <2> QED
    BY <2>1, ReadKeyType DEF ToolInOrder, ToolIdle
<1>1. CASE inspectCopy
  BY <1>0, <1>1 DEF inspectCopy, usbVars, UsbTypeOK, ToolStates
<1>2. CASE protectedCopy
  BY <1>0, <1>2 DEF protectedCopy, usbVars, UsbTypeOK, Hives, ToolStates
<1>3. CASE LoadHive
  BY <1>0, <1>3 DEF LoadHive, usbVars, UsbTypeOK, ToolStates
<1>4. CASE Reauthorize
  BY <1>0, <1>4 DEF Reauthorize, usbVars, UsbTypeOK, ToolStates
<1>5. CASE removeRegistration
  <2>1. hive[tool.win] \in Hives
    BY <1>0 DEF UsbTypeOK
  <2>2. \/ SetHive(tool.win, [hive[tool.win] EXCEPT !.registered = FALSE])
        \/ UNCHANGED usbVars
    BY <1>5 DEF removeRegistration
  <2>3. UsbTypeOK'
    BY <2>1, <2>2, HiveUpdate, SetHiveType
  <2> QED
    BY <1>5, <2>3 DEF removeRegistration, ToolStates
<1>6. CASE FlushRemoval
  BY <1>0, <1>6 DEF FlushRemoval, UsbTypeOK, ToolStates
<1>7. CASE UnloadHive
  BY <1>0, <1>7 DEF UnloadHive, UsbTypeOK, ToolStates
<1>8. CASE ToolFails
  BY <1>0, <1>8 DEF ToolFails, usbVars, UsbTypeOK, ToolStates
<1> QED
  BY <1>1, <1>2, <1>3, <1>4, <1>5, <1>6, <1>7, <1>8 DEF ToolStep

\* Every step keeps the types.
LEMMA RecoverTypeStep ==
  ASSUME RecoverTypeOK, PairersOnDesktop, ScriptInOrder, ToolInOrder,
         [RecoverNext]_recoverVars
  PROVE  RecoverTypeOK'
<1>1. CASE UsbNext /\ UNCHANGED lifeVars
  BY <1>1, UsbTypeStep DEF RecoverTypeOK, lifeVars
<1>2. ASSUME NEW w \in Installs, NEW l \in Letters \cup {NoLetter},
             NEW i \in BOOLEAN, RunTool(w, l, i)
      PROVE  RecoverTypeOK'
  BY <1>2 DEF RunTool, RecoverTypeOK, usbVars, UsbTypeOK, ToolStates
<1>3. ASSUME NEW x \in Installs \cup {PE}, Restart(x) PROVE RecoverTypeOK'
  BY <1>3, ToolIdleType, RecoveryAssumption
  DEF Restart, RecoverTypeOK, UsbTypeOK, PairIdle, PairStates, ScriptStates
<1>4. CASE UNCHANGED recoverVars
  BY <1>4 DEF recoverVars, usbVars, lifeVars, RecoverTypeOK, UsbTypeOK
<1> QED
  BY <1>1, <1>2, <1>3, <1>4, ActivateTypeStep, ToolTypeStep DEF RecoverNext

\* The initial values have their types.
LEMMA RecoverTypeInit == RecoverInit => RecoverTypeOK
<1> SUFFICES ASSUME RecoverInit PROVE RecoverTypeOK
  OBVIOUS
<1>1. hive \in [Installs -> Hives]
  BY RecoveryAssumption DEF RecoverInit, UsbInit, NewHive, Hives, Parts
<1> QED
  BY <1>1, ToolIdleType, RecoveryAssumption
  DEF RecoverInit, UsbInit, RecoverTypeOK, UsbTypeOK, PairIdle, PairStates,
      ScriptStates, Sticks, Torn

-------------------------------------------------------------------------------
(* The pairing.  The steps as they look on the hives, the sticks and the    *)
(* pairing processes: only these matter to it.                              *)

Quiet == UNCHANGED <<running, hive, durable, credential, pairer>>

\* A hive is written without its pairing.
Marks == /\ hive' \in [Installs -> Hives]
         /\ \A w \in Installs : /\ hive'[w].paired = hive[w].paired
                                /\ hive'[w].verifier = hive[w].verifier
         /\ UNCHANGED <<running, durable, credential, pairer>>

Saves(w) == /\ durable' = [durable EXCEPT ![w] = hive[w]]
            /\ UNCHANGED <<running, hive, credential, pairer>>

\* A pairing process gives up, or ends.
Ends(p) == /\ pairer' = [pairer EXCEPT ![p] = PairIdle]
           /\ UNCHANGED <<running, hive, durable, credential>>

Begins(p, l) == /\ pairer' = [pairer EXCEPT ![p] =
                                [pc |-> "create", letter |-> l, stick |-> 0,
                                 key |-> drawn + 1]]
                /\ running \in Installs /\ drawn + 1 \in Keys
                /\ PairAt(p, "idle")
                /\ UNCHANGED <<running, hive, durable, credential>>

Pairs(p) == \/ PairCreate(p) \/ PairWrite(p) \/ PairReadBack(p)
            \/ PairRegister(p) \/ PairRecord(p) \/ PairFlush(p)
            \/ PairConfirm(p)

\* Every step is of one of these kinds.
LEMMA UsbKinds ==
  ASSUME RecoverTypeOK, ScriptInOrder, ToolInOrder, [RecoverNext]_recoverVars
  PROVE  \/ Quiet \/ Marks
         \/ \E w \in Installs : Saves(w)
         \/ \E p \in Pairers : Ends(p) \/ Pairs(p)
         \/ \E p \in Pairers, l \in Letters : Begins(p, l)
         \/ \E x \in Installs \cup {PE} : Restart(x)
<1> USE DEF Quiet
<1>0. ASSUME NEW w \in Installs, NEW P \in SUBSET Parts, NEW b \in BOOLEAN,
             \/ SetHive(w, [hive[w] EXCEPT !.parts = @ \cup P])
             \/ SetHive(w, [hive[w] EXCEPT !.registered = b])
      PROVE  Marks
  <2>1. hive \in [Installs -> Hives]
    BY DEF RecoverTypeOK, UsbTypeOK
  <2>2. PICK h \in Hives : /\ SetHive(w, h)
                           /\ h.paired = hive[w].paired
                           /\ h.verifier = hive[w].verifier
    <3>1. hive[w] \in Hives
      BY <2>1
    <3>2. /\ [hive[w] EXCEPT !.parts = @ \cup P] \in Hives
          /\ [hive[w] EXCEPT !.registered = b] \in Hives
      BY <3>1, HiveUpdate
    <3>3. /\ [hive[w] EXCEPT !.parts = @ \cup P].paired = hive[w].paired
          /\ [hive[w] EXCEPT !.parts = @ \cup P].verifier = hive[w].verifier
          /\ [hive[w] EXCEPT !.registered = b].paired = hive[w].paired
          /\ [hive[w] EXCEPT !.registered = b].verifier = hive[w].verifier
      BY <3>1 DEF Hives
    <3> QED
      BY <1>0, <3>2, <3>3
  <2> QED
    BY <2>1, <2>2 DEF SetHive, Marks
<1>1. CASE UsbNext
  <2>1. ASSUME NEW p \in Pairers, PairStep(p) PROVE Ends(p) \/ Pairs(p)
    BY <2>1 DEF PairStep, Pairs, PairFails, PairExit, Ends
  <2>2. ASSUME NEW p \in Pairers, NEW l \in Letters, PairStart(p, l)
        PROVE  Begins(p, l)
    BY <2>2, RecoveryAssumption
    DEF PairStart, Begins, RecoverTypeOK, UsbTypeOK, Keys
  <2>3. ASSUME NEW w \in Installs, LazyFlush(w) PROVE Saves(w)
    BY <2>3 DEF LazyFlush, Saves
  <2>4. ASSUME NEW l \in Letters, NEW s \in Sticks, Insert(s, l) \/ Remove(l)
        PROVE  Quiet
    BY <2>4 DEF Insert, Remove
  <2> QED
    BY <1>1, <2>1, <2>2, <2>3, <2>4, RecoveryAssumption DEF UsbNext, Sticks
<1>2. CASE Activate
  <2>1. running \in Installs \/ \E l \in Letters : ActivateStart(l)
    BY <1>2 DEF Activate, ActivateConfigure, ActivateClass, ActivateRegister,
                ActivateVerify, ScriptFrom, ScriptInOrder
  <2>2. /\ {"config", "mode"} \in SUBSET Parts
        /\ {"config"} \in SUBSET Parts /\ {"class"} \in SUBSET Parts
    BY DEF Parts
  <2> QED
    BY <1>0, <1>2, <2>1, <2>2
    DEF Activate, ActivateStart, ActivateConfigure, ActivateClass,
        ActivateRegister, ActivateVerify, usbVars
<1>3. CASE ToolStep
  <2>1. tool.win \in Installs
    BY <1>3 DEF ToolStep, inspectCopy, protectedCopy, LoadHive, Reauthorize,
                removeRegistration, FlushRemoval, UnloadHive, ToolFails,
                ToolAt, ToolInOrder, ToolIdle
  <2>2. CASE removeRegistration
    BY <1>0, <2>1, <2>2 DEF removeRegistration, usbVars
  <2> QED
    BY <1>3, <2>1, <2>2
    DEF ToolStep, inspectCopy, protectedCopy, LoadHive, Reauthorize,
        FlushRemoval, UnloadHive, ToolFails, usbVars, Saves
<1>4. ASSUME NEW w \in Installs, NEW l \in Letters \cup {NoLetter},
             NEW i \in BOOLEAN, RunTool(w, l, i)
      PROVE  Quiet
  BY <1>4 DEF RunTool, usbVars
<1> QED
  BY <1>1, <1>2, <1>3, <1>4 DEF RecoverNext, recoverVars, usbVars

\* A complete credential stays on its stick: CREATE_NEW never opens an
\* existing file, so a pairing only ever writes over its own incomplete one.
LEMMA CredentialsStay ==
  ASSUME RecoverTypeOK, PairersOnDesktop, WritesOwnFile, ScriptInOrder,
         ToolInOrder, [RecoverNext]_recoverVars,
         NEW s \in Sticks, credential[s] \in Keys
  PROVE  credential'[s] = credential[s]
<1>0. credential \in [Sticks -> Int] /\ 0 \notin Keys /\ Torn \notin Keys
  BY RecoveryAssumption DEF RecoverTypeOK, UsbTypeOK, Keys, Torn
<1>1. ASSUME NEW p \in Pairers, Pairs(p) PROVE credential'[s] = credential[s]
  <2>1. CASE PairCreate(p)
    BY <1>0, <2>1 DEF PairCreate
  <2>2. CASE PairWrite(p)
    BY <1>0, <2>2 DEF PairWrite, WritesOwnFile
  <2> QED
    BY <1>1, <2>1, <2>2 DEF Pairs, PairReadBack, PairRegister, PairRecord,
                            PairFlush, PairConfirm
<1> QED
  BY <1>1, UsbKinds DEF Quiet, Marks, Saves, Ends, Begins, Restart

\* The components of a pairing process.
LEMMA PairerFields ==
  ASSUME RecoverTypeOK, NEW p \in Pairers
  PROVE  /\ pairer \in [Pairers -> [pc : PairStates,
                                    letter : Letters \cup {NoLetter},
                                    stick : 0 .. MaxSticks,
                                    key : 0 .. MaxKeys]]
         /\ pairer[p].pc \in PairStates
         /\ pairer[p].key \in 0 .. MaxKeys /\ pairer[p].stick \in 0 .. MaxSticks
  BY DEF RecoverTypeOK, UsbTypeOK

\* What a step of a pairing does to the processes: its own counter moves, and
\* PairCreate notes the stick.
LEMMA PairsMoves ==
  ASSUME RecoverTypeOK, NEW p \in Pairers, Pairs(p)
  PROVE  /\ \A q \in Pairers : q # p => pairer'[q] = pairer[q]
         /\ pairer'[p].letter = pairer[p].letter
         /\ pairer'[p].key = pairer[p].key
         /\ pairer[p].pc # "idle"
         /\ \/ PairCreate(p) /\ pairer'[p].pc = "write"
               /\ pairer'[p].stick = drive[pairer[p].letter]
            \/ PairWrite(p) /\ pairer'[p].pc = "readback"
            \/ PairReadBack(p) /\ pairer'[p].pc = "register"
            \/ PairRegister(p) /\ pairer'[p].pc = "record"
            \/ PairRecord(p) /\ pairer'[p].pc = "flush"
            \/ PairFlush(p) /\ pairer'[p].pc = "confirm"
            \/ PairConfirm(p) /\ pairer'[p].pc = "paired"
<1> USE PairerFields DEF PairAt, PairGoto
<1>1. CASE PairCreate(p)
  BY <1>1 DEF PairCreate
<1>2. CASE ~PairCreate(p)
  BY <1>2 DEF Pairs, PairWrite, PairReadBack, PairRegister, PairRecord,
              PairFlush, PairConfirm
<1> QED
  BY <1>1, <1>2

\* Pairing happens on a desktop: a restart ends every process.
LEMMA PairersOnDesktopStep ==
  ASSUME RecoverTypeOK, PairersOnDesktop, ScriptInOrder, ToolInOrder,
         [RecoverNext]_recoverVars
  PROVE  PairersOnDesktop'
<1> USE DEF PairersOnDesktop
<1>1. ASSUME NEW p \in Pairers, Pairs(p) PROVE PairersOnDesktop'
  <2>1. UNCHANGED running
    BY <1>1 DEF Pairs, PairCreate, PairWrite, PairReadBack, PairRegister,
                PairRecord, PairFlush, PairConfirm
  <2> QED
    BY <1>1, <2>1, PairsMoves
<1>2. ASSUME NEW p \in Pairers, Ends(p) PROVE PairersOnDesktop'
  BY <1>2, PairerFields DEF Ends, PairIdle
<1>3. ASSUME NEW p \in Pairers, NEW l \in Letters, Begins(p, l)
      PROVE  PairersOnDesktop'
  BY <1>3, PairerFields DEF Begins
<1>4. ASSUME NEW x \in Installs \cup {PE}, Restart(x) PROVE PairersOnDesktop'
  BY <1>4 DEF Restart, PairIdle
<1> QED
  BY <1>1, <1>2, <1>3, <1>4, UsbKinds DEF Quiet, Marks, Saves

\* Two pairings on one stick: the second does not get past CREATE_NEW.
LEMMA WritesOwnFileStep ==
  ASSUME RecoverTypeOK, PairersOnDesktop, WritesOwnFile, ScriptInOrder,
         ToolInOrder, [RecoverNext]_recoverVars
  PROVE  WritesOwnFile'
<1> USE DEF WritesOwnFile, PairAt
<1>0. /\ credential \in [Sticks -> Int]
      /\ drive \in [Letters -> 0 .. MaxSticks]
      /\ \A n \in 0 .. MaxSticks : n # 0 => n \in Sticks
  BY RecoveryAssumption DEF RecoverTypeOK, UsbTypeOK, Torn, Sticks
<1>1. ASSUME NEW p \in Pairers, Pairs(p) PROVE WritesOwnFile'
  <2>1. CASE PairCreate(p)
    <3>1. /\ pairer[p].letter \in Letters
          /\ drive[pairer[p].letter] \in Sticks
          /\ credential[drive[pairer[p].letter]] = 0
          /\ credential' = [credential EXCEPT ![drive[pairer[p].letter]] = Torn]
      BY <1>0, <2>1 DEF PairCreate, PairersOnDesktop
    <3>2. \A q \in Pairers : PairAt(q, "write") =>
             pairer[q].stick # drive[pairer[p].letter]
      BY <3>1 DEF Torn
    <3>3. /\ pairer'[p].stick = drive[pairer[p].letter]
          /\ \A q \in Pairers : q # p => pairer'[q] = pairer[q]
      BY <1>1, <2>1, PairsMoves DEF PairCreate, PairWrite, PairReadBack,
         PairRegister, PairRecord, PairFlush, PairConfirm
    <3> QED
      BY <1>0, <3>1, <3>2, <3>3
  <2>2. CASE PairWrite(p)
    <3>1. /\ \A q \in Pairers : q # p => pairer'[q] = pairer[q]
          /\ pairer'[p].pc = "readback"
      BY <1>1, <2>2, PairsMoves DEF PairCreate, PairWrite, PairReadBack,
         PairRegister, PairRecord, PairFlush, PairConfirm
    <3>2. credential' = [credential EXCEPT ![pairer[p].stick] = pairer[p].key]
      BY <2>2 DEF PairWrite
    <3> QED
      BY <1>0, <2>2, <3>1, <3>2 DEF PairWrite
  <2>3. CASE ~PairCreate(p) /\ ~PairWrite(p)
    <3>1. /\ \A q \in Pairers : q # p => pairer'[q] = pairer[q]
          /\ pairer'[p].pc # "write"
      BY <1>1, <2>3, PairsMoves
    <3>2. UNCHANGED credential
      BY <1>1, <2>3 DEF Pairs, PairReadBack, PairRegister, PairRecord,
                        PairFlush, PairConfirm
    <3> QED
      BY <3>1, <3>2
  <2> QED
    BY <2>1, <2>2, <2>3
<1>2. ASSUME NEW p \in Pairers, Ends(p) PROVE WritesOwnFile'
  BY <1>2, PairerFields DEF Ends, PairIdle
<1>3. ASSUME NEW p \in Pairers, NEW l \in Letters, Begins(p, l)
      PROVE  WritesOwnFile'
  BY <1>3, PairerFields DEF Begins
<1>4. ASSUME NEW x \in Installs \cup {PE}, Restart(x) PROVE WritesOwnFile'
  BY <1>4 DEF Restart, PairIdle
<1> QED
  BY <1>1, <1>2, <1>3, <1>4, UsbKinds DEF Quiet, Marks, Saves

\* The credential a pairing wrote is there from PairWrite on.
LEMMA WrittenIsOnStickStep ==
  ASSUME RecoverTypeOK, PairersOnDesktop, WritesOwnFile, WrittenIsOnStick,
         ScriptInOrder, ToolInOrder, [RecoverNext]_recoverVars
  PROVE  WrittenIsOnStick'
<1> USE DEF Written
<1>0. ASSUME NEW q \in Pairers, pairer[q].pc \in Written,
             pairer'[q].key = pairer[q].key
      PROVE  OnStick(pairer[q].key)'
  <2>1. pairer[q].key \in Keys /\ OnStick(pairer[q].key)
    BY <1>0 DEF PairersOnDesktop, WrittenIsOnStick
  <2>2. OnStick(pairer[q].key) => \E s \in Sticks : credential'[s] = pairer[q].key
    BY <2>1, CredentialsStay DEF OnStick
  <2> QED
    BY <1>0, <2>1, <2>2 DEF OnStick
<1>1. ASSUME NEW p \in Pairers, Pairs(p) PROVE WrittenIsOnStick'
  <2>1. CASE PairWrite(p)
    <3>1. credential \in [Sticks -> Int] /\ pairer[p].stick \in Sticks
      BY <2>1, RecoveryAssumption
      DEF RecoverTypeOK, UsbTypeOK, Torn, PairWrite, WritesOwnFile
    <3>2. credential'[pairer[p].stick] = pairer[p].key
      BY <2>1, <3>1 DEF PairWrite
    <3>3. OnStick(pairer[p].key)'
      BY <1>1, <3>1, <3>2, PairsMoves DEF OnStick
    <3> QED
      BY <1>0, <1>1, <3>3, PairsMoves DEF WrittenIsOnStick
  <2>2. CASE ~PairWrite(p)
    <3>1. pairer'[p].pc \in Written => pairer[p].pc \in Written
      BY <1>1, <2>2, PairsMoves
      DEF PairAt, PairReadBack, PairRegister, PairRecord, PairFlush,
          PairConfirm
    <3> QED
      BY <1>0, <1>1, <3>1, PairsMoves DEF WrittenIsOnStick
  <2> QED
    BY <2>1, <2>2
<1>2. ASSUME NEW p \in Pairers, Ends(p) PROVE WrittenIsOnStick'
  BY <1>0, <1>2, PairerFields DEF Ends, PairIdle, WrittenIsOnStick
<1>3. ASSUME NEW p \in Pairers, NEW l \in Letters, Begins(p, l)
      PROVE  WrittenIsOnStick'
  BY <1>0, <1>3, PairerFields DEF Begins, WrittenIsOnStick
<1>4. ASSUME NEW x \in Installs \cup {PE}, Restart(x) PROVE WrittenIsOnStick'
  BY <1>4 DEF Restart, PairIdle, WrittenIsOnStick
<1>5. CASE UNCHANGED pairer
  BY <1>0, <1>5 DEF WrittenIsOnStick
<1> QED
  BY <1>1, <1>2, <1>3, <1>4, <1>5, UsbKinds DEF Quiet, Marks, Saves

\* What Windows has recorded of a pairing, in memory and in the file.
HiveInvariant == FileFollowsMemory /\ VerifierHasCredential

\* How far a step moves the pairing of the hives.
LEMMA PairsHives ==
  ASSUME RecoverTypeOK, PairersOnDesktop, NEW p \in Pairers, Pairs(p)
  PROVE  /\ running' = running /\ running \in Installs
         /\ \/ /\ UNCHANGED <<hive, durable>>
               /\ ~PairRegister(p) /\ ~PairRecord(p) /\ ~PairFlush(p)
            \/ /\ PairRegister(p) /\ UNCHANGED durable
               /\ hive' = [hive EXCEPT ![running].paired = TRUE]
            \/ /\ PairRecord(p) /\ UNCHANGED durable
               /\ hive' = [hive EXCEPT ![running].verifier = pairer[p].key]
            \/ /\ PairFlush(p) /\ UNCHANGED hive
               /\ durable' = [durable EXCEPT ![running] = hive[running]]
<1>1. running \in Installs
  BY PairsMoves DEF PairersOnDesktop
<1> QED
  BY <1>1 DEF Pairs, PairCreate, PairWrite, PairReadBack, PairRegister,
         PairRecord, PairFlush, PairConfirm, PairAt

\* One pairing at a time has created the record: RegCreateKeyEx tells it that
\* the key is new, and no other has written the value since.
LEMMA OneRegistersStep ==
  ASSUME RecoverTypeOK, PairersOnDesktop, OneRegisters, HiveInvariant,
         ScriptInOrder, ToolInOrder, [RecoverNext]_recoverVars
  PROVE  OneRegisters'
<1> USE DEF OneRegisters, Registered, PairAt
<1>0. hive \in [Installs -> Hives] /\ durable \in [Installs -> Hives]
  BY DEF RecoverTypeOK, UsbTypeOK
<1>1. ASSUME NEW p \in Pairers, Pairs(p) PROVE OneRegisters'
  <2>0. /\ running' = running /\ running \in Installs
        /\ \A q \in Pairers : q # p => pairer'[q] = pairer[q]
        /\ pairer'[p].key = pairer[p].key
    BY <1>1, PairsHives, PairsMoves
  <2>1. CASE PairRegister(p)
    <3>1. \A q \in Pairers : pairer[q].pc \notin Registered
      BY <2>1 DEF PairRegister
    <3>2. hive[running].verifier = 0
      BY <2>0, <2>1 DEF PairRegister, HiveInvariant, VerifierHasCredential
    <3>3. /\ hive'[running].paired /\ hive'[running].verifier = 0
      BY <1>0, <2>0, <2>1, <3>2 DEF PairRegister, Hives
    <3>4. pairer'[p].pc = "record"
      BY <1>1, <2>1, PairsMoves, PairerFields DEF PairRegister, PairGoto
    <3> QED
      BY <2>0, <3>1, <3>3, <3>4
  <2>2. CASE PairRecord(p)
    <3>1. \A q \in Pairers : q # p => pairer[q].pc \notin Registered
      BY <2>2 DEF PairRecord
    <3>2. hive'[running].paired /\ hive'[running].verifier = pairer[p].key
      BY <1>0, <2>0, <2>2 DEF PairRecord, Hives
    <3>3. pairer'[p].pc = "flush"
      BY <1>1, <2>2, PairsMoves, PairerFields DEF PairRecord, PairGoto
    <3> QED
      BY <2>0, <3>1, <3>2, <3>3
  <2>3. CASE PairFlush(p)
    <3>1. \A q \in Pairers : q # p => pairer[q].pc \notin Registered
      BY <2>3 DEF PairFlush
    <3>2. /\ hive' = hive /\ durable'[running] = hive[running]
          /\ hive[running].paired /\ hive[running].verifier = pairer[p].key
      BY <1>0, <2>0, <2>3 DEF PairFlush
    <3>3. pairer'[p].pc = "confirm"
      BY <1>1, <2>3, PairsMoves, PairerFields DEF PairFlush, PairGoto
    <3> QED
      BY <2>0, <3>1, <3>2, <3>3
  <2>4. CASE PairConfirm(p)
    <3>1. UNCHANGED <<hive, durable>> /\ pairer[p].pc = "confirm"
      BY <2>4 DEF PairConfirm
    <3>2. pairer'[p].pc = "paired"
      BY <1>1, <2>4, PairsMoves, PairerFields DEF PairConfirm, PairGoto
    <3> QED
      BY <2>0, <3>1, <3>2
  <2>5. CASE ~PairRegister(p) /\ ~PairRecord(p) /\ ~PairFlush(p)
             /\ ~PairConfirm(p)
    <3>1. pairer'[p].pc \notin Registered /\ UNCHANGED <<hive, durable>>
      BY <1>1, <2>5, PairsMoves, PairsHives
    <3> QED
      BY <2>0, <3>1
  <2> QED
    BY <2>1, <2>2, <2>3, <2>4, <2>5
<1>2. ASSUME NEW p \in Pairers, Ends(p) PROVE OneRegisters'
  BY <1>2, PairerFields DEF Ends, PairIdle
<1>3. ASSUME NEW p \in Pairers, NEW l \in Letters, Begins(p, l)
      PROVE  OneRegisters'
  BY <1>3, PairerFields DEF Begins
<1>4. ASSUME NEW x \in Installs \cup {PE}, Restart(x) PROVE OneRegisters'
  BY <1>4 DEF Restart, PairIdle
<1>5. CASE Marks
  BY <1>5 DEF Marks, PairersOnDesktop
<1>6. ASSUME NEW w \in Installs, Saves(w) PROVE OneRegisters'
  BY <1>0, <1>6 DEF Saves, PairersOnDesktop
<1> QED
  BY <1>1, <1>2, <1>3, <1>4, <1>5, <1>6, UsbKinds DEF Quiet

\* The verifier in the file is that in memory, and every verifier has its
\* credential on a stick.
LEMMA HiveInvariantStep ==
  ASSUME RecoverTypeOK, PairersOnDesktop, WritesOwnFile, WrittenIsOnStick,
         OneRegisters, HiveInvariant, ScriptInOrder, ToolInOrder,
         [RecoverNext]_recoverVars
  PROVE  HiveInvariant'
<1>0. /\ hive \in [Installs -> Hives] /\ durable \in [Installs -> Hives]
      /\ \A w \in Installs : /\ hive[w].verifier \in Keys \cup {0}
                             /\ durable[w].verifier \in Keys \cup {0}
  BY RecoveryAssumption DEF RecoverTypeOK, UsbTypeOK, Hives, Keys
<1>1. \A k \in Keys : OnStick(k) => \E s \in Sticks : credential'[s] = k
  BY CredentialsStay DEF OnStick
<1>2. ASSUME \A w \in Installs :
                /\ hive'[w].verifier # 0 => hive'[w].paired
                /\ durable'[w] = durable[w] \/ durable'[w] = hive[w]
                /\ \/ hive'[w].verifier = hive[w].verifier
                   \/ hive'[w] = durable[w] /\ durable'[w] = durable[w]
                   \/ /\ hive'[w].verifier \in Keys
                      /\ OnStick(hive'[w].verifier)
                      /\ hive[w].verifier = 0 /\ durable'[w] = durable[w]
      PROVE  HiveInvariant'
  <2>1. VerifierHasCredential'
    <3> SUFFICES ASSUME NEW w \in Installs, NEW h \in {hive'[w], durable'[w]},
                        h.verifier # 0
                 PROVE  h.paired /\ \E s \in Sticks : credential'[s] = h.verifier
      BY DEF VerifierHasCredential, OnStick
    <3> QED
      BY <1>0, <1>1, <1>2 DEF HiveInvariant, VerifierHasCredential
  <2>2. FileFollowsMemory'
    BY <1>2 DEF HiveInvariant, FileFollowsMemory
  <2> QED
    BY <2>1, <2>2 DEF HiveInvariant
<1>3. \A w \in Installs : hive[w].verifier # 0 => hive[w].paired
  BY DEF HiveInvariant, VerifierHasCredential
<1>4. \A w \in Installs : durable[w].verifier # 0 => durable[w].paired
  BY DEF HiveInvariant, VerifierHasCredential
<1>5. ASSUME NEW p \in Pairers, Pairs(p) PROVE HiveInvariant'
  <2>0. running \in Installs
    BY <1>5, PairsHives
  <2>1. CASE PairRecord(p)
    <3>1. /\ hive[running].verifier = 0 /\ hive[running].paired
          /\ pairer[p].key \in Keys /\ OnStick(pairer[p].key)
      BY <2>1 DEF PairRecord, PairAt, OneRegisters, Registered,
                  PairersOnDesktop, WrittenIsOnStick, Written
    <3>2. /\ durable' = durable
          /\ hive' = [hive EXCEPT ![running].verifier = pairer[p].key]
      BY <2>1 DEF PairRecord
    <3>3. \A w \in Installs :
             \/ hive'[w] = hive[w]
             \/ /\ hive[w].verifier = 0 /\ hive'[w].paired
                /\ hive'[w].verifier = pairer[p].key
      BY <1>0, <2>0, <3>1, <3>2 DEF Hives
    <3> QED
      BY <1>2, <1>3, <3>1, <3>2, <3>3
  <2>2. CASE PairRegister(p)
    <3>1. /\ durable' = durable
          /\ hive' = [hive EXCEPT ![running].paired = TRUE]
      BY <2>2 DEF PairRegister
    <3>2. \A w \in Installs : /\ hive'[w].verifier = hive[w].verifier
                              /\ hive'[w].paired = hive[w].paired
                                 \/ hive'[w].paired
      BY <1>0, <2>0, <3>1 DEF Hives
    <3> QED
      BY <1>2, <1>3, <3>1, <3>2
  <2>3. CASE ~PairRecord(p) /\ ~PairRegister(p)
    BY <1>0, <1>2, <1>3, <1>5, <2>3, PairsHives
  <2> QED
    BY <2>1, <2>2, <2>3
<1>6. ASSUME NEW x \in Installs \cup {PE}, Restart(x) PROVE HiveInvariant'
  BY <1>2, <1>3, <1>4, <1>6 DEF Restart
<1>7. ASSUME NEW w \in Installs, Saves(w) PROVE HiveInvariant'
  BY <1>0, <1>2, <1>3, <1>7 DEF Saves
<1>8. CASE Marks
  BY <1>2, <1>3, <1>8 DEF Marks
<1>9. CASE UNCHANGED <<hive, durable>>
  BY <1>2, <1>3, <1>9
<1> QED
  BY <1>5, <1>6, <1>7, <1>8, <1>9, UsbKinds DEF Quiet, Ends, Begins

\* A restart leaves memory and file the same, and until the next one only the
\* running system is paired.
LEMMA OthersAreWrittenStep ==
  ASSUME RecoverTypeOK, PairersOnDesktop, OthersAreWritten, ScriptInOrder,
         ToolInOrder, [RecoverNext]_recoverVars
  PROVE  OthersAreWritten'
<1> USE DEF OthersAreWritten
<1>0. hive \in [Installs -> Hives] /\ durable \in [Installs -> Hives]
  BY DEF RecoverTypeOK, UsbTypeOK
<1>1. ASSUME NEW p \in Pairers, Pairs(p) PROVE OthersAreWritten'
  BY <1>0, <1>1, PairsHives
<1>2. ASSUME NEW x \in Installs \cup {PE}, Restart(x) PROVE OthersAreWritten'
  BY <1>2 DEF Restart
<1>3. ASSUME NEW w \in Installs, Saves(w) PROVE OthersAreWritten'
  BY <1>0, <1>3 DEF Saves
<1> QED
  BY <1>1, <1>2, <1>3, UsbKinds DEF Quiet, Marks, Ends, Begins

-------------------------------------------------------------------------------
(* The restriction. *)

\* In mode "require" the desktop filter clears every convenience provider of
\* every local screen it takes on, whatever the list of providers is.
LEMMA RequireHides == "require" \in RequiringModes
<1> SUFFICES ASSUME NEW r \in LocalScreens, r.mode = "require",
                    NEW i \in DOMAIN r.allow, Filter(r)[i]
             PROVE  ~convenienceName(r.providers[i])
  BY DEF RequiringModes
<1> QED
  BY DEF LocalScreens, Filter, apply, Hide

\* Short of a restart a hive loses no part and no verifier, and only the last
\* step of the activation script registers the filter.
LEMMA HiveGrows ==
  ASSUME RecoverTypeOK, PairersOnDesktop, OneRegisters, ScriptInOrder,
         ToolInOrder, [RecoverNext]_recoverVars,
         \A x \in Installs \cup {PE} : ~Restart(x), NEW w \in Installs
  PROVE  /\ hive[w].parts \subseteq hive'[w].parts
         /\ hive[w].verifier # 0 => hive'[w].verifier = hive[w].verifier
         /\ hive'[w].registered =>
               hive[w].registered \/ (script = "register" /\ w = running)
         /\ durable'[w] = durable[w] \/ durable'[w] = hive[w]
<1> DEFINE Goal == /\ hive[w].parts \subseteq hive'[w].parts
                   /\ hive[w].verifier # 0 =>
                         hive'[w].verifier = hive[w].verifier
                   /\ hive'[w].registered =>
                         \/ hive[w].registered
                         \/ script = "register" /\ w = running
                   /\ durable'[w] = durable[w] \/ durable'[w] = hive[w]
<1>0. hive \in [Installs -> Hives] /\ durable \in [Installs -> Hives]
  BY DEF RecoverTypeOK, UsbTypeOK
<1>1. ASSUME NEW v \in Installs, NEW P, Activate,
             \/ SetHive(v, [hive[v] EXCEPT !.parts = @ \cup P])
             \/ SetHive(v, [hive[v] EXCEPT !.registered = FALSE])
             \/ /\ script = "register" /\ v = running
                /\ SetHive(v, [hive[v] EXCEPT !.registered = TRUE])
      PROVE  Goal
  BY <1>0, <1>1 DEF SetHive, Hives
<1>2. CASE UNCHANGED hive
  <2>1. durable'[w] = durable[w] \/ durable'[w] = hive[w]
    BY <1>0, <1>2, UsbKinds, PairsHives DEF Quiet, Marks, Saves, Ends, Begins
  <2> QED
    BY <1>2, <2>1
<1>3. ASSUME NEW p \in Pairers, PairRegister(p) \/ PairRecord(p) PROVE Goal
  <2>1. Pairs(p) /\ running \in Installs
    BY <1>3, PairsHives DEF Pairs
  <2>2. CASE PairRegister(p)
    BY <1>0, <2>1, <2>2 DEF PairRegister, Hives
  <2>3. CASE PairRecord(p)
    <3>1. hive[running].verifier = 0
      BY <2>3 DEF PairRecord, PairAt, OneRegisters, Registered
    <3>2. /\ hive' = [hive EXCEPT ![running].verifier = pairer[p].key]
          /\ durable' = durable
      BY <2>3 DEF PairRecord
    <3> QED
      BY <1>0, <2>1, <3>1, <3>2 DEF Hives
  <2> QED
    BY <1>3, <2>2, <2>3
<1>4. CASE Activate
  <2>1. running \in Installs \/ UNCHANGED hive
    BY <1>4 DEF Activate, ActivateConfigure, ActivateClass, ActivateRegister,
                ActivateVerify, ScriptFrom, ScriptInOrder, ActivateStart,
                usbVars
  <2> QED
    BY <1>1, <1>2, <1>4, <2>1
    DEF Activate, ActivateStart, ActivateConfigure, ActivateClass,
        ActivateRegister, ActivateVerify, ScriptFrom, usbVars
<1>5. CASE removeRegistration
  <2>1. tool.win \in Installs
    BY <1>5 DEF removeRegistration, ToolAt, ToolInOrder, ToolIdle
  <2>2. \/ UNCHANGED hive
        \/ SetHive(tool.win, [hive[tool.win] EXCEPT !.registered = FALSE])
    BY <1>5 DEF removeRegistration, usbVars
  <2> QED
    BY <1>0, <1>2, <2>1, <2>2 DEF SetHive, Hives
<1>6. ASSUME UsbNext PROVE Goal
  BY <1>2, <1>3, <1>6
  DEF UsbNext, Insert, Remove, LazyFlush, PairStart, PairStep, PairCreate,
      PairWrite, PairReadBack, PairFlush, PairConfirm, PairFails, PairExit
<1>7. ASSUME ToolStep PROVE Goal
  BY <1>2, <1>5, <1>7
  DEF ToolStep, inspectCopy, protectedCopy, LoadHive, Reauthorize,
      FlushRemoval, UnloadHive, ToolFails, usbVars
<1>8. ASSUME NEW v \in Installs, NEW l \in Letters \cup {NoLetter},
             NEW i \in BOOLEAN, RunTool(v, l, i)
      PROVE  Goal
  BY <1>2, <1>8 DEF RunTool, usbVars
<1> QED
  BY <1>2, <1>4, <1>6, <1>7, <1>8 DEF RecoverNext, recoverVars, usbVars

\* The script only goes on while the computer is not restarted.
LEMMA ScriptInOrderStep ==
  ASSUME RecoverTypeOK, PairersOnDesktop, OneRegisters, ScriptInOrder,
         ToolInOrder, [RecoverNext]_recoverVars
  PROVE  ScriptInOrder'
<1>1. ASSUME NEW x \in Installs \cup {PE}, Restart(x) PROVE ScriptInOrder'
  BY <1>1 DEF Restart, ScriptInOrder
<1>2. CASE \A x \in Installs \cup {PE} : ~Restart(x)
  <2>0. hive \in [Installs -> Hives] /\ hive' \in [Installs -> Hives]
    BY RecoverTypeStep DEF RecoverTypeOK, UsbTypeOK
  <2>1. running' = running
    BY <1>2, UsbKinds, PairsHives DEF Quiet, Marks, Saves, Ends, Begins
  <2>2. \A w \in Installs :
           /\ hive[w].parts \subseteq hive'[w].parts
           /\ hive[w].verifier # 0 => hive'[w].verifier # 0
    BY <1>2, HiveGrows
  <2>3. CASE UNCHANGED script
    BY <2>1, <2>2, <2>3 DEF ScriptInOrder
  <2>4. CASE Activate
    <3>1. ASSUME NEW l \in Letters, ActivateStart(l) PROVE ScriptInOrder'
      <4>1. /\ running \in Installs /\ hive[running].verifier # 0
            /\ script' = "configure"
        BY <3>1 DEF ActivateStart, authorize, ScriptFrom, RecoverTypeOK,
                    UsbTypeOK
      <4> QED
        BY <2>1, <2>2, <4>1 DEF ScriptInOrder
    <3>2. CASE ActivateConfigure
      <4>1. running \in Installs /\ hive[running].verifier # 0
        BY <3>2 DEF ActivateConfigure, ScriptFrom, ScriptInOrder
      <4>2. CASE script' = "idle"
        BY <4>2 DEF ScriptInOrder
      <4>3. CASE script' # "idle"
        <5>1. /\ script' = "class"
              /\ hive' = [hive EXCEPT ![running] =
                    [hive[running] EXCEPT !.parts = @ \cup {"config", "mode"}]]
          BY <3>2, <4>3 DEF ActivateConfigure, ScriptFrom, SetHive
        <5>2. "mode" \in hive'[running].parts
          BY <2>0, <4>1, <5>1 DEF Hives
        <5> QED
          BY <2>1, <2>2, <4>1, <5>1, <5>2 DEF ScriptInOrder
      <4> QED
        BY <4>2, <4>3
    <3>3. CASE ActivateClass
      <4>1. /\ running \in Installs /\ hive[running].verifier # 0
            /\ "mode" \in hive[running].parts
        BY <3>3 DEF ActivateClass, ScriptFrom, ScriptInOrder
      <4>2. CASE script' = "idle"
        BY <4>2 DEF ScriptInOrder
      <4>3. CASE script' # "idle"
        <5>1. /\ script' = "register"
              /\ hive' = [hive EXCEPT ![running] =
                    [hive[running] EXCEPT !.parts = @ \cup {"class"}]]
          BY <3>3, <4>3 DEF ActivateClass, ScriptFrom, SetHive
        <5>2. "class" \in hive'[running].parts
          BY <2>0, <4>1, <5>1 DEF Hives
        <5> QED
          BY <2>1, <2>2, <4>1, <5>1, <5>2 DEF ScriptInOrder
      <4> QED
        BY <4>2, <4>3
    <3>4. CASE ActivateRegister \/ ActivateVerify
      <4>1. script' # "idle" => script = "register" /\ script' = "verify"
        BY <3>4 DEF ActivateRegister, ActivateVerify, ScriptFrom
      <4> QED
        BY <2>1, <2>2, <4>1 DEF ScriptInOrder
    <3> QED
      BY <2>4, <3>1, <3>2, <3>3, <3>4 DEF Activate
  <2> QED
    BY <1>2, <2>3, <2>4
    DEF RecoverNext, lifeVars, RunTool, ToolStep, inspectCopy, protectedCopy,
        LoadHive, Reauthorize, removeRegistration, FlushRemoval, UnloadHive,
        ToolFails, recoverVars
<1> QED
  BY <1>1, <1>2

\* Whatever is registered was registered by the script's last step, when the
\* verifier, the mode and the class were there.
LEMMA RegisteredIsWholeStep ==
  ASSUME RecoverTypeOK, PairersOnDesktop, OneRegisters, ScriptInOrder,
         ToolInOrder, RegisteredIsWhole, [RecoverNext]_recoverVars
  PROVE  RegisteredIsWhole'
<1>1. ASSUME NEW x \in Installs \cup {PE}, Restart(x) PROVE RegisteredIsWhole'
  BY <1>1 DEF Restart, RegisteredIsWhole
<1>2. CASE \A x \in Installs \cup {PE} : ~Restart(x)
  <2> SUFFICES ASSUME NEW w \in Installs \ Legacy,
                      NEW h \in {hive'[w], durable'[w]}, h.registered
               PROVE  /\ h.verifier # 0
                      /\ "mode" \in h.parts /\ "class" \in h.parts
    BY DEF RegisteredIsWhole
  <2>1. /\ hive[w].parts \subseteq hive'[w].parts
        /\ hive[w].verifier # 0 => hive'[w].verifier = hive[w].verifier
        /\ hive'[w].registered =>
              hive[w].registered \/ (script = "register" /\ w = running)
        /\ durable'[w] = durable[w] \/ durable'[w] = hive[w]
    BY <1>2, HiveGrows
  <2>2. CASE h = durable'[w]
    BY <2>1, <2>2 DEF RegisteredIsWhole
  <2>3. CASE h = hive'[w]
    BY <2>1, <2>3 DEF RegisteredIsWhole, ScriptInOrder
  <2> QED
    BY <2>2, <2>3
<1> QED
  BY <1>1, <1>2

-------------------------------------------------------------------------------
(* The recovery tool. *)

\* In the recovery environment only the tool writes, and only to remove.
LEMMA HiveInPE ==
  ASSUME RecoverTypeOK, PairersOnDesktop, OneRegisters, ScriptInOrder,
         ToolInOrder, running = PE, [RecoverNext]_recoverVars,
         \A x \in Installs \cup {PE} : ~Restart(x)
  PROVE  /\ running' = PE
         /\ \A w \in Installs :
               /\ hive'[w].paired = hive[w].paired
               /\ hive'[w].verifier = hive[w].verifier
               /\ hive'[w].registered => hive[w].registered
               /\ durable'[w] = durable[w] \/ durable'[w] = hive[w]
<1>1. running \notin Installs
  BY RecoveryAssumption DEF PE
<1>2. script = "idle"
  BY <1>1 DEF ScriptInOrder
<1>3. \A p \in Pairers : ~Pairs(p)
  BY <1>1, PairsHives
<1>4. \A w \in Installs : /\ hive'[w].paired = hive[w].paired
                          /\ hive'[w].verifier = hive[w].verifier
  BY <1>1, <1>3, UsbKinds DEF Quiet, Marks, Saves, Ends, Begins
<1>5. running' = running
  BY <1>1, <1>3, UsbKinds DEF Quiet, Marks, Saves, Ends, Begins
<1> QED
  BY <1>2, <1>4, <1>5, HiveGrows

\* The steps of the tool in the order the code makes them.
LEMMA ToolInOrderStep ==
  ASSUME RecoverTypeOK, PairersOnDesktop, OneRegisters, ScriptInOrder,
         ToolInOrder, [RecoverNext]_recoverVars
  PROVE  ToolInOrder'
<1> USE DEF ToolInOrder
<1>0. /\ tool \in [pc : ToolStates, win : Installs \cup {"none"},
                   letter : Letters \cup {NoLetter}, inspecting : BOOLEAN,
                   exit : {-1, 0, 1}, shown : [1 .. 2 -> Int]]
      /\ hive \in [Installs -> Hives]
  BY DEF RecoverTypeOK, UsbTypeOK
<1>1. ASSUME NEW x \in Installs \cup {PE}, Restart(x) PROVE ToolInOrder'
  BY <1>1 DEF Restart, ToolIdle
<1>2. ASSUME \A x \in Installs \cup {PE} : ~Restart(x), running = PE
      PROVE  /\ running' = PE
             /\ \A w \in Installs :
                   /\ hive'[w].paired = hive[w].paired
                   /\ hive'[w].verifier = hive[w].verifier
                   /\ hive'[w].registered => hive[w].registered
  BY <1>2, HiveInPE
<1>3. ASSUME \A x \in Installs \cup {PE} : ~Restart(x), UNCHANGED tool
      PROVE  ToolInOrder'
  BY <1>2, <1>3 DEF ToolIdle
<1>4. ASSUME \A x \in Installs \cup {PE} : ~Restart(x), ToolStep
      PROVE  ToolInOrder'
  <2>0. /\ running = PE /\ tool.win \in Installs /\ tool.exit = -1
        /\ tool.pc # "idle"
    BY <1>4 DEF ToolStep, inspectCopy, protectedCopy, LoadHive, Reauthorize,
                removeRegistration, FlushRemoval, UnloadHive, ToolFails,
                ToolAt, ToolIdle
  <2>1. /\ running' = PE
        /\ hive'[tool.win].paired = hive[tool.win].paired
        /\ hive'[tool.win].verifier = hive[tool.win].verifier
        /\ hive'[tool.win].registered => hive[tool.win].registered
    BY <1>2, <1>4, <2>0
  <2> USE DEF ToolAt, Exit
  <2>2. CASE inspectCopy
    BY <1>0, <2>0, <2>1, <2>2
    DEF inspectCopy, authorizeRecovery, authorize
  <2>3. CASE protectedCopy
    BY <1>0, <2>0, <2>1, <2>3 DEF protectedCopy
  <2>4. CASE LoadHive
    BY <1>0, <2>0, <2>1, <2>4 DEF LoadHive
  <2>5. CASE Reauthorize
    BY <1>0, <2>0, <2>1, <2>5 DEF Reauthorize, authorizeRecovery, authorize
  <2>6. CASE removeRegistration
    <3>1. tool'.pc \in {"flush", "unload"} => ~hive'[tool.win].registered
      BY <1>0, <2>0, <2>1, <2>6
      DEF removeRegistration, SetHive, Hives, usbVars
    <3> QED
      BY <1>0, <2>0, <2>1, <2>6, <3>1 DEF removeRegistration
  <2>7. CASE FlushRemoval
    BY <1>0, <2>0, <2>1, <2>7 DEF FlushRemoval
  <2>8. CASE UnloadHive
    BY <1>0, <2>0, <2>1, <2>8 DEF UnloadHive
  <2>9. CASE ToolFails
    BY <1>0, <2>0, <2>1, <2>9 DEF ToolFails
  <2> QED
    BY <1>4, <2>2, <2>3, <2>4, <2>5, <2>6, <2>7, <2>8, <2>9 DEF ToolStep
<1>5. ASSUME NEW w \in Installs, NEW l \in Letters \cup {NoLetter},
             NEW i \in BOOLEAN, RunTool(w, l, i)
      PROVE  ToolInOrder'
  BY <1>0, <1>5 DEF RunTool, usbVars
<1> QED
  BY <1>1, <1>3, <1>4, <1>5
  DEF RecoverNext, lifeVars, Activate, ActivateStart, ActivateConfigure,
      ActivateClass, ActivateRegister, ActivateVerify, recoverVars

\* A run that ends with 0 has written the hive back without the registration,
\* and nothing registers the filter in the recovery environment.
LEMMA SuccessIsDurableStep ==
  ASSUME RecoverTypeOK, PairersOnDesktop, OneRegisters, ScriptInOrder,
         ToolInOrder, SuccessIsDurable, [RecoverNext]_recoverVars
  PROVE  SuccessIsDurable'
<1> USE DEF SuccessIsDurable
<1>0. /\ tool \in [pc : ToolStates, win : Installs \cup {"none"},
                   letter : Letters \cup {NoLetter}, inspecting : BOOLEAN,
                   exit : {-1, 0, 1}, shown : [1 .. 2 -> Int]]
      /\ hive \in [Installs -> Hives] /\ durable \in [Installs -> Hives]
  BY DEF RecoverTypeOK, UsbTypeOK
<1>1. ASSUME NEW x \in Installs \cup {PE}, Restart(x) PROVE SuccessIsDurable'
  BY <1>1 DEF Restart, ToolIdle
<1>2. ASSUME \A x \in Installs \cup {PE} : ~Restart(x), UNCHANGED tool,
             mounted' \subseteq mounted
      PROVE  SuccessIsDurable'
  <2>1. CASE tool.exit = 0
    <3>1. running = PE /\ tool.win \in Installs
      BY <2>1 DEF ToolInOrder, ToolIdle
    <3> QED
      BY <1>2, <3>1, HiveInPE
  <2>2. CASE tool.exit # 0
    BY <1>2, <2>2
  <2> QED
    BY <2>1, <2>2
<1>3. CASE ToolStep
  <2> USE DEF ToolAt, Exit
  <2>0. tool.win \in Installs /\ tool.exit = -1
    BY <1>3 DEF ToolStep, inspectCopy, protectedCopy, LoadHive, Reauthorize,
                removeRegistration, FlushRemoval, UnloadHive, ToolFails,
                ToolInOrder, ToolIdle
  <2>1. CASE inspectCopy
    BY <1>0, <2>0, <2>1 DEF inspectCopy
  <2>2. CASE UnloadHive
    <3>1. UNCHANGED hive /\ tool'.win = tool.win
      BY <1>0, <2>2 DEF UnloadHive
    <3>2. CASE tool'.exit = 0
      <4>0. Exit(1).exit = 1
        BY <1>0
      <4>1. /\ tool.pc = "unload"
            /\ durable' = [durable EXCEPT ![tool.win] = hive[tool.win]]
            /\ mounted' = mounted \ {tool.win}
        <5> HIDE DEF Exit
        <5> QED
          BY <2>2, <3>2, <4>0 DEF UnloadHive
      <4>2. ~hive[tool.win].registered
        BY <4>1 DEF ToolInOrder
      <4>3. durable'[tool.win] = hive[tool.win]
        BY <1>0, <2>0, <4>1
      <4> QED
        BY <3>1, <4>1, <4>2, <4>3
    <3> QED
      BY <3>2
  <2>3. CASE ~inspectCopy /\ ~UnloadHive
    <3>1. \/ \E q \in ToolStates : tool' = [tool EXCEPT !.pc = q]
          \/ tool' = Exit(1) \/ Reauthorize
      BY <1>3, <2>3
      DEF ToolStep, protectedCopy, LoadHive, removeRegistration, FlushRemoval,
          ToolFails, ToolStates
    <3>2. CASE \E q \in ToolStates : tool' = [tool EXCEPT !.pc = q]
      BY <1>0, <2>0, <3>2
    <3>3. CASE tool' = Exit(1)
      BY <1>0, <3>3
    <3>4. CASE Reauthorize
      <4>1. tool'.exit = tool.exit
        BY <1>0, <3>4 DEF Reauthorize
      <4> QED
        BY <2>0, <4>1
    <3> QED
      BY <3>1, <3>2, <3>3, <3>4
  <2> QED
    BY <2>1, <2>2, <2>3
<1>4. ASSUME NEW w \in Installs, NEW l \in Letters \cup {NoLetter},
             NEW i \in BOOLEAN, RunTool(w, l, i)
      PROVE  SuccessIsDurable'
  BY <1>0, <1>4 DEF RunTool, usbVars
<1> QED
  BY <1>1, <1>2, <1>3, <1>4
  DEF RecoverNext, lifeVars, Activate, ActivateStart, ActivateConfigure,
      ActivateClass, ActivateRegister, ActivateVerify, recoverVars

-------------------------------------------------------------------------------
(* The theorems. *)

\* The invariant holds initially: nothing is paired, nothing is running.
LEMMA RecoverInvariantInit == RecoverInit => RecoverInvariant
<1> SUFFICES ASSUME RecoverInit PROVE RecoverInvariant
  OBVIOUS
<1>1. /\ \A p \in Pairers : pairer[p].pc = "idle"
      /\ \A w \in Installs : /\ hive[w] = NewHive(w)
                             /\ durable[w] = NewHive(w)
      /\ script = "idle" /\ tool = ToolIdle
  BY DEF RecoverInit, UsbInit, PairIdle
<1>2. \A w \in Installs : /\ NewHive(w).verifier = 0
                          /\ NewHive(w).registered => w \in Legacy
  BY DEF NewHive
<1>3. PairersOnDesktop /\ WritesOwnFile /\ WrittenIsOnStick /\ OneRegisters
  BY <1>1 DEF PairersOnDesktop, WritesOwnFile, WrittenIsOnStick, OneRegisters,
              PairAt, Written, Registered
<1>4. /\ FileFollowsMemory /\ OthersAreWritten /\ VerifierHasCredential
      /\ RegisteredIsWhole
  BY <1>1, <1>2 DEF FileFollowsMemory, OthersAreWritten, VerifierHasCredential,
                    RegisteredIsWhole
<1>5. ScriptInOrder /\ ToolInOrder /\ SuccessIsDurable
  BY <1>1 DEF ScriptInOrder, ToolInOrder, SuccessIsDurable, ToolIdle
<1> QED
  BY <1>3, <1>4, <1>5 DEF RecoverInvariant

\* The types and the invariant hold throughout: for any number of pairings,
\* drives and installations, and with a restart or a power failure between
\* any two steps.
THEOREM RecoverInvariantHolds ==
  RecoverSpec => [](RecoverTypeOK /\ RecoverInvariant)
<1>1. RecoverInit => RecoverTypeOK /\ RecoverInvariant
  BY RecoverTypeInit, RecoverInvariantInit
<1>2. RecoverTypeOK /\ RecoverInvariant /\ [RecoverNext]_recoverVars =>
         RecoverTypeOK' /\ RecoverInvariant'
  <2> SUFFICES ASSUME RecoverTypeOK, RecoverInvariant,
                      [RecoverNext]_recoverVars
               PROVE  RecoverTypeOK' /\ RecoverInvariant'
    OBVIOUS
  <2>0. /\ PairersOnDesktop /\ WritesOwnFile /\ WrittenIsOnStick
        /\ OneRegisters /\ FileFollowsMemory /\ VerifierHasCredential
        /\ ScriptInOrder /\ RegisteredIsWhole /\ ToolInOrder
        /\ OthersAreWritten /\ SuccessIsDurable
    BY DEF RecoverInvariant
  <2>1. RecoverTypeOK'
    BY <2>0, RecoverTypeStep
  <2>2. PairersOnDesktop' /\ WritesOwnFile'
    BY <2>0, PairersOnDesktopStep, WritesOwnFileStep
  <2>3. WrittenIsOnStick'
    BY <2>0, WrittenIsOnStickStep
  <2>4. OneRegisters'
    BY <2>0, OneRegistersStep DEF HiveInvariant
  <2>5. FileFollowsMemory' /\ VerifierHasCredential' /\ OthersAreWritten'
    BY <2>0, HiveInvariantStep, OthersAreWrittenStep DEF HiveInvariant
  <2>6. ScriptInOrder' /\ RegisteredIsWhole'
    BY <2>0, ScriptInOrderStep, RegisteredIsWholeStep
  <2>7. ToolInOrder' /\ SuccessIsDurable'
    BY <2>0, ToolInOrderStep, SuccessIsDurableStep
  <2> QED
    BY <2>1, <2>2, <2>3, <2>4, <2>5, <2>6, <2>7 DEF RecoverInvariant
<1> QED
  BY <1>1, <1>2, PTL DEF RecoverSpec

\* pairUsb: no verifier without its credential, in memory or in the file.
THEOREM VerifierAlwaysHasCredential == RecoverSpec => []VerifierHasCredential
<1>1. RecoverTypeOK /\ RecoverInvariant => VerifierHasCredential
  BY DEF RecoverInvariant
<1> QED
  BY <1>1, RecoverInvariantHolds, PTL

\* pairUsb: when it reports the pairing, the verifier of its own credential is
\* in the file of the hive and the credential on a stick, even when another
\* pairing ran beside it or the drive was changed on the way.
THEOREM ReportedPairingsAreDurable ==
  RecoverSpec => []ReportedPairingIsDurable
<1>1. RecoverTypeOK /\ RecoverInvariant => ReportedPairingIsDurable
  BY DEF RecoverInvariant, OneRegisters, WrittenIsOnStick, Registered, Written,
         ReportedPairingIsDurable, PairAt
<1> QED
  BY <1>1, RecoverInvariantHolds, PTL

\* enable-desktop-key-required.ps1 and pairUsb: no installation is restricted
\* without a stick that lifts the restriction, not even after a power failure.
THEOREM RestrictedAlwaysRecoverable == RecoverSpec => []RestrictedIsRecoverable
<1>1. RecoverTypeOK /\ RecoverInvariant => RestrictedIsRecoverable
  <2> SUFFICES ASSUME RecoverInvariant, NEW w \in Installs \ Legacy,
                      NEW h \in {hive[w], durable[w]}, h.registered
               PROVE  h.verifier # 0 /\ OnStick(h.verifier)
    BY DEF RestrictedIsRecoverable
  <2> QED
    BY DEF RecoverInvariant, RegisteredIsWhole, VerifierHasCredential
<1> QED
  BY <1>1, RecoverInvariantHolds, PTL

\* enable-desktop-key-required.ps1 and Filter: a registered filter has its class
\* and its mode, and in that mode hides every convenience provider.
THEOREM RegisteredFilterAlwaysHides == RecoverSpec => []RegisteredFilterHides
<1>1. RecoverTypeOK /\ RecoverInvariant => RegisteredFilterHides
  <2> SUFFICES ASSUME RecoverInvariant, NEW w \in Installs \ Legacy,
                      NEW h \in {hive[w], durable[w]}, h.registered
               PROVE  "class" \in h.parts
                      /\ configuredMode(h) \in RequiringModes
    BY DEF RegisteredFilterHides
  <2>1. "mode" \in h.parts /\ "class" \in h.parts
    BY DEF RecoverInvariant, RegisteredIsWhole
  <2> QED
    BY <2>1, RequireHides DEF configuredMode
<1> QED
  BY <1>1, RecoverInvariantHolds, PTL

\* recover: exit code 0 of a removal means that it is in the file of the hive.
THEOREM RemovalSuccessIsDurable == RecoverSpec => []SuccessIsDurable
<1>1. RecoverTypeOK /\ RecoverInvariant => SuccessIsDurable
  BY DEF RecoverInvariant
<1> QED
  BY <1>1, RecoverInvariantHolds, PTL

\* pairUsb: no pairing replaces another; a power failure can only undo one
\* that was not reported.
THEOREM NoPairingReplaced == RecoverSpec => PairingNotReplaced
<1> DEFINE Allowed ==
      \A w \in Installs :
          /\ durable[w].verifier # 0 =>
                durable'[w].verifier = durable[w].verifier
          /\ hive[w].verifier # 0 /\ hive'[w].verifier # hive[w].verifier =>
                /\ hive'[w].verifier = 0
                /\ \A p \in Pairers : ~PairAt(p, "paired")
<1>1. RecoverTypeOK /\ RecoverInvariant /\ [RecoverNext]_recoverVars =>
         [Allowed]_recoverVars
  <2> SUFFICES ASSUME RecoverTypeOK, RecoverInvariant,
                      [RecoverNext]_recoverVars
               PROVE  Allowed
    OBVIOUS
  <2>0. /\ PairersOnDesktop /\ OneRegisters /\ FileFollowsMemory
        /\ OthersAreWritten /\ ScriptInOrder /\ ToolInOrder
    BY DEF RecoverInvariant
  <2>1. ASSUME NEW x \in Installs \cup {PE}, Restart(x) PROVE Allowed
    <3>1. ASSUME NEW w \in Installs, NEW p \in Pairers, PairAt(p, "paired")
          PROVE  hive[w].verifier = durable[w].verifier
      <4>1. CASE w = running
        BY <2>0, <3>1, <4>1 DEF OneRegisters, Registered, PairAt
      <4> QED
        BY <2>0, <4>1 DEF OthersAreWritten
    <3> QED
      BY <2>0, <2>1, <3>1 DEF Restart, FileFollowsMemory
  <2>2. CASE \A x \in Installs \cup {PE} : ~Restart(x)
    BY <2>0, <2>2, HiveGrows DEF FileFollowsMemory
  <2> QED
    BY <2>1, <2>2
<1> QED
  BY <1>1, RecoverInvariantHolds, PTL DEF RecoverSpec, PairingNotReplaced

\* recover: nothing of a paired installation is written before its credential
\* was read, and nothing is removed before it was read again.
THEOREM TargetOnlyTouchedAuthorized ==
  RecoverSpec => TargetTouchedOnlyAuthorized
<1> DEFINE Allowed ==
      \A w \in Installs :
          running = PE /\ hive[w].paired =>
            /\ backups'[w] # backups[w] \/ (w \in mounted' /\ w \notin mounted)
                  => hive[w].verifier = tool.shown[1]
            /\ hive[w].registered /\ ~hive'[w].registered /\ running' = PE
               /\ w \in mounted'
                  => hive[w].verifier = tool.shown[2]
<1>1. RecoverTypeOK /\ RecoverInvariant /\ [RecoverNext]_recoverVars =>
         [Allowed]_recoverVars
  <2> SUFFICES ASSUME RecoverTypeOK, RecoverInvariant,
                      [RecoverNext]_recoverVars,
                      NEW w \in Installs, running = PE, hive[w].paired
               PROVE  /\ \/ backups'[w] # backups[w]
                         \/ w \in mounted' /\ w \notin mounted
                         => hive[w].verifier = tool.shown[1]
                      /\ hive[w].registered /\ ~hive'[w].registered
                         /\ running' = PE /\ w \in mounted'
                         => hive[w].verifier = tool.shown[2]
    OBVIOUS
  <2>0. /\ PairersOnDesktop /\ ScriptInOrder /\ ToolInOrder
        /\ hive \in [Installs -> Hives]
        /\ backups \in [Installs -> SUBSET BOOLEAN]
        /\ running \notin Installs
    BY RecoveryAssumption DEF RecoverInvariant, RecoverTypeOK, UsbTypeOK, PE
  <2>1. ASSUME NEW x \in Installs \cup {PE}, Restart(x)
        PROVE  UNCHANGED backups /\ mounted' = {}
    BY <2>1 DEF Restart
  <2>2. \A p \in Pairers : pairer[p].pc = "idle"
    BY <2>0 DEF PairersOnDesktop
  <2>3. ASSUME UsbNext, UNCHANGED lifeVars
        PROVE  UNCHANGED <<backups, mounted, hive>>
    BY <2>2, <2>3
    DEF UsbNext, Insert, Remove, LazyFlush, PairStart, PairStep, PairCreate,
        PairWrite, PairReadBack, PairRegister, PairRecord, PairFlush,
        PairConfirm, PairFails, PairExit, PairAt, lifeVars
  <2>4. ASSUME Activate PROVE UNCHANGED <<backups, mounted, hive>>
    BY <2>0, <2>4
    DEF ScriptInOrder, Activate, ActivateStart, ActivateConfigure,
        ActivateClass, ActivateRegister, ActivateVerify, ScriptFrom
  <2>5. CASE protectedCopy \/ LoadHive
    <3>1. tool.pc \in {"backup", "load"} /\ UNCHANGED hive
      BY <2>5 DEF protectedCopy, LoadHive, ToolAt, usbVars
    <3>2. hive[tool.win].paired => hive[tool.win].verifier = tool.shown[1]
      BY <2>0, <3>1 DEF ToolInOrder
    <3>3. backups'[w] # backups[w] \/ (w \in mounted' /\ w \notin mounted)
             => w = tool.win
      BY <2>0, <2>5 DEF protectedCopy, LoadHive
    <3> QED
      BY <3>1, <3>2, <3>3
  <2>6. CASE removeRegistration
    <3>1. tool.pc = "remove" /\ UNCHANGED <<backups, mounted>>
      BY <2>6 DEF removeRegistration, ToolAt
    <3>2. hive[tool.win].paired => hive[tool.win].verifier = tool.shown[2]
      BY <2>0, <3>1 DEF ToolInOrder
    <3>3. w # tool.win => hive'[w] = hive[w]
      BY <2>0, <2>6 DEF removeRegistration, SetHive, usbVars
    <3> QED
      BY <3>1, <3>2, <3>3
  <2>7. ASSUME \/ inspectCopy \/ Reauthorize \/ FlushRemoval \/ UnloadHive
               \/ ToolFails
               \/ \E v \in Installs, l \in Letters \cup {NoLetter},
                     i \in BOOLEAN : RunTool(v, l, i)
        PROVE  UNCHANGED <<backups, hive>> /\ mounted' \subseteq mounted
    BY <2>7 DEF inspectCopy, Reauthorize, FlushRemoval, UnloadHive, ToolFails,
                RunTool, usbVars
  <2> QED
    BY <2>1, <2>3, <2>4, <2>5, <2>6, <2>7
    DEF RecoverNext, ToolStep, recoverVars, usbVars, lifeVars
<1> QED
  BY <1>1, RecoverInvariantHolds, PTL
  DEF RecoverSpec, TargetTouchedOnlyAuthorized

===============================================================================

------------------------------ MODULE Enrollment ------------------------------
(***************************************************************************)
(* Enrolling an account: enroll() and verifySaved() of src/src/enroll.cpp, *)
(* saveProfile, loadProfile and unlockAccount of src/src/profile.cpp, and  *)
(* the script tools/enroll-pin-and-verify.ps1, whose receipt the installer *)
(* asks for.                                                               *)
(*                                                                         *)
(* All sessions enrol the same account, so they compete for one file.  A   *)
(* session is a run of the script; it may be killed, and the power may     *)
(* fail, between any two steps.  Encryption is perfect: a box opens only   *)
(* with the secret and the binding it was sealed with.  A key stands for   *)
(* its credential, public key and salt; its secret is named by the key.    *)
(***************************************************************************)
EXTENDS Integers, Sequences, FiniteSets, SequencesExt

CONSTANTS
    Sessions,       \* runs of the enrolment script
    Keys,           \* security keys of the user
    Pins,           \* values the Windows credential takes
    None,           \* no profile, no credential
    MaxChanges      \* bound: changes of the Windows credential

ASSUME EnrollmentAssumption ==
    /\ IsFiniteSet(Keys) /\ Cardinality(Keys) >= 2
    /\ None \notin Keys \cup Pins \cup Sessions
    /\ MaxChanges \in Nat

VARIABLES
    pin,        \* the credential Windows accepts for the account
    changes,    \* how often it changed
    pc,         \* where each session is
    keys,       \* the public profiles a session was started with
    password,   \* the credential Windows accepted in the session
    records,    \* the records sealed so far
    temporary,  \* what is in the session's temporary file
    profile,    \* the file <sid>.swa
    answered,   \* the keys that answered the session's checks
    receipt     \* pin-install-receipt.json: the session that wrote it

sessionVars == <<pc, keys, password, records, answered>>
vars == <<pin, changes, sessionVars, temporary, profile, receipt>>

\* AccountProfile: a box per key, and whether the bytes reached the disk.
Box      == [secret : Keys, binding : Keys, plain : Pins]
Record   == [key : Keys, box : Box]
Contents == {"none", "empty", "written", "flushed", "torn"}

\* The checks a session goes through once its profile is saved.
Checks == {"second_saved", "second_provider", "first_provider"}

PCs == {"idle", "start", "prompt", "first", "second", "save", "write", "flush",
        "install", "reload", "enrolled", "failed", "killed", "verified"}
       \cup Checks

Init ==
    /\ pin \in Pins
    /\ changes = 0
    /\ pc = [s \in Sessions |-> "idle"]
    /\ keys = [s \in Sessions |-> <<>>]
    /\ password = [s \in Sessions |-> None]
    /\ records = [s \in Sessions |-> <<>>]
    /\ temporary = [s \in Sessions |-> "none"]
    /\ profile = None
    /\ answered = [s \in Sessions |-> {}]
    /\ receipt = None

-------------------------------------------------------------------------------
(* The profile's operations. *)

\* seal and unseal: AES-GCM with the binding as authenticated data.
seal(k, p, b) == [secret |-> k, binding |-> b, plain |-> p]

unseal(k, box, b) ==
    IF box.secret = k /\ box.binding = b THEN box.plain ELSE None

\* The record of the key at an index; 1 is the profile's own key.
profileForKey(rs, index) == rs[index]

\* unlockAccount, the touch being answered by key k: the index comes from
\* touchAnyKey, and is that of k.
unlockAccount(rs, k) ==
    LET index  == CHOOSE i \in 1 .. Len(rs) : rs[i].key = k
        record == profileForKey(rs, index)
    IN  unseal(k, record.box, record.key)

\* loadProfile: a profile that is not whole does not decode.
Loadable == profile # None /\ profile.content # "torn"

-------------------------------------------------------------------------------
(* Steps of a session. *)

Goto(s, p) == pc' = [pc EXCEPT ![s] = p]

\* An exception before there is a temporary file.
Stop(s) ==
    /\ Goto(s, "failed")
    /\ UNCHANGED <<pin, changes, keys, password, records, answered, temporary,
                   profile, receipt>>

\* The catch block of saveProfile: the temporary file is deleted.
StopAndDelete(s) ==
    /\ Goto(s, "failed")
    /\ temporary' = [temporary EXCEPT ![s] = "none"]
    /\ UNCHANGED <<pin, changes, keys, password, records, answered, profile,
                   receipt>>

\* The two public profiles are read; they must name different credentials.
Start(s, ks) ==
    /\ pc[s] = "idle"
    /\ Goto(s, IF Cardinality(Range(ks)) = Len(ks) THEN "start" ELSE "failed")
    /\ keys' = [keys EXCEPT ![s] = ks]
    /\ UNCHANGED <<pin, changes, password, records, answered, temporary,
                   profile, receipt>>

\* An account that has a profile is not enrolled again, nor one that is not
\* linked to a Microsoft identity.
CheckExists(s) ==
    /\ pc[s] = "start"
    /\ \/ /\ profile = None
          /\ Goto(s, "prompt")
          /\ UNCHANGED <<pin, changes, keys, password, records, answered,
                         temporary, profile, receipt>>
       \/ Stop(s)

\* The dialog: Windows must accept what is typed for this account.
Prompt(s) ==
    /\ pc[s] = "prompt"
    /\ \/ /\ Goto(s, "first")
          /\ password' = [password EXCEPT ![s] = pin]
          /\ UNCHANGED <<pin, changes, keys, records, answered, temporary,
                         profile, receipt>>
       \/ Stop(s)

KeyStep == <<"first", "second">>

\* Mutant of EnrollKey: the record of every key is bound to the first one.
EnrollKeyOldBinding(s, i) ==
    LET k   == keys[s][i]
        box == seal(k, password[s], keys[s][1])
    IN  /\ pc[s] = KeyStep[i]
        /\ records' = [records EXCEPT ![s] = Append(@, [key |-> k, box |-> box])]
        /\ Goto(s, IF i < Len(keys[s]) THEN KeyStep[i + 1] ELSE "save")
        /\ UNCHANGED <<pin, changes, keys, password, answered, temporary,
                       profile, receipt>>

\* enrollKey, and the record of key i sealed and opened again.  A failed touch
\* may be retried as often as the user likes, or the enrolment is canceled.
EnrollKey(s, i) ==
    LET k   == keys[s][i]
        box == seal(k, password[s], k)
    IN  /\ pc[s] = KeyStep[i]
        /\ \/ /\ unseal(k, box, k) = password[s]
              /\ records' = [records EXCEPT ![s] =
                                Append(@, [key |-> k, box |-> box])]
              /\ Goto(s, IF i < Len(keys[s]) THEN KeyStep[i + 1] ELSE "save")
              /\ UNCHANGED <<pin, changes, keys, password, answered,
                             temporary, profile, receipt>>
           \/ Stop(s)

-------------------------------------------------------------------------------
(* saveProfile, and the reading back. *)

\* Up to CREATE_NEW: the directory, its trust, the encoding, DPAPI.
CreateTemporary(s) ==
    /\ pc[s] = "save"
    /\ \/ /\ Goto(s, "write")
          /\ temporary' = [temporary EXCEPT ![s] = "empty"]
          /\ UNCHANGED <<pin, changes, keys, password, records, answered,
                         profile, receipt>>
       \/ Stop(s)

WriteTemporary(s) ==
    /\ pc[s] = "write"
    /\ \/ /\ Goto(s, "flush")
          /\ temporary' = [temporary EXCEPT ![s] = "written"]
          /\ UNCHANGED <<pin, changes, keys, password, records, answered,
                         profile, receipt>>
       \/ StopAndDelete(s)

\* Mutant of FlushTemporary: the file is closed without FlushFileBuffers.
CloseTemporary(s) ==
    /\ pc[s] = "flush"
    /\ Goto(s, "install")
    /\ UNCHANGED <<pin, changes, keys, password, records, answered, temporary,
                   profile, receipt>>

FlushTemporary(s) ==
    /\ pc[s] = "flush"
    /\ \/ /\ Goto(s, "install")
          /\ temporary' = [temporary EXCEPT ![s] = "flushed"]
          /\ UNCHANGED <<pin, changes, keys, password, records, answered,
                         profile, receipt>>
       \/ StopAndDelete(s)

\* Mutant of Install: MOVEFILE_REPLACE_EXISTING.
InstallReplacing(s) ==
    /\ pc[s] = "install"
    /\ Goto(s, "reload")
    /\ profile' = [records |-> records[s], content |-> temporary[s]]
    /\ temporary' = [temporary EXCEPT ![s] = "none"]
    /\ UNCHANGED <<pin, changes, keys, password, records, answered, receipt>>

\* MoveFileExW without replacement: only the first session gets its file in.
Install(s) ==
    /\ pc[s] = "install"
    /\ \/ /\ profile = None
          /\ Goto(s, "reload")
          /\ profile' = [records |-> records[s], content |-> temporary[s]]
          /\ temporary' = [temporary EXCEPT ![s] = "none"]
          /\ UNCHANGED <<pin, changes, keys, password, records, answered,
                         receipt>>
       \/ StopAndDelete(s)

\* loadProfile, compared with what was saved; the program ends.
Reload(s) ==
    /\ pc[s] = "reload"
    /\ \/ /\ Loadable /\ profile.records = records[s]
          /\ Goto(s, "enrolled")
          /\ UNCHANGED <<pin, changes, keys, password, records, answered,
                         temporary, profile, receipt>>
       \/ Stop(s)

-------------------------------------------------------------------------------
(* The checks of the script: each is a program that exits with 0 or stops  *)
(* the script.                                                             *)

NextCheck == [enrolled |-> "second_saved", second_saved |-> "second_provider",
              second_provider |-> "first_provider",
              first_provider |-> "verified"]

\* swa_enroll --verify and swa_provider_host --authenticate: whichever enrolled
\* key is connected answers, and Windows accepts what its record holds.
Check(s, k) ==
    /\ pc[s] \in {"enrolled", "second_saved", "second_provider"}
    /\ Len(keys[s]) = 2    \* the script always passes two
    /\ \/ /\ Loadable /\ \E r \in Range(profile.records) : r.key = k
          /\ unlockAccount(profile.records, k) = pin
          /\ Goto(s, NextCheck[pc[s]])
          /\ answered' = [answered EXCEPT ![s] = @ \cup {k}]
          /\ UNCHANGED <<pin, changes, keys, password, records, temporary,
                         profile, receipt>>
       \/ Stop(s)

\* The cancellation check and the comparison of the hashes; then the receipt
\* 'both_keys_verified' is written.
WriteReceipt(s) ==
    /\ pc[s] = "first_provider"
    /\ \/ /\ Goto(s, NextCheck[pc[s]])
          /\ receipt' = s
          /\ UNCHANGED <<pin, changes, keys, password, records, answered,
                         temporary, profile>>
       \/ Stop(s)

-------------------------------------------------------------------------------
(* The environment. *)

ChangePin ==
    /\ changes < MaxChanges
    /\ \E p \in Pins \ {pin} : pin' = p
    /\ changes' = changes + 1
    /\ UNCHANGED <<sessionVars, temporary, profile, receipt>>

\* A session that is over; the user starts another.
Over == {"failed", "killed", "verified"}

\* A session is killed: its temporary file stays where it is.
Kill(s) ==
    /\ pc[s] \notin Over \cup {"idle"}
    /\ Goto(s, "killed")
    /\ UNCHANGED <<pin, changes, keys, password, records, answered, temporary,
                   profile, receipt>>

\* Bytes that were not flushed are lost, and so may be the receipt; a rename
\* that returned is not.
Lost(content) == IF content \in {"empty", "written"} THEN "torn" ELSE content

PowerLoss ==
    /\ pc' = [s \in Sessions |-> IF pc[s] \in Over \cup {"idle"} THEN pc[s]
                                                            ELSE "killed"]
    /\ temporary' = [s \in Sessions |-> Lost(temporary[s])]
    /\ profile' = IF profile = None THEN None
                  ELSE [profile EXCEPT !.content = Lost(@)]
    /\ receipt' \in {receipt, None}
    /\ UNCHANGED <<pin, changes, keys, password, records, answered>>

-------------------------------------------------------------------------------
\* The public profiles swa_enroll is started with.
Arguments == {<<k>> : k \in Keys} \cup (Keys \X Keys)

SessionStep(s) ==
    \/ \E ks \in Arguments : Start(s, ks)
    \/ CheckExists(s)
    \/ Prompt(s)
    \/ \E i \in 1 .. Len(keys[s]) : EnrollKey(s, i)
    \/ CreateTemporary(s)
    \/ WriteTemporary(s)
    \/ FlushTemporary(s)
    \/ Install(s)
    \/ Reload(s)
    \/ \E k \in Keys : Check(s, k)
    \/ WriteReceipt(s)
    \/ Kill(s)

Next ==
    \/ \E s \in Sessions : SessionStep(s)
    \/ ChangePin
    \/ PowerLoss

Spec == Init /\ [][Next]_vars

-------------------------------------------------------------------------------
(* Properties. *)

TypeOK ==
    /\ pin \in Pins /\ changes \in 0 .. MaxChanges
    /\ pc \in [Sessions -> PCs]
    /\ keys \in [Sessions -> Arguments \cup {<<>>}]
    /\ password \in [Sessions -> Pins \cup {None}]
    /\ \A s \in Sessions : Range(records[s]) \subseteq Record
    /\ temporary \in [Sessions -> Contents]
    /\ profile # None => /\ Range(profile.records) \subseteq Record
                         /\ profile.content \in Contents
    /\ answered \in [Sessions -> SUBSET Keys]
    /\ receipt \in Sessions \cup {None}

\* An enrolment is never overwritten, although every session looked for a
\* profile long before it installs its own.
FirstProfileStays ==
    [][profile # None => profile' # None /\ profile'.records = profile.records]_vars

\* Saving is all or nothing.  The installed profile is whole, whenever the
\* power failed: the file gets its name only once its bytes are on the disk.  A
\* session that stopped by an exception, at whichever step, has left no
\* temporary copy of the encrypted credential.
SaveIsAtomic ==
    /\ profile # None => profile.content # "torn"
    /\ \A s \in Sessions : pc[s] = "failed" => temporary[s] = "none"

\* Each key of the session that installed the profile opens it on its own, to
\* the credential Windows accepted in that session.
EitherKeyUnlocks ==
    profile # None =>
        \E s \in Sessions :
            /\ profile.records = records[s]
            /\ Len(records[s]) = Len(keys[s])
            /\ \A k \in Range(keys[s]) :
                  unlockAccount(profile.records, k) = password[s]

\* A session that was told its profile is saved, and the receipt it may have
\* written, are about the profile that is on the disk.
ReceiptDescribesProfile ==
    \A s \in Sessions :
        \/ pc[s] \in Checks \cup {"enrolled", "verified"}
        \/ receipt = s
        => Loadable /\ profile.records = records[s]

\* docs/SETUP.md:94: "It then verifies the saved profile, both keys' exact
\* Windows credential serialization ...  It saves a private validation receipt
\* only after the checks pass."
ReceiptMeansBothKeys ==
    receipt # None => Range(keys[receipt]) \subseteq answered[receipt]

===============================================================================

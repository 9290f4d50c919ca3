------------------------------ MODULE Credential ------------------------------
(***************************************************************************)
(* The Credential COM objects of src/src/provider.cpp: one sign-in tile    *)
(* each, a mutex-protected state shared between LogonUI's apartment thread *)
(* and the detached worker threads that wait for the security key.         *)
(*                                                                         *)
(* Every section of code that runs under mutex_ is one action.  LogonUI    *)
(* calls the object from one apartment thread (the class is registered     *)
(* with ThreadingModel=Apartment), so at most one GetSerialization is in   *)
(* progress; the other methods can still be called while it is inside the  *)
(* stock Windows PIN provider, whose COM calls may re-enter the apartment. *)
(* The secrets themselves are abstracted to the number of the attempt that *)
(* obtained them; 0 stands for "no secret".                                *)
(***************************************************************************)
EXTENDS Integers, FiniteSets

\* A definition marked as a mutant is a deliberately wrong variant of the one
\* that follows it.  No specification uses it; it serves to see that the
\* properties notice the mistake.

CONSTANTS
    MaxObjects,     \* bound: Credential objects ever created
    MaxGeneration,  \* bound: value of generation_ (64 bits wide in the code)
    MaxTick,        \* bound: value of the GetTickCount64 clock
    Expiry,         \* the 30000 ms a completed proof stays usable, in ticks
    PinTiles        \* the tiles whose profile holds a Windows PIN; the others
                    \* hold a password and use no bridge

ASSUME BoundsAssumption ==
    /\ MaxObjects \in Nat \ {0}
    /\ MaxGeneration \in Nat \ {0}
    /\ MaxTick \in Nat
    /\ Expiry \in Nat
    /\ PinTiles \subseteq 1 .. MaxObjects

Creds    == 1 .. MaxObjects
Attempts == 1 .. MaxGeneration
Secrets  == 0 .. MaxGeneration

\* Where a detached worker is.  "mute": COM could not be initialized or the
\* event sink not unmarshalled, so it neither authenticates nor notifies.
Running      == {"start", "proved", "failed", "mute"}
Unreleased   == Running \cup {"notify", "told", "release"}
WorkerStates == Unreleased \cup {"none", "epilogue", "gone"}

StatusTexts  == {"select", "touch", "verified", "failed", "canceled",
                 "nostart"}

VARIABLES
    life,           \* "unborn", "live" or "dead": constructed / destroyed
    owned,          \* objects in the Provider's credentials_
    handed,         \* objects LogonUI holds a reference to
    references,     \* references_
    providerEvents, \* providerEvents_ is not null
    generation,     \* generation_
    working,        \* working_
    ready,          \* readyPassword_: the attempt that obtained it, or 0
    readyAt,        \* readyAt_
    pinBridge,      \* pinBridge_: the attempt whose PIN it serialized, or 0
    status,         \* status_
    worker,         \* the detached thread of each attempt
    call,           \* the apartment thread's GetSerialization in progress
    pinned,         \* the module was pinned by begin()
    now,            \* GetTickCount64()
    \* history of the run, never read by the code
    automatic,      \* tiles LogonUI was told in this tick to submit
    voided,         \* attempts that were current when the tile was deselected
    produced        \* number of Windows credentials made from each attempt

objectVars  == <<life, owned, handed, references>>
secretVars  == <<ready, readyAt, pinBridge>>
historyVars == <<automatic, voided, produced>>
vars == <<objectVars, providerEvents, generation, working, secretVars, status,
          worker, call, pinned, now, historyVars>>

NoCall == [pc |-> "idle", cred |-> 0, attempt |-> 0, secret |-> 0]
Calls  == [pc : {"idle", "begin", "serialize"}, cred : 0 .. MaxObjects,
           attempt : Secrets, secret : Secrets]

Live(c) == life[c] = "live"

\* The apartment thread can run another method: it is idle, or inside a call
\* out to the stock PIN provider, which only a PIN profile makes.  Between the
\* lock section of GetSerialization and begin() there is no call out.
ApartmentFree ==
    \/ call.pc = "idle"
    \/ call.pc = "serialize" /\ call.cred \in PinTiles

\* LogonUI calls a tile through the reference GetCredentialAt gave it.
CanCall(c) == c \in handed /\ Live(c) /\ ApartmentFree

\* GetTickCount64()-readyAt_ <= 30000, as GetSerialization tests it, and the
\* complement of the > 30000 that ready() tests.
Fresh(c) == now - readyAt[c] <= Expiry

\* Mutant of Stale: ready() off by one.
ExpiresLater(c) == now - readyAt[c] > Expiry + 1

Stale(c) == now - readyAt[c] > Expiry

\* Mutant of DropReference: the last Release does not delete.
KeepDeadObject(S) ==
    /\ references' = [c \in Creds |-> IF c \in S THEN references[c] - 1
                                                 ELSE references[c]]
    /\ UNCHANGED life

\* Release() on the objects S; the destructor runs at zero.
DropReference(S) ==
    /\ references' = [c \in Creds |-> IF c \in S THEN references[c] - 1
                                                 ELSE references[c]]
    /\ life' = [c \in Creds |-> IF c \in S /\ references[c] = 1 THEN "dead"
                                                                ELSE life[c]]

-------------------------------------------------------------------------------
(* The initial state: no tile yet.  Members keep their initial values until *)
(* the object is constructed.                                              *)

Init ==
    /\ life = [c \in Creds |-> "unborn"]
    /\ owned = {}
    /\ handed = {}
    /\ references = [c \in Creds |-> 0]
    /\ providerEvents = [c \in Creds |-> FALSE]
    /\ generation = [c \in Creds |-> 0]
    /\ working = [c \in Creds |-> FALSE]
    /\ ready = [c \in Creds |-> 0]
    /\ readyAt = [c \in Creds |-> 0]
    /\ pinBridge = [c \in Creds |-> 0]
    /\ status = [c \in Creds |-> "select"]
    /\ worker = [c \in Creds |-> [a \in Attempts |-> "none"]]
    /\ call = NoCall
    /\ automatic = {}
    /\ pinned = FALSE
    /\ now = 0
    /\ voided = [c \in Creds |-> {}]
    /\ produced = [c \in Creds |-> [a \in Attempts |-> 0]]

\* What the Provider does to its tiles (Provider.tla says when).  It deselects
\* and polls tile after tile, each under that tile's own lock: steps of the
\* other tiles' workers in between commute with the ones that are left.
Construct(S, advised) ==
    /\ ApartmentFree
    /\ S \subseteq {c \in Creds : life[c] = "unborn"}
    /\ life' = [c \in Creds |-> IF c \in S THEN "live" ELSE life[c]]
    /\ references' = [c \in Creds |-> IF c \in S THEN 1 ELSE references[c]]
    /\ providerEvents' = [c \in Creds |-> IF c \in S THEN advised
                                                     ELSE providerEvents[c]]
    /\ owned' = owned \cup S
    /\ UNCHANGED <<handed, generation, working, secretVars, status, worker,
                   call, pinned, now, historyVars>>

setProviderEvents(S) ==
    /\ ApartmentFree
    /\ S \subseteq owned
    /\ providerEvents' = [c \in Creds |-> c \in S \/ providerEvents[c]]
    /\ UNCHANGED <<objectVars, generation, working, secretVars, status, worker,
                   call, pinned, now, historyVars>>

\* credentials_.clear(), by the destructor, which cancels nothing.
DropTiles ==
    /\ ApartmentFree
    /\ owned' = {}
    /\ DropReference(owned)
    /\ UNCHANGED <<handed, providerEvents, generation, working, secretVars,
                   status, worker, call, pinned, now, historyVars>>

\* LogonUI takes a reference with GetCredentialAt, and gives it back; it keeps
\* the one it is calling through.
GetCredentialAt(c) ==
    /\ ApartmentFree
    /\ c \in owned \ handed
    /\ handed' = handed \cup {c}
    /\ references' = [references EXCEPT ![c] = @ + 1]
    /\ UNCHANGED <<life, owned, providerEvents, generation, working,
                   secretVars, status, worker, call, pinned, now, historyVars>>

HostRelease(c) ==
    /\ ApartmentFree
    /\ c \in handed /\ call.cred # c
    /\ handed' = handed \ {c}
    /\ DropReference({c})
    /\ UNCHANGED <<owned, providerEvents, generation, working, secretVars,
                   status, worker, call, pinned, now, historyVars>>

-------------------------------------------------------------------------------
(* begin(): called by GetSerialization when it found no usable proof.  The *)
(* whole body runs under mutex_.  Each outcome is an action.  LogonUI is   *)
(* shown "Touch your key to sign in." for S_OK and for S_FALSE alike, that *)
(* is, whenever working_ is set on return, and an error text otherwise.    *)

InBegin(c) == call.pc = "begin" /\ call.cred = c

\* Mutant of CanBegin: working_ is not tested.
BeginAnyway(c) ==
    /\ InBegin(c)
    /\ providerEvents[c]
    /\ generation[c] < MaxGeneration

CanBegin(c) ==
    /\ InBegin(c)
    /\ ~working[c] /\ providerEvents[c]
    /\ generation[c] < MaxGeneration

\* Mutant of PinModule.
LeaveUnpinned == UNCHANGED pinned

\* GetModuleHandleExW(GET_MODULE_HANDLE_EX_FLAG_PIN): never unloaded again.
PinModule == pinned' = TRUE

BeginBusy(c) ==
    /\ InBegin(c)
    /\ working[c]
    /\ call' = NoCall
    /\ UNCHANGED <<objectVars, providerEvents, generation, working, secretVars,
                   status, worker, pinned, now, historyVars>>

\* No event sink, module cannot be pinned, or the sink cannot be marshalled:
\* an older proof has been discarded by then.
BeginRefused(c) ==
    /\ InBegin(c)
    /\ ~working[c]
    /\ ready' = [ready EXCEPT ![c] = 0]
    /\ \/ UNCHANGED pinned
       \/ providerEvents[c] /\ pinned' = TRUE
    /\ call' = NoCall
    /\ UNCHANGED <<objectVars, providerEvents, generation, working, readyAt,
                   pinBridge, status, worker, now, historyVars>>

BeginStarts(c) ==
    /\ CanBegin(c)
    /\ ready' = [ready EXCEPT ![c] = 0]
    /\ PinModule
    /\ generation' = [generation EXCEPT ![c] = @ + 1]
    /\ working' = [working EXCEPT ![c] = TRUE]
    /\ status' = [status EXCEPT ![c] = "touch"]
    /\ references' = [references EXCEPT ![c] = @ + 1]
    /\ worker' = [worker EXCEPT ![c][generation[c] + 1] = "start"]
    /\ call' = NoCall
    /\ UNCHANGED <<life, owned, handed, providerEvents, readyAt, pinBridge,
                   now, historyVars>>

\* std::thread threw: the flag and the reference are taken back, the new
\* generation is not.
BeginThreadFails(c) ==
    /\ CanBegin(c)
    /\ ready' = [ready EXCEPT ![c] = 0]
    /\ PinModule
    /\ generation' = [generation EXCEPT ![c] = @ + 1]
    /\ status' = [status EXCEPT ![c] = "nostart"]
    /\ call' = NoCall
    /\ UNCHANGED <<objectVars, providerEvents, working, readyAt, pinBridge,
                   worker, now, historyVars>>

-------------------------------------------------------------------------------
(* The detached worker thread of attempt a. *)

MoveWorker(c, a, from, to) ==
    /\ worker[c][a] = from
    /\ worker' = [worker EXCEPT ![c][a] = to]

\* Mutant of WorkerAuthenticate: return when COM cannot be initialized.
MuteReturnsEarly(c, a) ==
    /\ \E to \in {"proved", "failed", "release"} :
          MoveWorker(c, a, "start", to)
    /\ UNCHANGED <<objectVars, providerEvents, generation, working, secretVars,
                   status, call, pinned, now, historyVars>>

\* CoInitializeEx and CoGetInterfaceAndReleaseStream, then unlockAccount and
\* the shape checks on the secret; every exception leaves the worker without
\* one.  Nothing of this touches the tile: it is one step of the thread.
WorkerAuthenticate(c, a) ==
    /\ \E to \in {"proved", "failed", "mute"} : MoveWorker(c, a, "start", to)
    /\ UNCHANGED <<objectVars, providerEvents, generation, working, secretVars,
                   status, call, pinned, now, historyVars>>

\* Mutant of Publish: the generation is not compared.
PublishLate(c, a) ==
    /\ worker[c][a] = "proved"
    /\ ready' = [ready EXCEPT ![c] = a]
    /\ readyAt' = [readyAt EXCEPT ![c] = now]
    /\ status' = [status EXCEPT ![c] = "verified"]

\* The result of a worker counts only if its attempt is still the current one.
Publish(c, a) ==
    \/ /\ a = generation[c] /\ worker[c][a] = "proved"
       /\ ready' = [ready EXCEPT ![c] = a]
       /\ readyAt' = [readyAt EXCEPT ![c] = now]
       /\ status' = [status EXCEPT ![c] = "verified"]
    \/ /\ a = generation[c] /\ worker[c][a] # "proved"
       /\ status' = [status EXCEPT ![c] = "failed"]
       /\ UNCHANGED <<ready, readyAt>>
    \/ /\ a # generation[c]
       /\ UNCHANGED <<ready, readyAt, status>>

\* The locked section that publishes the result.
WorkerFinish(c, a) ==
    /\ worker[c][a] \in {"proved", "failed", "mute"}
    /\ worker' = [worker EXCEPT ![c][a] = IF @ = "mute" THEN "release"
                                                        ELSE "notify"]
    /\ working' = [working EXCEPT ![c] = FALSE]
    /\ Publish(c, a)
    /\ UNCHANGED <<objectVars, providerEvents, generation, pinBridge, call,
                   pinned, now, historyVars>>

\* notify->CredentialsChanged(context), outside the lock.
WorkerNotify(c, a) ==
    /\ MoveWorker(c, a, "notify", "told")
    /\ UNCHANGED <<objectVars, providerEvents, generation, working, secretVars,
                   status, call, pinned, now, historyVars>>

\* Mutant of WorkerRelease: the notification may be skipped.
ReleaseUntold(c, a) ==
    /\ \E from \in {"notify", "told", "release"} :
          MoveWorker(c, a, from, "epilogue")
    /\ DropReference({c})
    /\ UNCHANGED <<owned, handed, providerEvents, generation, working,
                   secretVars, status, call, pinned, now, historyVars>>

\* Mutant of WorkerRelease: no Release().
ExitWithoutRelease(c, a) ==
    /\ \E from \in {"told", "release"} : MoveWorker(c, a, from, "epilogue")
    /\ UNCHANGED <<objectVars, providerEvents, generation, working,
                   secretVars, status, call, pinned, now, historyVars>>

\* CoUninitialize; Release().  The thread then still has its epilogue to run,
\* inside this module's code.
WorkerRelease(c, a) ==
    /\ \E from \in {"told", "release"} : MoveWorker(c, a, from, "epilogue")
    /\ DropReference({c})
    /\ UNCHANGED <<owned, handed, providerEvents, generation, working,
                   secretVars, status, call, pinned, now, historyVars>>

WorkerExit(c, a) ==
    /\ MoveWorker(c, a, "epilogue", "gone")
    /\ UNCHANGED <<objectVars, providerEvents, generation, working, secretVars,
                   status, call, pinned, now, historyVars>>

WorkerStep(c, a) ==
    \/ WorkerAuthenticate(c, a)
    \/ WorkerFinish(c, a)
    \/ WorkerNotify(c, a)
    \/ WorkerRelease(c, a)
    \/ WorkerExit(c, a)

-------------------------------------------------------------------------------
(* The methods LogonUI calls. *)

\* ready() on every tile of S: an expired proof is dropped.
Poll(S) ==
    ready' = [c \in Creds |-> IF c \in S /\ Stale(c) THEN 0 ELSE ready[c]]

\* LogonUI learns for each tile of S whether it may submit it automatically.
Announce(S) ==
    automatic' = (automatic \ S) \cup {c \in S : ready'[c] # 0}

PollTiles(S, selected) ==
    /\ ApartmentFree
    /\ selected \subseteq S /\ S \subseteq owned
    /\ Poll(S)
    /\ Announce(selected)
    /\ UNCHANGED <<objectVars, providerEvents, generation, working, readyAt,
                   pinBridge, status, worker, call, pinned, now, voided,
                   produced>>

SetSelected(c) ==
    /\ CanCall(c)
    /\ Poll({c})
    /\ Announce({c})
    /\ UNCHANGED <<objectVars, providerEvents, generation, working, readyAt,
                   pinBridge, status, worker, call, pinned, now, voided,
                   produced>>

\* Mutant of ResetStatus.
KeepStatus(S) == UNCHANGED status

ResetStatus(S) ==
    status' = [c \in Creds |-> IF c \notin S THEN status[c]
                               ELSE IF working[c] THEN "canceled"
                                                  ELSE "select"]

\* SetDeselected on every tile of S.
Deselect(S) ==
    /\ \A c \in S : generation[c] < MaxGeneration
    /\ generation' = [c \in Creds |-> IF c \in S THEN generation[c] + 1
                                                 ELSE generation[c]]
    /\ ready' = [c \in Creds |-> IF c \in S THEN 0 ELSE ready[c]]
    /\ pinBridge' = [c \in Creds |-> IF c \in S THEN 0 ELSE pinBridge[c]]
    /\ ResetStatus(S)
    /\ automatic' = automatic \ S
    /\ voided' = [c \in Creds |-> IF c \in S
                                  THEN voided[c] \cup {generation[c]}
                                  ELSE voided[c]]

SetDeselected(c) ==
    /\ CanCall(c)
    /\ Deselect({c})
    /\ UNCHANGED <<objectVars, providerEvents, working, readyAt, worker, call,
                   pinned, now, produced>>

\* SetDeselected on every tile of the list, then credentials_.clear().
CancelTiles ==
    /\ ApartmentFree
    /\ Deselect(owned)
    /\ owned' = {}
    /\ DropReference(owned)
    /\ UNCHANGED <<handed, providerEvents, working, readyAt, worker, call,
                   pinned, now, produced>>

\* ReportResult only calls SetDeselected and formats a message; LogonUI makes
\* the call for a tile that produced a credential.
ReportResult(c) ==
    /\ \E a \in Attempts : produced[c][a] > 0
    /\ SetDeselected(c)

\* Mutant of GetSerialization: readyPassword_ is copied, not moved.
SerializeKeepsProof(c) ==
    /\ CanCall(c)
    /\ call = NoCall
    /\ call' = IF ready[c] # 0 /\ Fresh(c)
               THEN [pc |-> "serialize", cred |-> c, attempt |-> generation[c],
                     secret |-> ready[c]]
               ELSE [pc |-> "begin", cred |-> c, attempt |-> generation[c],
                     secret |-> 0]
    /\ automatic' = automatic \ {c}
    /\ UNCHANGED <<objectVars, providerEvents, generation, working, ready,
                   readyAt, pinBridge, status, worker, pinned, now, voided,
                   produced>>

\* The first lock section of GetSerialization: take the proof if it has not
\* expired, and leave none behind.
GetSerialization(c) ==
    /\ CanCall(c)
    /\ call = NoCall
    /\ call' = IF ready[c] # 0 /\ Fresh(c)
               THEN [pc |-> "serialize", cred |-> c, attempt |-> generation[c],
                     secret |-> ready[c]]
               ELSE [pc |-> "begin", cred |-> c, attempt |-> generation[c],
                     secret |-> 0]
    /\ ready' = [ready EXCEPT ![c] = 0]
    /\ automatic' = automatic \ {c}
    /\ UNCHANGED <<objectVars, providerEvents, generation, working, readyAt,
                   pinBridge, status, worker, pinned, now, voided, produced>>

\* The stock PIN provider or the packing failed: E_FAIL.
SerializeThrows(c) ==
    /\ call.pc = "serialize" /\ call.cred = c
    /\ call' = NoCall
    /\ UNCHANGED <<objectVars, providerEvents, generation, working, secretVars,
                   status, worker, pinned, now, historyVars>>

\* Mutant of Complete: the generation is not compared.
CompleteUnchecked(c) ==
    /\ call.pc = "serialize" /\ call.cred = c
    /\ pinBridge' = [pinBridge EXCEPT
                        ![c] = IF c \in PinTiles THEN call.secret ELSE 0]
    /\ produced' = [produced EXCEPT ![c][call.secret] = @ + 1]
    /\ call' = NoCall
    /\ UNCHANGED <<objectVars, providerEvents, generation, working, ready,
                   readyAt, status, worker, automatic, pinned, now, voided>>

\* The completion section.  A deselection during serialization shows as a
\* different generation_ and no credential leaves.  The bridge (null for a
\* password profile) is stored before the output buffer is allocated, which
\* can fail.
Complete(c) ==
    /\ call.pc = "serialize" /\ call.cred = c
    /\ \/ /\ generation[c] # call.attempt
          /\ UNCHANGED <<pinBridge, produced>>
       \/ /\ generation[c] = call.attempt
          /\ pinBridge' = [pinBridge EXCEPT
                              ![c] = IF c \in PinTiles THEN call.secret ELSE 0]
          /\ \/ UNCHANGED produced
             \/ produced' = [produced EXCEPT ![c][call.secret] = @ + 1]
    /\ call' = NoCall
    /\ UNCHANGED <<objectVars, providerEvents, generation, working, ready,
                   readyAt, status, worker, automatic, pinned, now, voided>>

Tick ==
    /\ now < MaxTick
    /\ now' = now + 1
    /\ automatic' = {}
    /\ UNCHANGED <<objectVars, providerEvents, generation, working, secretVars,
                   status, worker, call, pinned, voided, produced>>

-------------------------------------------------------------------------------
(* The tiles under any Provider: it may construct, poll and drop them in    *)
(* any order.                                                               *)

Begin(c) ==
    BeginBusy(c) \/ BeginRefused(c) \/ BeginStarts(c) \/ BeginThreadFails(c)

TileStep(c) ==
    \/ GetCredentialAt(c)
    \/ HostRelease(c)
    \/ Begin(c)
    \/ SetSelected(c)
    \/ SetDeselected(c)
    \/ ReportResult(c)
    \/ GetSerialization(c)
    \/ SerializeThrows(c)
    \/ Complete(c)

ProviderStep ==
    \/ \E S \in SUBSET Creds, advised \in BOOLEAN : Construct(S, advised)
    \/ \E S \in SUBSET Creds : setProviderEvents(S)
    \/ \E S, selected \in SUBSET Creds : PollTiles(S, selected)
    \/ CancelTiles
    \/ DropTiles

Next ==
    \/ \E c \in Creds : TileStep(c)
    \/ \E c \in Creds, a \in Attempts : WorkerStep(c, a)
    \/ ProviderStep
    \/ Tick

\* A worker never waits without a deadline: the key request ends after 15 s,
\* the lock is only held for short sections, and nothing else blocks it.
\* LogonUI is under no obligation to call anything.
Fairness == \A c \in Creds, a \in Attempts : WF_vars(WorkerStep(c, a))

Spec == Init /\ [][Next]_vars
FairSpec == Spec /\ Fairness

-------------------------------------------------------------------------------
(* Properties. *)

TypeOK ==
    /\ life \in [Creds -> {"unborn", "live", "dead"}]
    /\ owned \in SUBSET Creds
    /\ handed \in SUBSET Creds
    /\ references \in [Creds -> Int]
    /\ providerEvents \in [Creds -> BOOLEAN]
    /\ generation \in [Creds -> Secrets]
    /\ working \in [Creds -> BOOLEAN]
    /\ ready \in [Creds -> Secrets]
    /\ readyAt \in [Creds -> 0 .. MaxTick]
    /\ pinBridge \in [Creds -> Secrets]
    /\ status \in [Creds -> StatusTexts]
    /\ worker \in [Creds -> [Attempts -> WorkerStates]]
    /\ call \in Calls
    /\ automatic \in SUBSET Creds
    /\ pinned \in BOOLEAN
    /\ now \in 0 .. MaxTick
    /\ voided \in [Creds -> SUBSET Secrets]
    /\ produced \in [Creds -> [Attempts -> Nat]]

RunningAttempts(c) == {a \in Attempts : worker[c][a] \in Running}

\* working_ is exactly "a worker of this tile has not reached its locked
\* section yet", and there is never a second one: a tile never has two key
\* requests in flight, however often it is deselected and submitted again.
OneRequestPerTile ==
    \A c \in Creds :
        /\ working[c] <=> RunningAttempts(c) # {}
        /\ \A a, b \in RunningAttempts(c) : a = b

\* A stored proof belongs to the current generation: the answer of a worker
\* that was canceled or superseded while it waited is never stored.
ProofIsCurrent ==
    \A c \in Creds : ready[c] # 0 => ready[c] = generation[c]

\* One touch signs in at most once, whatever LogonUI calls in which order.
ProofSpentOnce ==
    \A c \in Creds, a \in Attempts : produced[c][a] <= 1

\* No credential leaves for an attempt that was deselected, reported or torn
\* down at any time before, also while the stock PIN provider was
\* serializing it.
NeverFromCanceled ==
    [][\A c \in Creds, a \in Attempts :
          produced'[c][a] > produced[c][a] => a \notin voided[c]]_vars

\* A canceled serialization leaves no stock provider behind in the tile.
BridgeNeverOutlivesCancel ==
    \A c \in Creds : pinBridge[c] # 0 => pinBridge[c] \notin voided[c]

\* references_ counts the Provider's list, LogonUI's pointer and every worker
\* that has not called Release, so no thread uses a destroyed tile and a tile
\* nobody refers to is destroyed.
ReferencesExact ==
    \A c \in Creds :
        /\ references[c] = Cardinality({c} \cap owned)
                         + Cardinality({c} \cap handed)
                         + Cardinality({a \in Attempts :
                                          worker[c][a] \in Unreleased})
        /\ references[c] > 0 <=> Live(c)

(* The inductive invariant behind the four properties above. *)

\* Generations beyond the current one were never used, and every voided one
\* lies in the past.
AttemptsInOrder ==
    \A c \in Creds :
        /\ \A a \in Attempts : a > generation[c] => worker[c][a] = "none"
        /\ \A v \in voided[c] : v < generation[c]

Holds(c, a) == call.cred = c /\ call.secret = a

\* A call that serializes does so with the secret of the generation it read
\* under the lock.
CallCoherent ==
    /\ call.pc = "idle" => call = NoCall
    /\ call.pc = "begin" => call.cred \in Creds /\ call.secret = 0
    /\ call.pc = "serialize" =>
          /\ call.cred \in Creds /\ call.secret \in Attempts
          /\ call.attempt = call.secret
          /\ call.secret <= generation[call.cred]

\* The secret of an attempt is in one place: with its running worker, in
\* readyPassword_, or in the call; wherever it is, it has not been spent.
SecretInOnePlace ==
    \A c \in Creds, a \in Attempts :
        /\ worker[c][a] \in Running \cup {"none"} =>
              produced[c][a] = 0 /\ ready[c] # a /\ ~Holds(c, a)
        /\ ready[c] = a => produced[c][a] = 0 /\ ~Holds(c, a)
        /\ Holds(c, a) => produced[c][a] = 0

TileInvariant ==
    /\ OneRequestPerTile
    /\ ProofIsCurrent
    /\ ProofSpentOnce
    /\ BridgeNeverOutlivesCancel
    /\ AttemptsInOrder
    /\ CallCoherent
    /\ SecretInOnePlace

\* What became of an attempt, as TouchAuthority.tla sees it.
PhaseOf(c, a) ==
    IF worker[c][a] = "none" THEN "idle"
    ELSE IF produced[c][a] > 1 THEN "signed twice"
    ELSE IF produced[c][a] = 1 THEN "signed"
    ELSE IF a # generation[c] THEN "void"
    ELSE IF worker[c][a] \in Running THEN "requested"
    ELSE IF ready[c] = a THEN "proved"
    ELSE IF call.cred = c /\ call.secret = a THEN "claimed"
    ELSE "void"

Authority ==
    INSTANCE TouchAuthority
    WITH Tiles <- Creds,
         phase <- [c \in Creds |-> [a \in Attempts |-> PhaseOf(c, a)]]

\* The tiles, with their threads, locks and generations, implement the
\* one-time authority.
ImplementsAuthority == Authority!Spec

\* The tile asks for a touch exactly while a request is in flight whose answer
\* it would accept.
TouchStatusTruthful ==
    \A c \in Creds :
        status[c] = "touch" <=> generation[c] \in RunningAttempts(c)

\* If LogonUI was told to submit the tile automatically and does so in the
\* same tick, it gets the proof rather than a second request for a touch:
\* ready() and GetSerialization agree at the expiry boundary.
AutomaticHonoured ==
    [][\A c \in Creds :
          /\ c \in automatic
          /\ call.pc = "idle" /\ call'.pc # "idle" /\ call'.cred = c
          => call'.pc = "serialize"]_vars

\* A stored proof is given up only by being used, by expiring or by a
\* deselection, report or teardown.
FreshProofKept ==
    [][\A c \in Creds :
          ready[c] # 0 /\ ready'[c] = 0 =>
              \/ call'.secret = ready[c]
              \/ Stale(c)
              \/ generation[c] \in voided'[c]]_vars

\* When LogonUI has been told "Touch your key to sign in.", the request in
\* flight is one whose answer the tile accepts.
PromptedTouchCounts ==
    [][\A c \in Creds :
          InBegin(c) /\ call'.pc = "idle" /\ working'[c] =>
              generation'[c] \in RunningAttempts(c)']_vars

\* A request that is started is answered: the tile does not stay busy.
RequestEnds ==
    \A c \in Creds : working[c] ~> ~working[c]

\* LogonUI is told of every proof that was obtained.
ProofAnnounced ==
    \A c \in Creds, a \in Attempts :
        worker[c][a] = "proved" ~> worker[c][a] = "told"

\* Tiles that neither the Provider nor LogonUI holds are destroyed once their
\* workers have ended.
OrphanDestroyed ==
    \A c \in Creds :
        (Live(c) /\ c \notin owned \cup handed) ~> ~Live(c)

===============================================================================

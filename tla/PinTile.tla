------------------------------- MODULE PinTile --------------------------------
(***************************************************************************)
(* A sign-in tile whose profile holds a Windows PIN, seen from the bridge: *)
(* the Credential of src/src/provider.cpp with the stock provider's calls  *)
(* inside GetSerialization as steps (Credential.tla has the whole tile,    *)
(* with those calls as one step).  LogonUI may call SetDeselected or       *)
(* ReportResult while one of them runs.                                    *)
(***************************************************************************)
EXTENDS WindowsPin

CONSTANT MaxGeneration  \* bound: value of generation_

VARIABLES
    dll,        \* the DLL registered under CLSID_SovereignAuth: "tile" for
                \* provider.cpp, "fixture" for pin_bridge_vm.cpp
    holders,    \* who holds a reference to the Credential object
    pin,        \* readyPassword_ (fixture: pin_), or 0
    kept,       \* pinBridge_ (fixture: bridge_), or 0
    generation, \* generation_
    call,       \* the GetSerialization in progress
    entered,    \* number of PINs obtained so far
    submitted,  \* history: the bridge whose credential LogonUI is trying
    stuck       \* the apartment thread was called again while it held mutex_
                \* and never gets on

tileVars == <<dll, holders, pin, kept, generation, call, entered, submitted,
              stuck>>

NoCall == [bridge |-> 0, pin |-> 0, attempt |-> 0]

TileInit ==
    /\ holders = {}
    /\ pin = 0 /\ kept = 0 /\ generation = 0
    /\ call = NoCall
    /\ entered = 0 /\ submitted = 0 /\ stuck = FALSE

Idle   == call = NoCall /\ ~stuck
Held   == "logonui" \in holders
InCall == call # NoCall /\ ~stuck

\* LogonUI's thread can enter the production tile: idle, or dispatching calls
\* inside a stock call.  The fixture has no guard against being entered there
\* and is taken not to be.
CanEnter == Held /\ ~stuck /\ (InCall => bridge[call.bridge].pc \in Pumps)

\* ComPtr::Reset of one holder; the destructor runs with the last, and it
\* takes the members along.
Drop(who) ==
    /\ who \in holders
    /\ holders' = holders \ {who}
    /\ IF holders = {who}
       THEN /\ bridge' = Without({kept} \cap Bridges)
            /\ pin' = 0 /\ kept' = 0 /\ submitted' = 0
       ELSE UNCHANGED <<bridge, pin, kept, submitted>>
    /\ UNCHANGED <<offered, dll, generation, call, entered, stuck>>

GetCredentialAt ==
    /\ Idle
    /\ "provider" \in holders /\ ~Held
    /\ holders' = holders \cup {"logonui"}
    /\ UNCHANGED <<bridgeVars, dll, pin, kept, generation, call, entered,
                   submitted, stuck>>

LogonUIRelease == Idle /\ Drop("logonui")

\* The GetSerialization in progress makes its next stock call.  The fixture
\* assigns a constructed bridge to its member before it goes on.
CallStep ==
    /\ InCall
    /\ dll = "fixture" /\ bridge[call.bridge].pc = "set" =>
          kept = call.bridge
    /\ StockStep(call.bridge, call.pin)
    /\ UNCHANGED tileVars

-------------------------------------------------------------------------------
(* The production tile. *)

\* enumerate() constructs the object; one at a time is modelled.
Enumerate ==
    /\ dll = "tile" /\ Idle /\ holders = {}
    /\ holders' = {"provider"}
    /\ generation' = 0
    /\ UNCHANGED <<bridgeVars, dll, pin, kept, call, entered, submitted,
                   stuck>>

\* ~Provider(), which cancels nothing; clear() calls SetDeselected before.
ProviderRelease == dll = "tile" /\ Idle /\ Drop("provider")

\* GetSerialization finds no usable proof, begin() starts a worker, and the
\* worker publishes its PIN: a new generation.  A worker whose attempt was
\* canceled publishes nothing.
KeyProof ==
    /\ dll = "tile" /\ Idle /\ Held
    /\ entered < MaxPins /\ generation < MaxGeneration
    /\ entered' = entered + 1
    /\ pin' = entered + 1
    /\ generation' = generation + 1
    /\ UNCHANGED <<bridgeVars, dll, holders, kept, call, submitted, stuck>>

\* ready() or GetSerialization drops a proof that is over 30 seconds old.
ProofExpires ==
    /\ dll = "tile" /\ Idle /\ pin # 0
    /\ pin' = 0
    /\ UNCHANGED <<bridgeVars, dll, holders, kept, generation, call, entered,
                   submitted, stuck>>

\* Mutant of TakePin: readyPassword_ is copied.
CopyPin(b) ==
    /\ call' = [bridge |-> b, pin |-> pin, attempt |-> generation]
    /\ UNCHANGED <<pin, kept>>

\* Mutant of TakePin: the bridge is the tile's member from the beginning.
TakePinPublished(b) ==
    /\ call' = [bridge |-> b, pin |-> pin, attempt |-> generation]
    /\ pin' = 0
    /\ kept' = b

\* The first locked section moves the proof out and notes the generation; the
\* lock is released before the bridge, a local variable, is constructed.
TakePin(b) ==
    /\ call' = [bridge |-> b, pin |-> pin, attempt |-> generation]
    /\ pin' = 0
    /\ UNCHANGED kept

GetSerialization(b) ==
    /\ dll = "tile" /\ Idle /\ Held
    /\ pin # 0 /\ Fresh(b)
    /\ TakePin(b)
    /\ bridge' = [bridge EXCEPT ![b].pc = "create"]
    /\ UNCHANGED <<offered, dll, holders, generation, entered, submitted,
                   stuck>>

Served == InCall /\ bridge[call.bridge].pc = "served"
Thrown == InCall /\ bridge[call.bridge].pc = "thrown"

\* The tile was deselected meanwhile: no credential, and the local bridge is
\* destroyed once the lock is released; a call to the tile that LogonUI makes
\* then is not held up, as if it came before or after.
GetSerializationStale ==
    /\ dll = "tile" /\ Served
    /\ generation # call.attempt
    /\ bridge' = Without({call.bridge})
    /\ call' = NoCall
    /\ UNCHANGED <<offered, dll, holders, pin, kept, generation, entered,
                   submitted, stuck>>

\* The teardown of the tile's bridge under mutex_.  When one of its stock calls
\* lets LogonUI call the tile, whichever method comes first (SetDeselected,
\* ready, GetStringValue, GetSerialization) locks mutex_ on the thread that has
\* it, which is undefined: either that call fails before it has done anything
\* and the teardown goes on, or the thread waits for itself, or LogonUI ends.
TearDownKept ==
    \/ /\ bridge' = Without({kept} \cap Bridges)
       /\ UNCHANGED stuck
    \/ /\ kept # 0 /\ "teardown" \in Pumps
       /\ \E r \in TornAt(bridge[kept]) :
             bridge' = [bridge EXCEPT ![kept] = r]
       /\ stuck' = TRUE

\* Mutant of KeepBridge: the bridge ends with GetSerialization.
ForgetBridge ==
    /\ kept' = 0
    /\ bridge' = Without({call.bridge, kept} \cap Bridges)
    /\ UNCHANGED stuck

\* pinBridge_ = std::move(pinBridge): the member has its new value before an
\* older bridge is destroyed.
KeepBridge ==
    /\ kept' = call.bridge
    /\ TearDownKept

\* The second locked section; password is reset before it.  CoTaskMemAlloc may
\* fail, with the bridge kept.  A thread that never comes back from the
\* teardown of the older bridge returns nothing to LogonUI.
GetSerializationCompletes ==
    /\ dll = "tile" /\ Served
    /\ generation = call.attempt
    /\ KeepBridge
    /\ \/ /\ ~stuck'
          /\ call' = NoCall
          /\ submitted' \in {call.bridge, 0}
       \/ /\ stuck'
          /\ call' = [call EXCEPT !.pin = 0]
          /\ submitted' = 0
    /\ UNCHANGED <<offered, dll, holders, pin, generation, entered>>

\* The catch clauses: unwinding destroys the local bridge.
GetSerializationFails ==
    /\ dll = "tile" /\ Thrown
    /\ bridge' = Without({call.bridge})
    /\ call' = NoCall
    /\ UNCHANGED <<offered, dll, holders, pin, kept, generation, entered,
                   submitted, stuck>>

\* Mutant of Invalidate: the bridge is reset before the proof.
InvalidateLast ==
    /\ TearDownKept
    /\ kept' = 0 /\ submitted' = 0
    /\ IF stuck' THEN UNCHANGED <<generation, pin>>
                 ELSE generation' = generation + 1 /\ pin' = 0

\* ++generation_, readyPassword_.reset() and pinBridge_.reset(), in this order:
\* all but the teardown is done when the teardown begins.
Invalidate ==
    /\ generation' = generation + 1
    /\ pin' = 0
    /\ kept' = 0 /\ submitted' = 0
    /\ TearDownKept

\* SetDeselected, which ReportResult and Provider::clear() call as well.
SetDeselected ==
    /\ dll = "tile" /\ CanEnter
    /\ generation < MaxGeneration
    /\ Invalidate
    /\ UNCHANGED <<offered, dll, holders, call, entered>>

TileNext ==
    \/ Enumerate \/ ProviderRelease \/ KeyProof \/ ProofExpires
    \/ \E b \in Bridges : GetSerialization(b)
    \/ GetSerializationStale \/ GetSerializationCompletes
    \/ GetSerializationFails \/ SetDeselected

-------------------------------------------------------------------------------
\* Nothing is left with the stock provider.  A PIN is in its field only while
\* the GetSerialization that put it there is running: on every other path,
\* error paths included, it has been taken back, also from the bridge a tile
\* keeps.  A bridge that is gone left no PIN, no selection and no event sink,
\* however far initialize() came and whichever call threw.
NothingLeftBehind ==
    \A b \in Bridges :
        /\ bridge[b].field # 0 => call.bridge = b
        /\ bridge[b].pc = "dead" => bridge[b].has = {} /\ bridge[b].field = 0

\* A PIN is put before the stock provider once: a wrong one must not count
\* several times towards the lockout, whoever asks again for a credential.
PinOfferedOnce == \A p \in Pins : offered[p] <= 1

\* No deselection or result that LogonUI delivers in the middle of a stock call
\* destroys, or begins to destroy, the bridge that is making the call.
BridgeOutlivesCall ==
    call # NoCall => bridge[call.bridge].pc \notin {"teardown", "dead"}

\* The stock provider and credential that made a Windows credential stay
\* connected until LogonUI has the result of using it, or gives it up.
BridgeKeptForResult == submitted # 0 => bridge[submitted].pc = "served"

\* The teardown under mutex_ can end with a thread that never gets on, and with
\* mutex_ held forever.  By then the tile is harmless: it has no proof left to
\* turn into a credential (a worker cannot publish another), LogonUI is not
\* using a credential whose bridge is half gone, and a GetSerialization that is
\* under way around the teardown either has no PIN any more or was canceled,
\* so that its last check would refuse the credential.
StuckIsCanceled ==
    stuck => /\ pin = 0 /\ submitted = 0
             /\ call # NoCall => call.pin = 0 \/ generation # call.attempt

===============================================================================

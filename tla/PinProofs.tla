------------------------------- MODULE PinProofs ------------------------------
(***************************************************************************)
(* Proofs about WindowsPin.tla, PinTile.tla, PinBridgeVm.tla and           *)
(* PinSignIn.tla: for any number of bridges, PINs and providers, whichever *)
(* stock call fails and in whichever of them LogonUI calls the tile, no    *)
(* PIN stays with the stock provider, none is offered twice, and no bridge *)
(* is destroyed under a call it is making.                                 *)
(***************************************************************************)
EXTENDS PinSignIn, TLAPS

Members == {"provider", "sink", "credential", "credentialSink", "selected",
            "hasPinField"}
Records == [pc : StockCalls \cup {"unborn", "thrown", "served", "dead"},
            has : SUBSET Members, field : 0 .. MaxPins]
Dead    == [pc |-> "dead", has |-> {}, field |-> 0]

CoreTypeOK ==
    /\ bridge \in [Bridges -> Records]
    /\ offered \in [Pins -> Nat]
    /\ dll \in {"tile", "fixture"}
    /\ pin \in 0 .. MaxPins
    /\ kept \in 0 .. MaxBridges
    /\ call \in [bridge : 0 .. MaxBridges, pin : 0 .. MaxPins,
                 attempt : Int]
    /\ entered \in 0 .. MaxPins
    /\ submitted \in 0 .. MaxBridges

PinTypeOK == CoreTypeOK /\ generation \in Nat /\ stuck \in BOOLEAN

-------------------------------------------------------------------------------
(* The inductive invariant. *)

\* Where a bridge has its stock provider, its credential, the PIN field.
HasProvider   == StockCalls \ {"create", "teardown"}
HasCredential == {"connect", "select", "fields", "set", "get", "clear",
                  "clearFailed", "served"}
HasField      == {"set", "get", "clear", "clearFailed", "served"}
Gone          == {"unborn", "teardown", "dead"}
MayHoldPin    == {"get", "clear", "clearFailed", "thrown"}

\* A bridge always knows enough to undo what it did: what ~Impl() tests is
\* there whenever there is something to undo.
Undoable(r) ==
    /\ r.pc \in HasProvider => "provider" \in r.has
    /\ r.pc \in HasCredential => "credential" \in r.has
    /\ r.pc \in HasField => "hasPinField" \in r.has
    /\ "sink" \in r.has => "provider" \in r.has
    /\ "credentialSink" \in r.has \/ "selected" \in r.has =>
          "credential" \in r.has
    /\ r.field # 0 => /\ "credential" \in r.has /\ "hasPinField" \in r.has
                      /\ r.pc \in MayHoldPin
    /\ r.pc \in {"unborn", "dead"} => r.has = {} /\ r.field = 0

BridgesUndoable == \A b \in Bridges : Undoable(bridge[b])

\* Every bridge alive and not being torn down belongs to the running
\* GetSerialization or to the tile.
BridgesOwned ==
    \A b \in Bridges : bridge[b].pc \notin Gone => b = call.bridge \/ b = kept

\* A running GetSerialization has a bridge, and a PIN until it has served.
CallInOrder ==
    call # NoCall =>
       /\ call.bridge \in Bridges /\ bridge[call.bridge].pc \notin Gone
       /\ bridge[call.bridge].pc # "served" => call.pin \in Pins

\* The bridge a tile keeps has served, and is not the one of a running call
\* that still has its PIN; the fixture's member is the running one from its
\* construction on.
KeptInOrder ==
    /\ kept # 0 /\ kept # call.bridge => bridge[kept].pc = "served"
    /\ kept # 0 /\ dll = "tile" /\ call.pin # 0 => kept # call.bridge
    /\ dll = "fixture" /\ call # NoCall
       /\ bridge[call.bridge].pc \in {"get", "clear", "clearFailed", "served"}
          => kept = call.bridge

SubmittedIsKept ==
    submitted # 0 => submitted = kept /\ bridge[kept].pc = "served"

\* A PIN that can still be supplied was not supplied before.
NewPins ==
    /\ \A p \in Pins : offered[p] <= 1 /\ (p > entered => offered[p] = 0)
    /\ pin <= entered /\ call.pin <= entered
    /\ pin # 0 /\ call = NoCall => offered[pin] = 0
    /\ dll = "tile" /\ call # NoCall => pin = 0
    /\ call # NoCall /\ bridge[call.bridge].pc \in DOMAIN After \cup {"set"}
          => offered[call.pin] = 0

PinInvariant ==
    /\ BridgesUndoable
    /\ BridgesOwned
    /\ CallInOrder
    /\ KeptInOrder
    /\ SubmittedIsKept
    /\ NewPins

\* A thread that gets on has a PIN in every call; one that does not has lost
\* its proof.  No call is of a generation to come.
StuckInOrder ==
    /\ ~stuck /\ call # NoCall => call.pin # 0
    /\ call.attempt <= generation
    /\ StuckIsCanceled

-------------------------------------------------------------------------------
(* The bridge. *)

\* initialize() by stages.
LEMMA Stages ==
  /\ DOMAIN After = {"create", "scenario", "advise", "users", "enumerate",
                     "connect", "select", "fields"}
  /\ After["create"] = "scenario" /\ After["scenario"] = "advise"
  /\ After["advise"] = "users" /\ After["users"] = "enumerate"
  /\ After["enumerate"] = "connect" /\ After["connect"] = "select"
  /\ After["select"] = "fields" /\ After["fields"] = "set"
  /\ Gains["create"] = {"provider"} /\ Gains["scenario"] = {}
  /\ Gains["advise"] = {"sink"} /\ Gains["users"] = {}
  /\ Gains["enumerate"] = {"credential"}
  /\ Gains["connect"] = {"credentialSink"}
  /\ Gains["select"] = {"selected"} /\ Gains["fields"] = {"hasPinField"}
  BY DEF After, Gains

\* ~Impl() undoes everything, however far the bridge came.
LEMMA DestroyedIsDead ==
  ASSUME NEW r \in Records, Undoable(r)
  PROVE  Destroyed(r) = Dead
<1>1. r.has \subseteq Members
  BY DEF Records
<1>2. Destroyed(r).has = {}
  BY <1>1 DEF Destroyed, Undoable, Members, StockState
<1>3. Destroyed(r).field = 0
  BY DEF Destroyed, Undoable
<1> QED
  BY <1>2, <1>3 DEF Destroyed, Dead

\* A destroyed bridge has its type, and nothing to undo.
LEMMA DeadType == Dead \in Records /\ Undoable(Dead)
  BY BridgeAssumption, Stages
  DEF Dead, Records, Undoable, HasProvider, HasCredential, HasField, StockCalls

\* Destroying some bridges leaves them dead and the others as they were.
LEMMA WithoutBridges ==
  ASSUME PinTypeOK, BridgesUndoable, NEW S \in SUBSET Bridges
  PROVE  /\ Without(S) \in [Bridges -> Records]
         /\ \A b \in S : Without(S)[b] = Dead
         /\ \A b \in Bridges \ S : Without(S)[b] = bridge[b]
<1>1. \A b \in Bridges : bridge[b] \in Records /\ Destroyed(bridge[b]) = Dead
  BY DestroyedIsDead DEF PinTypeOK, CoreTypeOK, BridgesUndoable
<1>2. Dead \in Records
  BY DeadType
<1> QED
  BY <1>1, <1>2 DEF Without

\* What a stock call makes of its bridge.  After a PIN was supplied the bridge
\* is never again where it can supply one.
LEMMA StockStepBridge ==
  ASSUME PinTypeOK, NEW b \in Bridges, NEW p \in Pins,
         Undoable(bridge[b]), StockStep(b, p)
  PROVE  /\ bridge' \in [Bridges -> Records]
         /\ \A c \in Bridges : c # b => bridge'[c] = bridge[c]
         /\ Undoable(bridge'[b])
         /\ bridge'[b].pc \notin Gone
         /\ bridge[b].pc \notin {"served", "thrown"}
         /\ \/ /\ bridge[b].pc = "set" /\ bridge'[b].pc \in {"get", "thrown"}
               /\ offered' = [offered EXCEPT ![p] = @ + 1]
            \/ /\ bridge[b].pc \in DOMAIN After /\ UNCHANGED offered
               /\ bridge'[b].pc \in DOMAIN After \cup {"set", "thrown"}
            \/ /\ bridge[b].pc \in {"get", "clear", "clearFailed"}
               /\ bridge'[b].pc \in {"clear", "clearFailed", "served",
                                     "thrown"}
               /\ UNCHANGED offered
<1> USE DEF Undoable, HasProvider, HasCredential, HasField, MayHoldPin, Gone
<1>0. /\ bridge \in [Bridges -> Records] /\ bridge[b] \in Records
      /\ p \in 0 .. MaxPins /\ p # 0 /\ 0 \in 0 .. MaxPins
  BY BridgeAssumption DEF PinTypeOK, CoreTypeOK, Pins
<1>1. ASSUME NEW r \in Records, bridge' = [bridge EXCEPT ![b] = r]
      PROVE  /\ bridge' \in [Bridges -> Records]
             /\ \A c \in Bridges : c # b => bridge'[c] = bridge[c]
             /\ bridge'[b] = r
  BY <1>0, <1>1
<1>2. CASE initialize(b)
  <2>0. bridge[b].pc \in DOMAIN After /\ UNCHANGED offered
    BY <1>2 DEF initialize
  <2>1. /\ After[bridge[b].pc] \in DOMAIN After \cup {"set"}
        /\ Gains[bridge[b].pc] \in SUBSET Members
    BY <2>0, Stages DEF Members
  <2>2. CASE bridge' = [bridge EXCEPT ![b].pc = After[bridge[b].pc],
                                      ![b].has = @ \cup Gains[bridge[b].pc]]
    <3> DEFINE r == [bridge[b] EXCEPT !.pc = After[bridge[b].pc],
                                      !.has = @ \cup Gains[bridge[b].pc]]
    <3>1. bridge' = [bridge EXCEPT ![b] = r]
      BY <1>0, <2>2 DEF Records
    <3>2. /\ r \in Records /\ r.pc = After[bridge[b].pc]
          /\ r.has = bridge[b].has \cup Gains[bridge[b].pc]
          /\ r.field = bridge[b].field
      BY <1>0, <2>1 DEF Records, StockCalls
    <3> HIDE DEF r
    <3>3. Undoable(r)
      BY <2>0, <3>2, Stages DEF StockCalls
    <3>4. /\ bridge' \in [Bridges -> Records] /\ bridge'[b] = r
          /\ \A c \in Bridges : c # b => bridge'[c] = bridge[c]
      BY <1>1, <3>1, <3>2
    <3>5. /\ r.pc \in DOMAIN After \cup {"set", "thrown"}
          /\ r.pc \notin Gone /\ bridge[b].pc \notin {"served", "thrown"}
      BY <2>0, <2>1, <3>2, Stages
    <3> HIDE DEF Undoable
    <3> QED
      BY <2>0, <3>3, <3>4, <3>5
  <2>3. ASSUME NEW left \in LeftBehind(bridge[b].pc),
               bridge' = [bridge EXCEPT ![b].pc = "thrown",
                                        ![b].has = @ \cup left]
        PROVE  /\ bridge' \in [Bridges -> Records]
               /\ \A c \in Bridges : c # b => bridge'[c] = bridge[c]
               /\ Undoable(bridge'[b]) /\ bridge'[b].pc = "thrown"
    <3> DEFINE r == [bridge[b] EXCEPT !.pc = "thrown", !.has = @ \cup left]
    <3>0. \/ left = {}
          \/ bridge[b].pc = "enumerate" /\ left = {"credential"}
          \/ bridge[b].pc = "select" /\ left = {"selected"}
      BY <2>3, Stages DEF LeftBehind
    <3>1. bridge' = [bridge EXCEPT ![b] = r]
      BY <1>0, <2>3 DEF Records
    <3>2. /\ r \in Records /\ r.pc = "thrown" /\ r.field = bridge[b].field
          /\ r.has = bridge[b].has \cup left
      BY <1>0, <3>0 DEF Records, Members
    <3> HIDE DEF r
    <3>3. Undoable(r)
      BY <2>0, <3>0, <3>2, Stages DEF StockCalls
    <3> QED
      BY <1>1, <3>1, <3>2, <3>3
  <2> QED
    BY <1>2, <2>0, <2>1, <2>2, <2>3, Stages DEF initialize
<1>3. CASE Supply(b, p)
  <2>1. PICK q \in {"get", "thrown"}, f \in {0, p} :
           bridge' = [bridge EXCEPT ![b].pc = q, ![b].field = f]
    BY <1>3 DEF Supply
  <2> DEFINE r == [bridge[b] EXCEPT !.pc = q, !.field = f]
  <2>2. bridge' = [bridge EXCEPT ![b] = r]
    BY <1>0, <2>1 DEF Records
  <2>3. /\ r \in Records /\ r.pc = q /\ r.has = bridge[b].has
        /\ r.field = f
    BY <1>0 DEF Records, StockCalls
  <2> HIDE DEF r
  <2>4. Undoable(r) /\ bridge[b].pc = "set"
    BY <1>3, <2>3, Stages DEF Supply, StockCalls
  <2> QED
    BY <1>1, <1>3, <2>2, <2>3, <2>4 DEF Supply
<1>4. CASE GetStock(b)
  <2>1. PICK q \in {"clear", "clearFailed"} :
           bridge' = [bridge EXCEPT ![b].pc = q]
    BY <1>4 DEF GetStock
  <2> DEFINE r == [bridge[b] EXCEPT !.pc = q]
  <2>2. r \in Records /\ bridge' = [bridge EXCEPT ![b] = r]
    BY <1>0, <2>1 DEF Records, StockCalls
  <2>3. Undoable(r) /\ bridge[b].pc = "get" /\ UNCHANGED offered
    BY <1>0, <1>4, Stages DEF GetStock, Records, StockCalls
  <2> QED
    BY <1>0, <1>1, <2>2, <2>3 DEF Records
<1>5. CASE Clear(b)
  <2>1. PICK q \in {"served", "thrown"} :
           bridge' = [bridge EXCEPT ![b].field = 0, ![b].pc = q]
    BY <1>5 DEF Clear
  <2> DEFINE r == [bridge[b] EXCEPT !.field = 0, !.pc = q]
  <2>2. bridge' = [bridge EXCEPT ![b] = r]
    BY <1>0, <2>1 DEF Records
  <2>3. /\ r \in Records /\ r.pc = q /\ r.has = bridge[b].has
        /\ r.field = 0
    BY <1>0 DEF Records
  <2> HIDE DEF r
  <2>4. /\ Undoable(r) /\ bridge[b].pc \in {"clear", "clearFailed"}
        /\ UNCHANGED offered
    BY <1>5, <2>3, Stages DEF Clear, StockCalls
  <2> QED
    BY <1>1, <2>2, <2>3, <2>4
<1> QED
  BY <1>2, <1>3, <1>4, <1>5 DEF StockStep

-------------------------------------------------------------------------------
(* The steps, as they look on the bridges, the PINs and the running call.   *)

core == <<bridge, offered, dll, pin, kept, call, entered, submitted>>

\* A bridge of the tile's own is torn down, to the end or not.
TearsDown ==
    \/ bridge' = Without({kept} \cap Bridges)
    \/ /\ kept # 0
       /\ \E r \in TornAt(bridge[kept]) :
             bridge' = [bridge EXCEPT ![kept] = r]

\* The tile gives up its PIN and its bridge.
Resets == /\ call # NoCall => dll = "tile" /\ call.pin # 0
          /\ TearsDown
          /\ pin' = 0 /\ kept' = 0 /\ submitted' = 0
          /\ UNCHANGED <<offered, dll, call, entered>>

\* A new PIN was obtained, or the one there is dropped.
PinChanges == /\ call = NoCall
              /\ \/ /\ entered < MaxPins
                    /\ entered' = entered + 1 /\ pin' = entered + 1
                 \/ pin' = 0 /\ UNCHANGED entered
              /\ UNCHANGED <<bridge, offered, dll, kept, call, submitted>>

\* A GetSerialization begins with a new bridge.
Starts(b) == /\ call = NoCall /\ pin # 0 /\ bridge[b].pc = "unborn"
             /\ \E a \in Int : call' = [bridge |-> b, pin |-> pin,
                                        attempt |-> a]
             /\ bridge' = [bridge EXCEPT ![b].pc = "create"]
             /\ pin' = IF dll = "tile" THEN 0 ELSE pin
             /\ UNCHANGED <<offered, dll, kept, entered, submitted>>

\* It ends without a credential, and its bridge with it.
GivesUp == /\ call # NoCall /\ dll = "tile" /\ call.pin # 0
           /\ bridge' = Without({call.bridge}) /\ call' = NoCall
           /\ UNCHANGED <<offered, dll, pin, kept, entered, submitted>>

\* Its bridge becomes the tile's; the call ends, or is held up in the teardown
\* of the older bridge.
Completes == /\ call # NoCall /\ dll = "tile" /\ call.pin # 0
             /\ bridge[call.bridge].pc = "served"
             /\ kept' = call.bridge /\ TearsDown
             /\ \/ call' = NoCall /\ submitted' \in {call.bridge, 0}
                \/ call' = [call EXCEPT !.pin = 0] /\ submitted' = 0
             /\ UNCHANGED <<offered, dll, pin, entered>>

Ends == Completes \/ FixtureCompletes \/ FixtureFails

\* Every step is of one of these kinds.
LEMMA PinKinds ==
  ASSUME PinTypeOK, StuckInOrder, [Next]_signInVars
  PROVE  \/ UNCHANGED core \/ Resets \/ PinChanges \/ CallStep \/ GivesUp
         \/ \E b \in Bridges : Starts(b)
         \/ AssignBridge \/ Ends
<1> USE DEF core
<1>0. ~stuck /\ call # NoCall => call.pin # 0
  BY DEF StuckInOrder
<1>1. ASSUME NEW who, Drop(who), Idle PROVE UNCHANGED core \/ Resets
  BY <1>1 DEF Drop, Resets, TearsDown, Idle
<1>2. CASE TileNext
  <2>1. ASSUME NEW b \in Bridges, GetSerialization(b) PROVE Starts(b)
    BY <2>1 DEF GetSerialization, TakePin, Starts, Idle, Fresh, PinTypeOK,
                CoreTypeOK
  <2>2. CASE SetDeselected
    BY <1>0, <2>2 DEF SetDeselected, Invalidate, TearDownKept, CanEnter,
                      Resets, TearsDown
  <2>3. CASE GetSerializationStale \/ GetSerializationFails
    BY <1>0, <2>3 DEF GetSerializationStale, GetSerializationFails, GivesUp,
                      Served, Thrown, InCall
  <2>4. CASE GetSerializationCompletes
    <3>1. TearsDown /\ kept' = call.bridge
      BY <2>4 DEF GetSerializationCompletes, KeepBridge, TearDownKept,
                  TearsDown
    <3>2. /\ call # NoCall /\ dll = "tile" /\ call.pin # 0
          /\ bridge[call.bridge].pc = "served"
          /\ UNCHANGED <<offered, dll, pin, entered>>
      BY <1>0, <2>4 DEF GetSerializationCompletes, Served, InCall
    <3>3. \/ call' = NoCall /\ submitted' \in {call.bridge, 0}
          \/ call' = [call EXCEPT !.pin = 0] /\ submitted' = 0
      BY <2>4 DEF GetSerializationCompletes
    <3> QED
      BY <3>1, <3>2, <3>3 DEF Completes, Ends
  <2> QED
    BY <1>1, <1>2, <2>1, <2>2, <2>3, <2>4
    DEF TileNext, Enumerate, ProviderRelease, KeyProof, ProofExpires,
        PinChanges, Idle, Ends, bridgeVars
<1>3. CASE FixtureNext
  <2>1. ASSUME NEW b \in Bridges, FixtureSerialization(b) PROVE Starts(b)
    <3>1. 0 \in Int
      OBVIOUS
    <3> QED
      BY <2>1, <3>1 DEF FixtureSerialization, FixtureIdle, Starts, Idle, Fresh
  <2>2. ASSUME FixtureIdle, ResetCredential PROVE UNCHANGED core \/ Resets
    BY <1>1, <2>2 DEF ResetCredential, FixtureIdle, bridgeVars, tileVars
  <2>3. CASE FixtureDeselected
    BY <2>3 DEF FixtureDeselected, FixtureIdle, Idle, Resets, TearsDown
  <2> QED
    BY <1>1, <1>3, <2>1, <2>2, <2>3
    DEF FixtureNext, labArmed, SetUsageScenario, SetUserArray,
        ProviderUnAdvise, GetCredentialCount, SetStringValue, FixtureIdle,
        PinChanges, Idle, Ends, bridgeVars, tileVars
<1>4. CASE GetCredentialAt \/ LogonUIRelease
  BY <1>1, <1>4 DEF GetCredentialAt, LogonUIRelease, bridgeVars
<1>5. CASE OpenScreen \/ RunFilter \/ ShowTiles \/ HeldUp
           \/ UNCHANGED signInVars
  BY <1>5 DEF OpenScreen, HeldUp, RunFilter, ShowTiles, signInVars, bridgeVars,
              tileVars
<1> QED
  BY <1>2, <1>3, <1>4, <1>5 DEF Next

\* A thread that is held up in a teardown has invalidated the proof before.
LEMMA StuckStep ==
  ASSUME PinTypeOK, PinInvariant, StuckInOrder, [Next]_signInVars
  PROVE  generation' \in Nat /\ stuck' \in BOOLEAN /\ StuckInOrder'
<1>0. /\ NoCall.attempt = 0 /\ generation \in Nat /\ stuck \in BOOLEAN
      /\ call.attempt \in Int /\ call.attempt <= generation
      /\ dll = "tile" /\ call # NoCall => pin = 0
  BY DEF NoCall, PinTypeOK, CoreTypeOK, StuckInOrder, PinInvariant, NewPins
<1>1. CASE stuck /\ UNCHANGED <<pin, submitted, call, generation, stuck>>
  BY <1>0, <1>1 DEF StuckInOrder, StuckIsCanceled
<1>2. CASE /\ ~stuck /\ UNCHANGED stuck
           /\ call' = NoCall /\ generation' \in Nat
  BY <1>0, <1>2 DEF StuckInOrder, StuckIsCanceled
<1>3. CASE /\ ~stuck /\ UNCHANGED <<call, generation, stuck>>
  BY <1>0, <1>3 DEF StuckInOrder, StuckIsCanceled
<1>4. CASE SetDeselected
  <2>1. /\ ~stuck /\ generation' = generation + 1 /\ UNCHANGED call
        /\ pin' = 0 /\ submitted' = 0 /\ stuck' \in BOOLEAN
    BY <1>0, <1>4, Zenon DEF SetDeselected, CanEnter, Invalidate, TearDownKept
  <2>2. generation' \in Nat /\ call.attempt < generation'
    BY <1>0, <2>1
  <2>3. generation' # call.attempt /\ call.attempt <= generation'
    BY <1>0, <2>2
  <2> QED
    BY <2>1, <2>2, <2>3 DEF StuckInOrder, StuckIsCanceled
<1>5. CASE GetSerializationCompletes
  <2>1. /\ dll = "tile" /\ call # NoCall /\ UNCHANGED <<pin, generation>>
        /\ \/ ~stuck' /\ call' = NoCall
           \/ stuck' /\ call' = [call EXCEPT !.pin = 0] /\ submitted' = 0
    BY <1>5 DEF GetSerializationCompletes, Served, InCall
  <2>2. stuck' \in BOOLEAN
    BY <1>0, <1>5, Zenon DEF GetSerializationCompletes, KeepBridge, TearDownKept
  <2>3. CASE ~stuck'
    BY <1>0, <2>1, <2>2, <2>3 DEF StuckInOrder, StuckIsCanceled
  <2>4. CASE stuck'
    <3>1. call'.pin = 0 /\ call'.attempt = call.attempt
      BY <2>1, <2>4 DEF PinTypeOK, CoreTypeOK
    <3> QED
      BY <1>0, <2>1, <2>2, <2>4, <3>1 DEF StuckInOrder, StuckIsCanceled
  <2> QED
    BY <2>3, <2>4
<1>6. ASSUME NEW b \in Bridges, GetSerialization(b) \/ FixtureSerialization(b)
      PROVE  generation' \in Nat /\ stuck' \in BOOLEAN /\ StuckInOrder'
  <2>1. /\ ~stuck /\ UNCHANGED <<stuck, generation>> /\ pin # 0
        /\ call'.pin = pin /\ call'.attempt \in {generation, 0}
    BY <1>6 DEF GetSerialization, TakePin, FixtureSerialization, FixtureIdle,
                Idle
  <2> QED
    BY <1>0, <2>1 DEF StuckInOrder, StuckIsCanceled
<1>7. ASSUME NEW who, Drop(who), Idle
      PROVE  ~stuck /\ UNCHANGED <<call, generation, stuck>>
  BY <1>7 DEF Drop, Idle
<1>8. CASE KeyProof \/ Enumerate
  BY <1>0, <1>2, <1>8 DEF KeyProof, Enumerate, Idle
<1>9. CASE GetSerializationStale \/ GetSerializationFails \/ FixtureCompletes
           \/ FixtureFails
  BY <1>0, <1>2, <1>9
  DEF GetSerializationStale, GetSerializationFails, FixtureCompletes,
      FixtureFails, Served, Thrown, InCall
<1>10. CASE \/ ProviderRelease \/ ProofExpires \/ GetCredentialAt
            \/ LogonUIRelease \/ CallStep \/ AssignBridge \/ labArmed
            \/ SetUsageScenario \/ SetUserArray \/ ProviderUnAdvise
            \/ GetCredentialCount \/ SetStringValue \/ FixtureDeselected
  <2>1. ~stuck /\ UNCHANGED <<call, generation, stuck>>
    BY <1>7, <1>10
    DEF ProviderRelease, ProofExpires, GetCredentialAt, LogonUIRelease,
        CallStep, AssignBridge, labArmed, SetUsageScenario, SetUserArray,
        ProviderUnAdvise, GetCredentialCount, SetStringValue,
        FixtureDeselected, FixtureIdle, ResetCredential, Idle, InCall,
        tileVars
  <2> QED
    BY <1>0, <1>3, <2>1
<1>11. CASE OpenScreen \/ RunFilter \/ ShowTiles \/ HeldUp
            \/ UNCHANGED signInVars
  <2>1. UNCHANGED <<pin, submitted, call, generation, stuck>>
    BY <1>11 DEF OpenScreen, RunFilter, ShowTiles, HeldUp, signInVars, tileVars
  <2> QED
    BY <1>0, <1>1, <1>3, <2>1
<1> QED
  BY <1>4, <1>5, <1>6, <1>8, <1>9, <1>10, <1>11
  DEF Next, TileNext, FixtureNext

-------------------------------------------------------------------------------
(* Every kind of step keeps the invariant. *)

\* The parts of the types and of the invariant.
LEMMA PinParts ==
  ASSUME PinTypeOK, PinInvariant
  PROVE  /\ bridge \in [Bridges -> Records] /\ offered \in [Pins -> Nat]
         /\ BridgesUndoable /\ BridgesOwned /\ CallInOrder /\ KeptInOrder
         /\ SubmittedIsKept /\ NewPins
         /\ call = NoCall => call.bridge = 0
         /\ Bridges = 1 .. MaxBridges /\ MaxBridges \in Nat
         /\ Pins = 1 .. MaxPins /\ MaxPins \in Nat
  BY BridgeAssumption DEF PinTypeOK, CoreTypeOK, PinInvariant, NoCall, Bridges,
                          Pins

\* A PIN obtained now was never offered.
LEMMA PinChangesStep ==
  ASSUME PinTypeOK, PinInvariant, PinChanges
  PROVE  CoreTypeOK' /\ PinInvariant'
<1> USE PinParts DEF PinChanges
<1>1. CoreTypeOK'
  BY DEF PinTypeOK, CoreTypeOK
<1>2. /\ BridgesUndoable' /\ BridgesOwned' /\ CallInOrder' /\ KeptInOrder'
      /\ SubmittedIsKept'
  BY DEF BridgesUndoable, BridgesOwned, CallInOrder, KeptInOrder,
         SubmittedIsKept
<1>3. NewPins'
  BY DEF NewPins, PinTypeOK, CoreTypeOK
<1> QED
  BY <1>1, <1>2, <1>3 DEF PinInvariant

\* The tile's own bridge has served: wherever its teardown is, what is left of
\* it can be undone, and it belongs to nobody.
LEMMA TearsDownBridge ==
  ASSUME PinTypeOK, PinInvariant, kept # 0 => kept # call.bridge, TearsDown
  PROVE  /\ bridge' \in [Bridges -> Records]
         /\ \A c \in Bridges : c = kept => /\ Undoable(bridge'[c])
                                           /\ bridge'[c].pc \in Gone
         /\ \A c \in Bridges : c # kept => bridge'[c] = bridge[c]
<1>1. CASE bridge' = Without({kept} \cap Bridges)
  <2>1. /\ bridge' \in [Bridges -> Records]
        /\ \A c \in {kept} \cap Bridges : bridge'[c] = Dead
        /\ \A c \in Bridges \ {kept} : bridge'[c] = bridge[c]
    BY <1>1, PinParts, WithoutBridges
  <2>2. Undoable(Dead) /\ Dead.pc \in Gone
    BY DeadType DEF Dead, Gone
  <2> QED
    BY <2>1, <2>2
<1>2. ASSUME kept # 0, NEW r \in TornAt(bridge[kept]),
             bridge' = [bridge EXCEPT ![kept] = r]
      PROVE  /\ r \in Records /\ Undoable(r) /\ r.pc = "teardown"
             /\ kept \in Bridges
  <2> DEFINE q == bridge[kept]
  <2>1. /\ kept \in Bridges /\ q \in Records /\ q.pc = "served"
        /\ Undoable(q)
    BY <1>2, PinParts DEF PinTypeOK, CoreTypeOK, KeptInOrder, BridgesUndoable
  <2>2. PICK undone \in SUBSET StockState :
           r = [q EXCEPT !.pc = "teardown", !.field = 0, !.has = @ \ undone]
    BY <1>2 DEF TornAt, StockState
  <2> HIDE DEF q
  <2>3. /\ r \in Records /\ r.pc = "teardown" /\ r.field = 0
        /\ r.has = q.has \ undone
    <3>1. "teardown" \in StockCalls /\ 0 \in 0 .. MaxPins
      BY BridgeAssumption DEF StockCalls
    <3>2. q.has \ undone \in SUBSET Members
      BY <2>1 DEF Records
    <3> QED
      BY <2>1, <2>2, <3>1, <3>2 DEF Records
  <2>4. "provider" \in r.has \/ "sink" \notin r.has
    BY <2>1, <2>2, <2>3 DEF Undoable, StockState
  <2>5. "credential" \in r.has
    BY <2>1, <2>2, <2>3 DEF Undoable, StockState, HasCredential
  <2>6. Undoable(r)
    BY <2>3, <2>4, <2>5, Stages
    DEF Undoable, HasProvider, HasCredential, HasField, StockCalls
  <2> QED
    BY <2>1, <2>3, <2>6
<1>3. CASE /\ kept # 0
           /\ \E r \in TornAt(bridge[kept]) :
                 bridge' = [bridge EXCEPT ![kept] = r]
  BY <1>2, <1>3, PinParts DEF Gone
<1> QED
  BY <1>1, <1>3 DEF TearsDown

\* A tile that is reset destroys its own bridge, never the one of the call.
LEMMA ResetsStep ==
  ASSUME PinTypeOK, PinInvariant, Resets
  PROVE  CoreTypeOK' /\ PinInvariant'
<1>0. /\ BridgesUndoable /\ BridgesOwned /\ CallInOrder /\ KeptInOrder
      /\ NewPins
  BY PinParts
<1>1. kept # 0 => kept # call.bridge
  BY PinParts DEF Resets, KeptInOrder
<1>2. /\ bridge' \in [Bridges -> Records]
      /\ \A b \in Bridges : b = kept => /\ Undoable(bridge'[b])
                                        /\ bridge'[b].pc \in Gone
      /\ \A b \in Bridges : b # kept => bridge'[b] = bridge[b]
  BY <1>1, TearsDownBridge DEF Resets
<1>3. /\ pin' = 0 /\ kept' = 0 /\ submitted' = 0
      /\ UNCHANGED <<offered, dll, call, entered>>
      /\ call = NoCall \/ dll = "tile"
  BY DEF Resets
<1>4. CoreTypeOK'
  BY <1>2, <1>3, BridgeAssumption DEF PinTypeOK, CoreTypeOK
<1>5. BridgesUndoable'
  BY <1>0, <1>2 DEF BridgesUndoable
<1>6. BridgesOwned'
  BY <1>0, <1>2, <1>3 DEF BridgesOwned
<1>7. call # NoCall => bridge'[call.bridge] = bridge[call.bridge]
  BY <1>0, <1>1, <1>2, PinParts DEF CallInOrder
<1>8. CallInOrder' /\ KeptInOrder'
  BY <1>0, <1>3, <1>7 DEF CallInOrder, KeptInOrder
<1>9. SubmittedIsKept' /\ NewPins'
  BY <1>0, <1>3, <1>7 DEF SubmittedIsKept, NewPins, PinTypeOK, CoreTypeOK
<1> QED
  BY <1>4, <1>5, <1>6, <1>8, <1>9 DEF PinInvariant

\* A GetSerialization begins: its PIN was not offered yet.
LEMMA StartsStep ==
  ASSUME PinTypeOK, PinInvariant, NEW b \in Bridges, Starts(b)
  PROVE  CoreTypeOK' /\ PinInvariant'
<1> USE PinParts
<1> DEFINE r == [bridge[b] EXCEPT !.pc = "create"]
<1>0. /\ r \in Records /\ r.pc = "create" /\ r.has = bridge[b].has
      /\ r.field = bridge[b].field
      /\ bridge' = [bridge EXCEPT ![b] = r]
  <2>1. /\ bridge' = [bridge EXCEPT ![b].pc = "create"]
        /\ bridge \in [Bridges -> Records] /\ bridge[b] \in Records
        /\ "create" \in StockCalls
    BY Stages DEF Starts, StockCalls
  <2> QED
    BY <2>1 DEF Records
<1> HIDE DEF r
<1>1. /\ bridge' \in [Bridges -> Records]
      /\ bridge'[b].pc = "create"
      /\ \A c \in Bridges : c # b => bridge'[c] = bridge[c]
  BY <1>0
<1>2. /\ call'.bridge = b /\ call'.pin = pin
      /\ call' # NoCall /\ pin \in Pins
  BY DEF Starts, NoCall, PinTypeOK, CoreTypeOK
<1>3. kept # b /\ submitted # b
  BY DEF Starts, KeptInOrder, SubmittedIsKept
<1>4. CoreTypeOK'
  <2>1. call' \in [bridge : 0 .. MaxBridges, pin : 0 .. MaxPins,
                   attempt : Int]
    <3>1. b \in 0 .. MaxBridges /\ pin \in 0 .. MaxPins
      BY DEF PinTypeOK, CoreTypeOK
    <3> QED
      BY <3>1 DEF Starts
  <2>2. pin' \in 0 .. MaxPins
    BY BridgeAssumption DEF PinTypeOK, CoreTypeOK, Starts
  <2> QED
    BY <1>1, <2>1, <2>2 DEF PinTypeOK, CoreTypeOK, Starts
<1>5. BridgesUndoable'
  <2>1. Undoable(r)
    BY <1>0, Stages DEF BridgesUndoable, Undoable, HasProvider,
                        HasCredential, HasField, MayHoldPin, Starts
  <2> QED
    BY <1>0, <2>1 DEF BridgesUndoable
<1>6. BridgesOwned' /\ CallInOrder'
  BY <1>1, <1>2 DEF BridgesOwned, CallInOrder, Gone, Starts
<1>7. KeptInOrder' /\ SubmittedIsKept'
  BY <1>1, <1>2, <1>3 DEF KeptInOrder, SubmittedIsKept, Starts, PinTypeOK,
                          CoreTypeOK
<1>8. NewPins'
  <2>1. NewPins /\ call = NoCall /\ offered[pin] = 0 /\ entered \in Nat
    BY DEF Starts, NewPins, PinTypeOK, CoreTypeOK
  <2>2. UNCHANGED <<offered, dll, entered>> /\ pin' \in {0, pin}
        /\ (dll = "tile" => pin' = 0)
    BY DEF Starts
  <2> QED
    BY <1>2, <2>1, <2>2, BridgeAssumption DEF NewPins
<1> QED
  BY <1>4, <1>5, <1>6, <1>7, <1>8 DEF PinInvariant

\* The next stock call.  A PIN is offered where it cannot be offered again.
LEMMA CallStepStep ==
  ASSUME PinTypeOK, PinInvariant, CallStep
  PROVE  CoreTypeOK' /\ PinInvariant'
<1> DEFINE b == call.bridge
           p == call.pin
<1>0. /\ BridgesUndoable /\ BridgesOwned /\ CallInOrder /\ KeptInOrder
      /\ SubmittedIsKept /\ NewPins /\ b \in Bridges /\ p \in Pins
      /\ call # NoCall /\ offered \in [Pins -> Nat] /\ b # 0
  <2>1. bridge[b].pc # "served"
    BY Stages DEF CallStep, StockStep, initialize, Supply, GetStock, Clear
  <2> QED
    BY <2>1, PinParts DEF CallStep, InCall, CallInOrder
<1>1. /\ bridge' \in [Bridges -> Records]
      /\ \A c \in Bridges : c # b => bridge'[c] = bridge[c]
      /\ Undoable(bridge'[b])
      /\ bridge'[b].pc \notin Gone
      /\ bridge[b].pc \notin {"served", "thrown"}
      /\ \/ /\ bridge[b].pc = "set" /\ bridge'[b].pc \in {"get", "thrown"}
            /\ offered' = [offered EXCEPT ![p] = @ + 1]
         \/ /\ bridge[b].pc \in DOMAIN After /\ UNCHANGED offered
            /\ bridge'[b].pc \in DOMAIN After \cup {"set", "thrown"}
         \/ /\ bridge[b].pc \in {"get", "clear", "clearFailed"}
            /\ bridge'[b].pc \in {"clear", "clearFailed", "served", "thrown"}
            /\ UNCHANGED offered
  BY <1>0, StockStepBridge DEF CallStep, BridgesUndoable
<1>2. /\ UNCHANGED <<dll, pin, kept, call, entered, submitted>>
      /\ dll = "fixture" /\ bridge[b].pc = "set" => kept = b
  BY DEF CallStep, tileVars
<1>3. CoreTypeOK'
  <2>1. offered' \in [Pins -> Nat]
    BY <1>0, <1>1
  <2> QED
    BY <1>1, <1>2, <2>1 DEF PinTypeOK, CoreTypeOK
<1>4. BridgesUndoable' /\ BridgesOwned' /\ CallInOrder'
  BY <1>0, <1>1, <1>2 DEF BridgesUndoable, BridgesOwned, CallInOrder
<1>5. KeptInOrder' /\ SubmittedIsKept'
  <2>1. kept # 0 /\ kept # b => bridge'[kept] = bridge[kept]
    BY <1>1, PinParts DEF PinTypeOK, CoreTypeOK
  <2>2. submitted # 0 => kept # b /\ kept # 0
    BY <1>0, <1>1 DEF SubmittedIsKept
  <2>3. dll = "fixture"
        /\ bridge'[b].pc \in {"get", "clear", "clearFailed", "served"}
        => kept = b
    BY <1>0, <1>1, <1>2, Stages DEF KeptInOrder
  <2>4. KeptInOrder'
    BY <1>0, <1>2, <2>1, <2>3 DEF KeptInOrder
  <2>5. SubmittedIsKept'
    BY <1>0, <1>2, <2>1, <2>2 DEF SubmittedIsKept
  <2> QED
    BY <2>4, <2>5
<1>6. NewPins'
  <2>1. CASE UNCHANGED offered
    <3>1. bridge'[b].pc \in DOMAIN After \cup {"set"} =>
             bridge[b].pc \in DOMAIN After \cup {"set"}
      BY <1>1, Stages
    <3> QED
      BY <1>0, <1>2, <2>1, <3>1 DEF NewPins
  <2>2. CASE /\ bridge[b].pc = "set" /\ bridge'[b].pc \in {"get", "thrown"}
             /\ offered' = [offered EXCEPT ![p] = @ + 1]
    <3>1. offered[p] = 0 /\ p <= entered /\ entered \in Nat
      BY <1>0, <2>2 DEF NewPins, PinTypeOK, CoreTypeOK
    <3>2. /\ offered'[p] = 1
          /\ \A q \in Pins : q # p => offered'[q] = offered[q]
      BY <1>0, <2>2, <3>1
    <3>3. bridge'[b].pc \notin DOMAIN After \cup {"set"}
      BY <2>2, Stages
    <3>4. \A q \in Pins : q \in Int
      BY BridgeAssumption DEF Pins
    <3> QED
      BY <1>0, <1>2, <3>1, <3>2, <3>3, <3>4 DEF NewPins
  <2> QED
    BY <1>1, <2>1, <2>2
<1> QED
  BY <1>3, <1>4, <1>5, <1>6 DEF PinInvariant

\* GetSerialization ends without a credential: its own bridge goes.
LEMMA GivesUpStep ==
  ASSUME PinTypeOK, PinInvariant, GivesUp
  PROVE  CoreTypeOK' /\ PinInvariant'
<1>0. /\ BridgesUndoable /\ BridgesOwned /\ CallInOrder /\ KeptInOrder
      /\ SubmittedIsKept /\ NewPins /\ call.bridge \in Bridges
      /\ call # NoCall /\ dll = "tile" /\ call.pin # 0
  BY PinParts DEF GivesUp, CallInOrder
<1>1. /\ bridge' \in [Bridges -> Records]
      /\ bridge'[call.bridge] = Dead
      /\ \A c \in Bridges : c # call.bridge => bridge'[c] = bridge[c]
  BY <1>0, WithoutBridges DEF GivesUp
<1>2. /\ UNCHANGED <<offered, dll, pin, kept, entered, submitted>>
      /\ call' = NoCall /\ NoCall.bridge = 0 /\ NoCall.pin = 0
  BY DEF GivesUp, NoCall
<1>3. CoreTypeOK'
  <2>1. NoCall \in [bridge : 0 .. MaxBridges, pin : 0 .. MaxPins,
                    attempt : Int]
    BY BridgeAssumption DEF NoCall
  <2> QED
    BY <1>1, <1>2, <2>1 DEF PinTypeOK, CoreTypeOK
<1>4. BridgesUndoable'
  BY <1>0, <1>1, DeadType DEF BridgesUndoable
<1>5. BridgesOwned' /\ CallInOrder'
  BY <1>0, <1>1, <1>2 DEF BridgesOwned, CallInOrder, Dead, Gone
<1>6. kept # 0 => /\ kept # call.bridge /\ bridge'[kept] = bridge[kept]
                  /\ bridge[kept].pc = "served"
  BY <1>0, <1>1, PinParts DEF KeptInOrder, PinTypeOK, CoreTypeOK
<1>7. KeptInOrder' /\ SubmittedIsKept'
  BY <1>0, <1>2, <1>6 DEF KeptInOrder, SubmittedIsKept
<1>8. NewPins'
  BY <1>0, <1>2 DEF NewPins, PinTypeOK, CoreTypeOK
<1> QED
  BY <1>3, <1>4, <1>5, <1>7, <1>8 DEF PinInvariant

\* A call that is over has no bridge and no PIN.
LEMMA NoCallType ==
  /\ NoCall \in [bridge : 0 .. MaxBridges, pin : 0 .. MaxPins,
                 attempt : Int]
  /\ NoCall.bridge = 0 /\ NoCall.pin = 0
  BY BridgeAssumption DEF NoCall

\* The bridge of a call that has its credential becomes the tile's, and an
\* older one goes.
LEMMA CompletesStep ==
  ASSUME PinTypeOK, PinInvariant, Completes
  PROVE  CoreTypeOK' /\ PinInvariant'
<1> DEFINE b == call.bridge
<1>0. /\ BridgesUndoable /\ BridgesOwned /\ CallInOrder /\ KeptInOrder
      /\ NewPins /\ b \in Bridges /\ call # NoCall
  BY PinParts DEF Completes, CallInOrder
<1>1. kept # b
  BY <1>0, PinParts DEF Completes, KeptInOrder
<1>2. /\ bridge' \in [Bridges -> Records]
      /\ \A c \in Bridges : c = kept => /\ Undoable(bridge'[c])
                                        /\ bridge'[c].pc \in Gone
      /\ \A c \in Bridges : c # kept => bridge'[c] = bridge[c]
  BY <1>1, TearsDownBridge DEF Completes
<1>3. /\ UNCHANGED <<offered, dll, pin, entered>> /\ dll = "tile"
      /\ kept' = b /\ submitted' \in {b, 0}
      /\ bridge[b].pc = "served" /\ bridge'[b] = bridge[b]
  BY <1>0, <1>1, <1>2 DEF Completes
<1>4. /\ call' \in [bridge : 0 .. MaxBridges, pin : 0 .. MaxPins,
                    attempt : Int]
      /\ call'.pin = 0
      /\ \/ call' = NoCall /\ call'.bridge = 0
         \/ call' # NoCall /\ call'.bridge = b /\ submitted' = 0
  <2>1. CASE call' = NoCall
    BY <2>1, NoCallType
  <2>2. CASE call' = [call EXCEPT !.pin = 0] /\ submitted' = 0
    <3>1. /\ call' \in [bridge : 0 .. MaxBridges, pin : 0 .. MaxPins,
                        attempt : Int]
          /\ call'.pin = 0 /\ call'.bridge = b
      BY <2>2, BridgeAssumption DEF PinTypeOK, CoreTypeOK
    <3>2. b # NoCall.bridge
      BY <1>0, NoCallType, PinParts
    <3> QED
      BY <2>2, <3>1, <3>2
  <2> QED
    BY <2>1, <2>2 DEF Completes
<1>5. CoreTypeOK'
  <2>1. b \in 0 .. MaxBridges /\ submitted' \in 0 .. MaxBridges
    BY <1>3, BridgeAssumption DEF PinTypeOK, CoreTypeOK
  <2> QED
    BY <1>2, <1>3, <1>4, <2>1 DEF PinTypeOK, CoreTypeOK
<1>6. BridgesUndoable'
  BY <1>0, <1>2 DEF BridgesUndoable
<1>7. BridgesOwned' /\ CallInOrder'
  BY <1>0, <1>2, <1>3, <1>4 DEF BridgesOwned, CallInOrder
<1>8. KeptInOrder' /\ SubmittedIsKept'
  BY <1>0, <1>2, <1>3, <1>4, PinParts DEF KeptInOrder, SubmittedIsKept
<1>9. NewPins'
  <2>1. bridge'[b].pc \notin DOMAIN After \cup {"set"}
    BY <1>3, Stages
  <2>2. /\ 0 <= entered /\ pin = 0
        /\ \A p \in Pins : offered[p] <= 1 /\ (p > entered => offered[p] = 0)
    BY <1>0, <1>3 DEF NewPins, PinTypeOK, CoreTypeOK
  <2> QED
    BY <1>3, <1>4, <2>1, <2>2 DEF NewPins
<1> QED
  BY <1>5, <1>6, <1>7, <1>8, <1>9 DEF PinInvariant

\* The fixture's member becomes the new bridge, and an older one goes.
LEMMA AssignBridgeStep ==
  ASSUME PinTypeOK, PinInvariant, AssignBridge
  PROVE  CoreTypeOK' /\ PinInvariant'
<1> DEFINE b == call.bridge
<1>0. /\ BridgesUndoable /\ BridgesOwned /\ CallInOrder /\ KeptInOrder
      /\ NewPins /\ b \in Bridges /\ call # NoCall
  BY PinParts DEF AssignBridge, InCall, CallInOrder
<1>1. /\ bridge' \in [Bridges -> Records]
      /\ \A c \in Bridges : c = kept => bridge'[c] = Dead
      /\ \A c \in Bridges : c # kept => bridge'[c] = bridge[c]
  BY <1>0, WithoutBridges DEF AssignBridge
<1>2. /\ UNCHANGED <<offered, dll, pin, entered, call>> /\ dll = "fixture"
      /\ kept' = b /\ submitted' = 0
      /\ bridge[b].pc = "set" /\ kept # b /\ bridge'[b] = bridge[b]
  BY <1>0, <1>1 DEF AssignBridge
<1>3. CoreTypeOK'
  <2>1. b \in 0 .. MaxBridges /\ submitted' \in 0 .. MaxBridges
    BY <1>2, BridgeAssumption DEF PinTypeOK, CoreTypeOK
  <2> QED
    BY <1>1, <1>2, <2>1 DEF PinTypeOK, CoreTypeOK
<1>4. BridgesUndoable'
  BY <1>0, <1>1, DeadType DEF BridgesUndoable
<1>5. BridgesOwned' /\ CallInOrder'
  BY <1>0, <1>1, <1>2 DEF BridgesOwned, CallInOrder, Dead, Gone
<1>6. KeptInOrder' /\ SubmittedIsKept'
  BY <1>2 DEF KeptInOrder, SubmittedIsKept
<1>7. NewPins'
  BY <1>0, <1>2 DEF NewPins
<1> QED
  BY <1>3, <1>4, <1>5, <1>6, <1>7 DEF PinInvariant

\* The fixture's call ends with its bridge as the member, or with none.
LEMMA FixtureEndsStep ==
  ASSUME PinTypeOK, PinInvariant, FixtureCompletes \/ FixtureFails
  PROVE  CoreTypeOK' /\ PinInvariant'
<1> DEFINE b == call.bridge
<1>0. /\ BridgesUndoable /\ BridgesOwned /\ CallInOrder /\ KeptInOrder
      /\ NewPins /\ b \in Bridges /\ call # NoCall
  BY PinParts DEF FixtureCompletes, FixtureFails, Served, Thrown, InCall,
                  CallInOrder
<1>1. CASE FixtureCompletes
  <2>1. /\ UNCHANGED <<bridge, offered, dll, kept, entered>>
        /\ call' = NoCall /\ pin' = 0 /\ submitted' \in {b, 0}
        /\ bridge[b].pc = "served" /\ kept = b
    BY <1>0, <1>1 DEF FixtureCompletes, Served, KeptInOrder, bridgeVars
  <2>2. CoreTypeOK'
    <3>1. submitted' \in 0 .. MaxBridges /\ 0 \in 0 .. MaxPins
      BY <2>1, BridgeAssumption DEF PinTypeOK, CoreTypeOK
    <3> QED
      BY <2>1, <3>1, NoCallType DEF PinTypeOK, CoreTypeOK
  <2>3. BridgesUndoable' /\ BridgesOwned' /\ CallInOrder'
    BY <1>0, <2>1, NoCallType
    DEF BridgesUndoable, BridgesOwned, CallInOrder
  <2>4. KeptInOrder' /\ SubmittedIsKept'
    BY <1>0, <2>1, NoCallType, PinParts DEF KeptInOrder, SubmittedIsKept
  <2>5. NewPins'
    BY <1>0, <2>1, NoCallType DEF NewPins, PinTypeOK, CoreTypeOK
  <2> QED
    BY <2>2, <2>3, <2>4, <2>5 DEF PinInvariant
<1>2. CASE FixtureFails
  <2>1. /\ bridge' \in [Bridges -> Records]
        /\ \A c \in Bridges : c \in {kept, b} => bridge'[c] = Dead
        /\ \A c \in Bridges : c \notin {kept, b} => bridge'[c] = bridge[c]
    BY <1>0, <1>2, WithoutBridges DEF FixtureFails
  <2>2. /\ UNCHANGED <<offered, dll, entered>>
        /\ call' = NoCall /\ pin' = 0 /\ kept' = 0 /\ submitted' = 0
    BY <1>2 DEF FixtureFails
  <2>3. CoreTypeOK'
    BY <2>1, <2>2, NoCallType, BridgeAssumption DEF PinTypeOK, CoreTypeOK
  <2>4. BridgesUndoable'
    BY <1>0, <2>1, DeadType DEF BridgesUndoable
  <2>5. BridgesOwned' /\ CallInOrder'
    BY <1>0, <2>1, <2>2, NoCallType DEF BridgesOwned, CallInOrder, Dead, Gone
  <2>6. KeptInOrder' /\ SubmittedIsKept'
    BY <2>2, NoCallType DEF KeptInOrder, SubmittedIsKept
  <2>7. NewPins'
    BY <1>0, <2>2, NoCallType DEF NewPins, PinTypeOK, CoreTypeOK
  <2> QED
    BY <2>3, <2>4, <2>5, <2>6, <2>7 DEF PinInvariant
<1> QED
  BY <1>1, <1>2

-------------------------------------------------------------------------------
(* The theorems. *)

\* The initial values: no bridge, no PIN, no call.
LEMMA PinInvariantInit == Init => PinTypeOK /\ PinInvariant /\ StuckInOrder
<1> SUFFICES ASSUME Init PROVE PinTypeOK /\ PinInvariant /\ StuckInOrder
  OBVIOUS
<1>1. /\ bridge = [b \in Bridges |-> NoBridge]
      /\ offered = [p \in Pins |-> 0] /\ call = NoCall
      /\ dll \in {"tile", "fixture"} /\ pin = 0 /\ kept = 0 /\ generation = 0
      /\ entered = 0 /\ submitted = 0 /\ stuck = FALSE
  BY DEF Init, BridgeInit, TileInit
<1>2. /\ NoBridge \in Records /\ Undoable(NoBridge) /\ NoBridge.pc = "unborn"
  BY BridgeAssumption, Stages
  DEF NoBridge, Records, Undoable, HasProvider, HasCredential, HasField,
      StockCalls
<1>3. PinTypeOK
  <2>1. bridge \in [Bridges -> Records] /\ offered \in [Pins -> Nat]
    BY <1>1, <1>2
  <2>2. 0 \in 0 .. MaxPins /\ 0 \in 0 .. MaxBridges
    BY BridgeAssumption
  <2>3. stuck \in BOOLEAN
    BY <1>1, Zenon
  <2>4. 0 \in Nat
    OBVIOUS
  <2> QED
    BY <1>1, <2>1, <2>2, <2>3, <2>4, NoCallType DEF PinTypeOK, CoreTypeOK
<1>4. BridgesUndoable /\ BridgesOwned /\ CallInOrder
  BY <1>1, <1>2, NoCallType
  DEF BridgesUndoable, BridgesOwned, CallInOrder, Gone
<1>5. KeptInOrder /\ SubmittedIsKept /\ NewPins
  BY <1>1, NoCallType DEF KeptInOrder, SubmittedIsKept, NewPins
<1>6. StuckInOrder
  BY <1>1 DEF StuckInOrder, StuckIsCanceled, NoCall
<1> QED
  BY <1>3, <1>4, <1>5, <1>6 DEF PinInvariant

\* The types and the invariant hold throughout, whatever stock call fails and
\* in whichever of them LogonUI deselects the tile.
THEOREM PinInvariantHolds ==
  Spec => [](PinTypeOK /\ PinInvariant /\ StuckInOrder)
<1>1. PinTypeOK /\ PinInvariant /\ StuckInOrder /\ [Next]_signInVars =>
         PinTypeOK' /\ PinInvariant' /\ StuckInOrder'
  <2> SUFFICES ASSUME PinTypeOK, PinInvariant, StuckInOrder,
                      [Next]_signInVars
               PROVE  PinTypeOK' /\ PinInvariant' /\ StuckInOrder'
    OBVIOUS
  <2>1. ASSUME UNCHANGED core PROVE CoreTypeOK' /\ PinInvariant'
    BY <2>1 DEF core, PinTypeOK, CoreTypeOK, PinInvariant, BridgesUndoable,
                BridgesOwned, CallInOrder, KeptInOrder, SubmittedIsKept,
                NewPins
  <2>2. CoreTypeOK' /\ PinInvariant'
    BY <2>1, PinKinds, ResetsStep, PinChangesStep, CallStepStep, GivesUpStep,
       StartsStep, AssignBridgeStep, CompletesStep, FixtureEndsStep DEF Ends
  <2>3. generation' \in Nat /\ stuck' \in BOOLEAN /\ StuckInOrder'
    BY StuckStep
  <2> QED
    BY <2>2, <2>3 DEF PinTypeOK
<1> QED
  BY <1>1, PinInvariantInit, PTL DEF Spec

\* ~Impl() and serialize(): on no path is a PIN, a selection or an event sink
\* left with the stock provider.
THEOREM NothingIsLeftBehind == Spec => []NothingLeftBehind
<1>1. PinTypeOK /\ PinInvariant => NothingLeftBehind
  <2> SUFFICES ASSUME PinTypeOK, PinInvariant, NEW b \in Bridges
               PROVE  /\ bridge[b].field # 0 => call.bridge = b
                      /\ bridge[b].pc = "dead" => /\ bridge[b].has = {}
                                                  /\ bridge[b].field = 0
    BY DEF NothingLeftBehind
  <2>1. Undoable(bridge[b])
    BY DEF PinInvariant, BridgesUndoable
  <2>2. bridge[b].field # 0 => bridge[b].pc \in MayHoldPin
    BY <2>1 DEF Undoable
  <2>3. bridge[b].field # 0 => b = call.bridge \/ b = kept
    BY <2>2 DEF PinInvariant, BridgesOwned, MayHoldPin, Gone
  <2> QED
    BY <2>1, <2>2, <2>3, PinParts DEF Undoable, KeptInOrder, MayHoldPin
<1> QED
  BY <1>1, PinInvariantHolds, PTL

\* GetSerialization: no PIN is put before the stock provider twice.
THEOREM PinsOfferedOnce == Spec => []PinOfferedOnce
<1>1. PinTypeOK /\ PinInvariant => PinOfferedOnce
  BY DEF PinInvariant, NewPins, PinOfferedOnce
<1> QED
  BY <1>1, PinInvariantHolds, PTL

\* SetDeselected, ReportResult: neither destroys the bridge that is in a stock
\* call.
THEOREM BridgesOutliveCalls == Spec => []BridgeOutlivesCall
<1>1. PinTypeOK /\ PinInvariant => BridgeOutlivesCall
  BY DEF PinInvariant, CallInOrder, BridgeOutlivesCall, Gone
<1> QED
  BY <1>1, PinInvariantHolds, PTL

\* KeepBridge: the bridge of a submitted credential lives until the result.
THEOREM BridgesKeptForResult == Spec => []BridgeKeptForResult
<1>1. PinTypeOK /\ PinInvariant => BridgeKeptForResult
  BY DEF PinInvariant, SubmittedIsKept, BridgeKeptForResult
<1> QED
  BY <1>1, PinInvariantHolds, PTL

\* SetDeselected and the second locked section of GetSerialization: whichever
\* stock calls let LogonUI call the tile, a thread that is held up in the
\* teardown under mutex_ has invalidated the proof before.
THEOREM StuckIsAlwaysCanceled == Spec => []StuckIsCanceled
<1>1. StuckInOrder => StuckIsCanceled
  BY DEF StuckInOrder
<1> QED
  BY <1>1, PinInvariantHolds, PTL

\* What the filter is asked is a request of LogonUI.
FilterAsked == /\ dll \in {"tile", "fixture"}
               /\ screen.phase = "filter" => screen.request \in Requests

\* Each filter only clears decisions about convenience providers, and the one
\* of the VM keeps the key provider it found.
LEMMA FiltersOnlyHide ==
  ASSUME NEW r \in Requests, NEW f \in {Filter(r), VmFilter(r)},
         NEW i \in DOMAIN r.allow, f[i] # r.allow[i]
  PROVE  /\ r.allow[i] /\ r.providers[i] = "convenience"
         /\ f = VmFilter(r) =>
               \E j \in DOMAIN r.allow : f[j] /\ r.providers[j] = "sovereign"
<1>1. PICK n \in 0 .. ProviderLimit + 1 :
         r.allow \in [1 .. n -> BOOLEAN]
  BY DEF Requests
<1>2. f \in {r.allow, Hide(r)}
  BY DEF Filter, apply, VmFilter, LabPolicy
<1>3. \A j \in DOMAIN r.allow : Hide(r)[j] =
         (r.allow[j] /\ r.providers[j] # "convenience")
  BY DEF Hide, convenienceName
<1>4. f = Hide(r)
  BY <1>2
<1>5. r.allow[i] /\ r.providers[i] = "convenience"
  BY <1>1, <1>3, <1>4
<1>6. ASSUME f = VmFilter(r)
      PROVE  \E j \in DOMAIN r.allow : f[j] /\ r.providers[j] = "sovereign"
  <2>1. \E j \in DOMAIN r.allow : r.providers[j] = "sovereign" /\ r.allow[j]
    BY <1>6 DEF VmFilter, LabPolicy
  <2> QED
    BY <1>3, <1>4, <2>1
<1> QED
  BY <1>5, <1>6

\* DesktopFilter::Filter and VmFilter::Filter give nothing back and hide
\* nothing but convenience providers.
THEOREM FiltersGiveNothingBack == Spec => FilterOnlyHides
<1> DEFINE Allowed ==
      screen.phase = "filter" =>
         LET r == screen.request
             q == screen'.request
         IN  \A i \in DOMAIN r.allow : q.allow[i] # r.allow[i] =>
                /\ r.allow[i] /\ r.providers[i] = "convenience"
                /\ dll = "fixture" =>
                      \E j \in DOMAIN q.allow :
                         q.allow[j] /\ q.providers[j] = "sovereign"
<1>1. Init => FilterAsked
  BY DEF Init, FilterAsked, Closed
<1>2. FilterAsked /\ [Next]_signInVars => FilterAsked' /\ [Allowed]_signInVars
  <2> SUFFICES ASSUME FilterAsked, [Next]_signInVars
               PROVE  FilterAsked' /\ [Allowed]_signInVars
    OBVIOUS
  <2>1. UNCHANGED dll
    BY DEF Next, TileNext, FixtureNext, Enumerate, ProviderRelease, KeyProof,
        ProofExpires, GetSerialization, GetSerializationStale,
        GetSerializationCompletes, SetDeselected, HeldUp,
        GetSerializationFails, labArmed, SetUsageScenario, SetUserArray,
        ProviderUnAdvise, GetCredentialCount, SetStringValue,
        FixtureDeselected, FixtureSerialization, AssignBridge,
        FixtureCompletes, FixtureFails, GetCredentialAt, LogonUIRelease,
        CallStep, OpenScreen, RunFilter, ShowTiles, ResetCredential, Drop,
        signInVars, tileVars
  <2>2. CASE UNCHANGED screen
    BY <2>1, <2>2 DEF FilterAsked
  <2>3. CASE RunFilter
    <3> DEFINE r == screen.request
               f == InstalledFilter(r)
    <3>1. r \in Requests /\ screen.phase = "filter"
      BY <2>3 DEF RunFilter, FilterAsked
    <3>2. /\ screen'.phase = "filtered"
          /\ screen'.request = [r EXCEPT !.allow = f]
      BY <2>3 DEF RunFilter
    <3>3. screen'.request.allow = f /\ screen'.request.providers = r.providers
      BY <3>1, <3>2 DEF Requests
    <3>4. DOMAIN f = DOMAIN r.allow
      BY DEF InstalledFilter, Filter, apply, VmFilter, LabPolicy, Hide
    <3>5. f \in {Filter(r), VmFilter(r)} /\ (dll = "fixture" => f = VmFilter(r))
      BY DEF InstalledFilter
    <3> HIDE DEF r, f
    <3>6. \A i \in DOMAIN r.allow : f[i] # r.allow[i] =>
             /\ r.allow[i] /\ r.providers[i] = "convenience"
             /\ dll = "fixture" =>
                   \E j \in DOMAIN f : f[j] /\ r.providers[j] = "sovereign"
      BY <3>1, <3>4, <3>5, FiltersOnlyHide
    <3>7. Allowed
      BY <3>3, <3>6 DEF r
    <3> QED
      BY <2>1, <3>2, <3>7 DEF FilterAsked
  <2>4. CASE OpenScreen \/ ShowTiles
    BY <2>1, <2>4 DEF OpenScreen, ShowTiles, FilterAsked, Closed
  <2> QED
    BY <2>2, <2>3, <2>4 DEF Next, HeldUp, signInVars
<1> QED
  BY <1>1, <1>2, PTL DEF Spec, FilterOnlyHides

===============================================================================

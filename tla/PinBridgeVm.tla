----------------------------- MODULE PinBridgeVm ------------------------------
(***************************************************************************)
(* The fixture of the disposable VM, src/src/pin_bridge_vm.cpp: a provider *)
(* that asks for the lab account's PIN itself and drives the production    *)
(* WindowsPin class with it.  It has no mutex and keeps its bridge in a     *)
(* member from the moment it is constructed, so it counts on LogonUI not   *)
(* entering it while it is in a stock call.                                *)
(***************************************************************************)
EXTENDS PinTile

VARIABLES
    armed,      \* labArmed(): QEMU, BridgeArmed=1, Mode=2 and the marker file
    lab         \* the fixture's Provider: scenario_ is valid, users_ is set

fixtureVars == <<armed, lab>>

FixtureInit ==
    /\ armed = FALSE
    /\ lab = [scenario |-> FALSE, users |-> FALSE]

FixtureIdle == dll = "fixture" /\ Idle

\* The operator of the lab changes the registry or the marker file.
labArmed ==
    /\ FixtureIdle
    /\ armed' = ~armed
    /\ UNCHANGED <<bridgeVars, tileVars, lab>>

\* credential_.Reset() of a provider that may have none.
ResetCredential ==
    \/ Drop("provider")
    \/ "provider" \notin holders /\ UNCHANGED <<bridgeVars, tileVars>>

SetUsageScenario ==
    /\ FixtureIdle
    /\ ResetCredential
    /\ \E local \in BOOLEAN : lab' = [lab EXCEPT !.scenario = armed /\ local]
    /\ UNCHANGED armed

SetUserArray ==
    /\ FixtureIdle
    /\ ResetCredential
    /\ \E given \in BOOLEAN : lab' = [lab EXCEPT !.users = given]
    /\ UNCHANGED armed

ProviderUnAdvise ==
    /\ FixtureIdle
    /\ Drop("provider")
    /\ UNCHANGED fixtureVars

\* One user of the array is the lab account (none or two leave no tile).  One
\* Credential object at a time is modelled.
GetCredentialCount ==
    /\ FixtureIdle
    /\ armed /\ lab.scenario /\ lab.users
    /\ holders = {}
    /\ holders' = {"provider"}
    /\ UNCHANGED <<bridgeVars, dll, pin, kept, generation, call, entered,
                   submitted, stuck, fixtureVars>>

\* SetStringValue: the old PIN goes first; digits are kept, an empty text is
\* accepted and anything else refused.
SetStringValue ==
    /\ FixtureIdle /\ Held
    /\ \/ /\ entered < MaxPins
          /\ entered' = entered + 1
          /\ pin' = entered + 1
       \/ pin' = 0 /\ UNCHANGED entered
    /\ UNCHANGED <<bridgeVars, dll, holders, kept, generation, call,
                   submitted, stuck, fixtureVars>>

\* SetDeselected, which UnAdvise and ReportResult call.
FixtureDeselected ==
    /\ FixtureIdle /\ Held
    /\ pin' = 0 /\ kept' = 0 /\ submitted' = 0
    /\ bridge' = Without({kept} \cap Bridges)
    /\ UNCHANGED <<offered, dll, holders, generation, call, entered, stuck,
                   fixtureVars>>

\* GetSerialization: only while armed and with a PIN.  The PIN stays in pin_
\* while it is serialized, and an older bridge until the new one exists.
FixtureSerialization(b) ==
    /\ FixtureIdle /\ Held
    /\ armed /\ pin # 0 /\ Fresh(b)
    /\ call' = [bridge |-> b, pin |-> pin, attempt |-> 0]
    /\ bridge' = [bridge EXCEPT ![b].pc = "create"]
    /\ UNCHANGED <<offered, dll, holders, pin, kept, generation, entered,
                   submitted, stuck, fixtureVars>>

\* bridge_ = the new object: an older one is destroyed.
AssignBridge ==
    /\ dll = "fixture" /\ InCall
    /\ bridge[call.bridge].pc = "set" /\ kept # call.bridge
    /\ kept' = call.bridge
    /\ bridge' = Without({kept} \cap Bridges)
    /\ submitted' = 0
    /\ UNCHANGED <<offered, dll, holders, pin, generation, call, entered,
                   stuck, fixtureVars>>

FixtureCompletes ==
    /\ dll = "fixture" /\ Served
    /\ pin' = 0
    /\ call' = NoCall
    /\ submitted' \in {call.bridge, 0}
    /\ UNCHANGED <<bridgeVars, dll, holders, kept, generation, entered, stuck,
                   fixtureVars>>

\* The catch clauses: pin_.reset(), bridge_.reset().
FixtureFails ==
    /\ dll = "fixture" /\ Thrown
    /\ pin' = 0 /\ kept' = 0 /\ submitted' = 0
    /\ bridge' = Without({kept, call.bridge} \cap Bridges)
    /\ call' = NoCall
    /\ UNCHANGED <<offered, dll, holders, generation, entered, stuck,
                   fixtureVars>>

FixtureNext ==
    \/ labArmed \/ SetUsageScenario \/ SetUserArray \/ ProviderUnAdvise
    \/ GetCredentialCount \/ SetStringValue \/ FixtureDeselected
    \/ \E b \in Bridges : FixtureSerialization(b)
    \/ AssignBridge \/ FixtureCompletes \/ FixtureFails

===============================================================================

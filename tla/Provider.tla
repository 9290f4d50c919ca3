------------------------------- MODULE Provider -------------------------------
(***************************************************************************)
(* The Provider object of src/src/provider.cpp together with its tiles,    *)
(* and the in-process server that hosts them.  LogonUI configures the      *)
(* provider (scenario, user array, event sink), asks for the tiles, and    *)
(* may repeat any of it; COM unloads the module once DllCanUnloadNow       *)
(* agrees.  What a call does to the tiles is the step of Credential.tla    *)
(* named in the action; this module adds when the provider makes it.       *)
(***************************************************************************)
EXTENDS Credential, FiniteSetsExt

CONSTANT MaxUsers   \* bound: accounts in the user array

ASSUME UsersAssumption == MaxUsers \in Nat \ {0}

Users     == 1 .. MaxUsers
NoUsers   == {0}    \* the null pointer; 0 is no account

\* An empty array behaves like one none of whose accounts has a profile.
Arrays    == SUBSET Users \ {{}}

\* "other": a scenario that is not supported, or any in a remote session.
Scenarios == {"logon", "unlock", "other"}

VARIABLES
    provider,   \* a Provider object exists
    events,     \* events_ is not null
    users,      \* users_: the accounts of the array, or NoUsers
    enumerated, \* enumerated_
    supported,  \* supported_
    scenario,   \* scenario_
    account,    \* profile_.sid of each tile, 0 before construction
    mode,       \* scenario_ of each tile
    loaded      \* the module is mapped into the process

configVars   == <<events, users, enumerated, supported, scenario>>
tileVars     == <<account, mode>>
providerVars == <<provider, configVars, tileVars, loaded>>
allVars      == <<vars, providerVars>>

\* The members of a new Provider; they stand at the same values while
\* there is none.
PInit ==
    /\ Init
    /\ provider = FALSE
    /\ events = FALSE /\ users = NoUsers
    /\ enumerated = FALSE /\ supported = FALSE
    /\ scenario = "other"
    /\ account = [c \in Creds |-> 0]
    /\ mode = [c \in Creds |-> "other"]
    /\ loaded = FALSE

-------------------------------------------------------------------------------
\* DllGetClassObject and Factory::CreateInstance: COM loads the module and
\* constructs a provider with its members in their initial values.
CreateInstance ==
    /\ ~provider /\ ApartmentFree
    /\ provider' = TRUE /\ loaded' = TRUE
    /\ UNCHANGED <<vars, configVars, tileVars>>

\* Mutant of SetUsageScenario: the tiles of the old scenario are kept.
SetUsageScenarioOnly(s) ==
    /\ provider /\ ApartmentFree
    /\ supported' = (s # "other")
    /\ scenario' = s
    /\ UNCHANGED <<vars, provider, events, users, enumerated, tileVars, loaded>>

SetUsageScenario(s) ==
    /\ provider
    /\ CancelTiles
    /\ enumerated' = FALSE
    /\ supported' = (s # "other")
    /\ scenario' = s
    /\ UNCHANGED <<provider, events, users, tileVars, loaded>>

\* Mutant of Advise: the tiles do not get the sink.
AdviseProviderOnly ==
    /\ provider /\ ApartmentFree
    /\ events' = TRUE
    /\ UNCHANGED <<vars, provider, users, enumerated, supported, scenario,
                   tileVars, loaded>>

Advise ==
    /\ provider
    /\ events' = TRUE
    /\ setProviderEvents(owned)
    /\ UNCHANGED <<provider, users, enumerated, supported, scenario, tileVars,
                   loaded>>

UnAdvise ==
    /\ provider
    /\ CancelTiles
    /\ events' = FALSE
    /\ enumerated' = FALSE
    /\ UNCHANGED <<provider, users, supported, scenario, tileVars, loaded>>

SetUserArray(U) ==
    /\ provider
    /\ CancelTiles
    /\ users' = U
    /\ enumerated' = FALSE
    /\ UNCHANGED <<provider, events, supported, scenario, tileVars, loaded>>

\* enumerate(): a tile for every account whose SID and profile could be read.
\* An unreadable array, more than 256 users and an exception all leave fewer
\* tiles; none of them is retried before the next configuration call.
\* Objects are numbered in order of construction.
enumerate ==
    /\ ~enumerated /\ supported /\ users # NoUsers
    /\ enumerated' = TRUE
    /\ \E loadable \in SUBSET users :
          LET used  == {c \in Creds : life[c] # "unborn"}
              first == Cardinality(used) + 1
              new   == first .. (first + Cardinality(loadable) - 1)
          IN  /\ new \subseteq Creds
              /\ Construct(new, events)
              /\ \E assign \in [new -> loadable] :
                    /\ \A c, d \in new : c < d => assign[c] < assign[d]
                    /\ account' = [c \in Creds |-> IF c \in new THEN assign[c]
                                                               ELSE account[c]]
              /\ mode' = [c \in Creds |-> IF c \in new THEN scenario
                                                       ELSE mode[c]]
    /\ UNCHANGED <<provider, events, users, supported, scenario, loaded>>

\* The tiles ready() is called on, up to the first one that has a proof left,
\* and that one.
HasProof   == {c \in owned : ready[c] # 0 /\ ~Stale(c)}
FirstReady == IF HasProof = {} THEN {} ELSE {Min(HasProof)}
Polled     == {c \in owned : \A r \in FirstReady : c <= r}

\* GetCredentialCount: enumerate() constructs tiles only into an empty list,
\* and a new tile has no proof, so the polling loop finds nothing to do then.
GetCredentialCount ==
    /\ provider
    /\ \/ enumerate
       \/ /\ enumerated \/ ~supported \/ users = NoUsers
          /\ PollTiles(Polled, FirstReady)
          /\ UNCHANGED providerVars

\* The last Release of the provider.  LogonUI balances Advise with UnAdvise
\* before it lets a provider go.
ProviderRelease ==
    /\ provider /\ ~events
    /\ DropTiles
    /\ provider' = FALSE
    /\ events' = FALSE /\ users' = NoUsers
    /\ enumerated' = FALSE /\ supported' = FALSE
    /\ scenario' = "other"
    /\ UNCHANGED <<tileVars, loaded>>

\* DllCanUnloadNow answers S_OK when no object is left; FreeLibrary leaves a
\* pinned module mapped.
liveObjects == Cardinality({c \in Creds : Live(c)})
             + (IF provider THEN 1 ELSE 0)

Unload ==
    /\ loaded
    /\ liveObjects = 0 /\ ~pinned
    /\ loaded' = FALSE
    /\ UNCHANGED <<vars, provider, configVars, tileVars>>

-------------------------------------------------------------------------------
TilesOnly ==
    /\ \/ \E c \in Creds : TileStep(c) /\ (c \notin owned \/ provider)
       \/ \E c \in Creds, a \in Attempts : WorkerStep(c, a)
       \/ Tick
    /\ UNCHANGED providerVars

PNext ==
    \/ CreateInstance
    \/ \E s \in Scenarios : SetUsageScenario(s)
    \/ Advise
    \/ UnAdvise
    \/ \E U \in Arrays : SetUserArray(U)
    \/ GetCredentialCount
    \/ ProviderRelease
    \/ Unload
    \/ TilesOnly

PSpec == PInit /\ [][PNext]_allVars

-------------------------------------------------------------------------------
(* Properties. *)

\* A listed tile always belongs to the scenario and to an account LogonUI
\* announced last, one tile per account: no tile survives a configuration
\* change in the list.
ListMatchesConfiguration ==
    /\ ~enumerated => owned = {}
    /\ \A c \in owned : supported /\ account[c] \in users /\ mode[c] = scenario
    /\ \A c, d \in owned : account[c] = account[d] => c = d

\* A listed tile can start a key request exactly when the provider has a sink
\* to report its completion to, in whichever order Advise and the enumeration
\* came.  Without one, as LogonUI leaves a provider before its last Release, no
\* tile holds a proof, a bridge or a pending request: the destructor, which
\* drops the tiles without SetDeselected, has nothing to cancel.
TilesFollowSink ==
    \A c \in owned :
        /\ providerEvents[c] = events
        /\ ~events => ready[c] = 0 /\ ~working[c] /\ pinBridge[c] = 0

\* No thread executes code of an unloaded module: not the worker before its
\* last Release, and not its epilogue after it.
NoThreadInUnloadedModule ==
    ~loaded => \A c \in Creds, a \in Attempts :
                  worker[c][a] \in {"none", "gone"}

===============================================================================

---------------------------- MODULE ProviderProofs ----------------------------
(***************************************************************************)
(* The provider's list, sink and module, for any number of tiles, attempts *)
(* and accounts.  A call of the provider is a step of the tiles, so what   *)
(* CredentialProofs.tla shows of them holds under every provider; what is  *)
(* left is how the list follows the configuration, and who keeps the       *)
(* module mapped.                                                          *)
(***************************************************************************)
EXTENDS Provider, CredentialProofs

ConfigTypeOK ==
    /\ provider \in BOOLEAN /\ loaded \in BOOLEAN
    /\ events \in BOOLEAN /\ enumerated \in BOOLEAN /\ supported \in BOOLEAN
    /\ users \in Arrays \cup {NoUsers}
    /\ scenario \in Scenarios
    /\ account \in [Creds -> 0 .. MaxUsers]
    /\ mode \in [Creds -> Scenarios]

\* What the tiles of a provider satisfy whoever calls them.
TilesSound == TypeOK /\ TileInvariant /\ ReferencesExact /\ CallerIsHeld

\* A tile without a sink never started a request.
Untouched(c) ==
    /\ ready[c] = 0 /\ ~working[c] /\ pinBridge[c] = 0
    /\ ~(call.pc = "serialize" /\ call.cred = c)
    /\ \A a \in Attempts : worker[c][a] = "none"

SinkFirst ==
    \A c \in Creds : /\ life[c] = "unborn" => ~providerEvents[c]
                     /\ ~providerEvents[c] => Untouched(c)

SinkShared == \A c \in owned : providerEvents[c] = events

\* The provider and every tile keep the module mapped, and so does the pin
\* that begin() sets before it starts the first worker.
ModuleHeld ==
    /\ provider \/ pinned => loaded
    /\ \A c \in Creds : Live(c) => loaded
    /\ ~pinned => \A c \in Creds, a \in Attempts : worker[c][a] = "none"

ProviderInvariant ==
    /\ ListMatchesConfiguration
    /\ SinkFirst
    /\ SinkShared
    /\ ModuleHeld

-------------------------------------------------------------------------------
(* Every step of the provider is a step of its tiles. *)

\* The shape of enumerate() without the numbering of the objects: new tiles,
\* with the provider's sink and scenario, one per account of the array.
Enumerates(new, assign) ==
    /\ ~enumerated /\ supported /\ users # NoUsers /\ enumerated'
    /\ Construct(new, events)
    /\ \A c \in new : assign[c] \in users
    /\ \A c, d \in new : assign[c] = assign[d] => c = d
    /\ account' = [c \in Creds |-> IF c \in new THEN assign[c] ELSE account[c]]
    /\ mode' = [c \in Creds |-> IF c \in new THEN scenario ELSE mode[c]]
    /\ UNCHANGED <<provider, events, users, supported, scenario, loaded>>

\* enumerate() has this shape: its tiles are numbered in the accounts' order.
LEMMA EnumerateShape ==
  ASSUME ConfigTypeOK, enumerate
  PROVE  \E new \in SUBSET Creds : \E assign : Enumerates(new, assign)
<1>1. users \in SUBSET Users
  BY DEF enumerate, ConfigTypeOK, Arrays
<1>2. PICK loadable \in SUBSET users :
         LET used  == {c \in Creds : life[c] # "unborn"}
             first == Cardinality(used) + 1
             new   == first .. (first + Cardinality(loadable) - 1)
         IN  /\ new \subseteq Creds
             /\ Construct(new, events)
             /\ \E assign \in [new -> loadable] :
                   /\ \A c, d \in new : c < d => assign[c] < assign[d]
                   /\ account' = [c \in Creds |-> IF c \in new THEN assign[c]
                                                              ELSE account[c]]
             /\ mode' = [c \in Creds |-> IF c \in new THEN scenario
                                                      ELSE mode[c]]
  BY Zenon DEF enumerate
<1> DEFINE first == Cardinality({c \in Creds : life[c] # "unborn"}) + 1
           new   == first .. (first + Cardinality(loadable) - 1)
<1>n. new \in SUBSET Creds
  BY <1>2, Zenon
<1>c. Construct(new, events)
  BY <1>2, Zenon
<1>m. mode' = [c \in Creds |-> IF c \in new THEN scenario ELSE mode[c]]
  BY <1>2, Zenon
<1>3. PICK assign \in [new -> loadable] :
         /\ \A c, d \in new : c < d => assign[c] < assign[d]
         /\ account' = [c \in Creds |-> IF c \in new THEN assign[c]
                                                     ELSE account[c]]
  BY <1>2, Zenon
<1> HIDE DEF new, first
<1>4. \A c \in new : c \in Int /\ assign[c] \in Int /\ assign[c] \in users
  <2>1. \A u \in users : u \in Int
    BY <1>1 DEF Users
  <2>2. \A c \in new : assign[c] \in users
    BY <1>3, Zenon
  <2>3. \A c \in new : c \in Int
    BY <1>n DEF Creds
  <2> QED
    BY <2>1, <2>2, <2>3
<1>5. \A c, d \in new : assign[c] = assign[d] => c = d
  <2> SUFFICES ASSUME NEW c \in new, NEW d \in new, c # d
               PROVE  assign[c] # assign[d]
    OBVIOUS
  <2>1. c < d \/ d < c
    BY <1>4
  <2> QED
    BY <1>3, <1>4, <2>1
<1>6. Enumerates(new, assign)
  BY <1>c, <1>m, <1>3, <1>4, <1>5 DEF enumerate, Enumerates
<1> QED
  BY <1>n, <1>6

\* The members of the provider keep their types.
LEMMA ConfigTypeStep ==
  ASSUME TypeOK, ConfigTypeOK, [PNext]_allVars
  PROVE  ConfigTypeOK'
<1> USE DEF ConfigTypeOK
<1>1. CASE CreateInstance
  BY <1>1 DEF CreateInstance, configVars, tileVars
<1>2. ASSUME NEW s \in Scenarios, SetUsageScenario(s) PROVE ConfigTypeOK'
  BY <1>2 DEF SetUsageScenario, tileVars
<1>3. CASE Advise \/ UnAdvise
  BY <1>3 DEF Advise, UnAdvise, tileVars
<1>4. ASSUME NEW U \in Arrays, SetUserArray(U) PROVE ConfigTypeOK'
  BY <1>4 DEF SetUserArray, tileVars
<1>5. CASE enumerate
  <2>0. PICK new \in SUBSET Creds : \E assign : Enumerates(new, assign)
    BY <1>5, EnumerateShape
  <2>1. PICK assign : Enumerates(new, assign)
    BY <2>0
  <2>2. users \in SUBSET Users
    BY <2>1 DEF Enumerates, Arrays
  <2>3. \A c \in new : assign[c] \in 0 .. MaxUsers
    <3>1. \A u \in users : u \in 0 .. MaxUsers
      BY <2>2, UsersAssumption DEF Users
    <3> QED
      BY <2>1, <3>1 DEF Enumerates
  <2>4. account' \in [Creds -> 0 .. MaxUsers]
    BY <2>1, <2>3 DEF Enumerates
  <2>5. mode' \in [Creds -> Scenarios]
    BY <2>1 DEF Enumerates
  <2> QED
    BY <2>1, <2>4, <2>5 DEF Enumerates
<1>6. CASE UNCHANGED providerVars
  BY <1>6 DEF providerVars, configVars, tileVars
<1>7. CASE ProviderRelease
  BY <1>7 DEF ProviderRelease, tileVars, Scenarios
<1>8. CASE Unload
  BY <1>8 DEF Unload, configVars, tileVars
<1> QED
  BY <1>1, <1>2, <1>3, <1>4, <1>5, <1>6, <1>7, <1>8
  DEF PNext, GetCredentialCount, TilesOnly, allVars

\* A method of the provider calls its tiles, or leaves them alone.
LEMMA ProviderIsTileStep ==
  ASSUME TypeOK, ConfigTypeOK, [PNext]_allVars
  PROVE  [Next]_vars
<1>1. CASE CreateInstance \/ Unload \/ UNCHANGED allVars
  BY <1>1 DEF CreateInstance, Unload, allVars
<1>2. CASE CancelTiles \/ DropTiles
  BY <1>2 DEF Next, ProviderStep
<1>3. CASE Advise
  BY <1>3 DEF Advise, Next, ProviderStep, TypeOK
<1>4. CASE enumerate
  <2>0. PICK new \in SUBSET Creds : \E assign : Enumerates(new, assign)
    BY <1>4, EnumerateShape
  <2>1. PICK assign : Enumerates(new, assign)
    BY <2>0
  <2>2. Construct(new, events) /\ events \in BOOLEAN
    BY <2>1 DEF Enumerates, ConfigTypeOK
  <2> QED
    BY <2>2 DEF Next, ProviderStep
<1>5. CASE PollTiles(Polled, FirstReady)
  <2>1. Polled \in SUBSET Creds /\ FirstReady \in SUBSET Creds
    BY <1>5 DEF PollTiles, TypeOK
  <2> QED
    BY <1>5, <2>1 DEF Next, ProviderStep
<1>6. CASE TilesOnly
  BY <1>6 DEF TilesOnly, Next
<1> QED
  BY <1>1, <1>2, <1>3, <1>4, <1>5, <1>6
  DEF PNext, SetUsageScenario, UnAdvise, SetUserArray, GetCredentialCount,
      ProviderRelease

\* So the tiles' own invariants are kept.
LEMMA TilesSoundStep ==
  ASSUME TilesSound, ConfigTypeOK, [PNext]_allVars
  PROVE  TilesSound'
<1>1. [Next]_vars
  BY ProviderIsTileStep DEF TilesSound
<1> QED
  BY <1>1, TypeStep, OneRequestStep, ProofIsCurrentStep, AttemptsInOrderStep,
     CallCoherentStep, SecretStep, BridgeStep, ReferencesStep, CallerIsHeldStep
  DEF TilesSound, TileInvariant

-------------------------------------------------------------------------------
(* The list and the sink. *)

\* The tiles' own steps leave the provider's list and their sinks alone.
LEMMA TilesKeepList ==
  ASSUME TilesOnly
  PROVE  UNCHANGED <<owned, providerEvents, providerVars>>
<1>1. ASSUME NEW c \in Creds, TileStep(c) PROVE UNCHANGED <<owned, providerEvents>>
  BY <1>1 DEF TileStep, Begin, GetCredentialAt, HostRelease, BeginBusy,
     BeginRefused, BeginStarts, BeginThreadFails, SetSelected, SetDeselected,
     ReportResult, GetSerialization, SerializeThrows, Complete, objectVars
<1>2. ASSUME NEW c \in Creds, NEW a \in Attempts, WorkerStep(c, a)
      PROVE  UNCHANGED <<owned, providerEvents>>
  BY <1>2 DEF WorkerStep, WorkerAuthenticate, WorkerFinish, WorkerNotify,
     WorkerRelease, WorkerExit, objectVars
<1> QED
  BY <1>1, <1>2 DEF TilesOnly, Tick, objectVars

\* What a step does to the list: it is emptied by a configuration call, filled
\* by the enumeration, or kept together with the configuration.
Empties == /\ owned' = {} /\ ~enumerated'
           /\ UNCHANGED providerEvents

Keeps == UNCHANGED <<owned, users, enumerated, supported, scenario, account,
                     mode>>

SinkKept == UNCHANGED <<events, providerEvents>>

\* What each step does to the list and to the sink.
LEMMA ListKinds ==
  ASSUME ConfigTypeOK, [PNext]_allVars
  PROVE  \/ Empties
         \/ \E new \in SUBSET Creds : \E assign : Enumerates(new, assign)
         \/ Keeps /\ SinkKept
         \/ Keeps /\ Advise
<1> USE DEF Empties, Keeps, SinkKept
<1>1. CASE CreateInstance \/ Unload \/ UNCHANGED allVars
  BY <1>1 DEF CreateInstance, Unload, allVars, vars, objectVars, providerVars,
              configVars, tileVars
<1>2. ASSUME NEW s \in Scenarios, SetUsageScenario(s) PROVE Empties
  BY <1>2 DEF SetUsageScenario, CancelTiles
<1>3. CASE Advise
  BY <1>3 DEF Advise, setProviderEvents, objectVars, tileVars
<1>4. CASE UnAdvise
  BY <1>4 DEF UnAdvise, CancelTiles
<1>5. ASSUME NEW U \in Arrays, SetUserArray(U) PROVE Empties
  BY <1>5 DEF SetUserArray, CancelTiles
<1>6. CASE enumerate
  BY <1>6, EnumerateShape
<1>7. CASE PollTiles(Polled, FirstReady) /\ UNCHANGED providerVars
  BY <1>7 DEF PollTiles, objectVars, providerVars, configVars, tileVars
<1>8. CASE ProviderRelease
  BY <1>8 DEF ProviderRelease, DropTiles
<1>9. CASE TilesOnly
  BY <1>9, TilesKeepList DEF providerVars, configVars, tileVars
<1> QED
  BY <1>1, <1>2, <1>3, <1>4, <1>5, <1>6, <1>7, <1>8, <1>9
  DEF PNext, GetCredentialCount

\* The list is empty when it is filled, and emptied when the configuration
\* changes.
LEMMA ListStep ==
  ASSUME TypeOK, ConfigTypeOK, ListMatchesConfiguration, [PNext]_allVars
  PROVE  ListMatchesConfiguration'
<1> USE DEF ListMatchesConfiguration
<1>1. CASE Empties
  BY <1>1 DEF Empties
<1>2. CASE Keeps
  BY <1>2 DEF Keeps
<1>3. ASSUME NEW new \in SUBSET Creds, NEW assign, Enumerates(new, assign)
      PROVE  ListMatchesConfiguration'
  <2>1. owned' = new /\ enumerated'
    BY <1>3 DEF Enumerates, Construct
  <2>2. \A c \in new : account'[c] = assign[c] /\ mode'[c] = scenario
    BY <1>3 DEF Enumerates
  <2>3. \A c \in owned' : supported' /\ account'[c] \in users'
                          /\ mode'[c] = scenario'
    BY <1>3, <2>1, <2>2 DEF Enumerates
  <2>4. \A c, d \in owned' : account'[c] = account'[d] => c = d
    BY <1>3, <2>1, <2>2 DEF Enumerates
  <2> QED
    BY <2>1, <2>3, <2>4
<1> QED
  BY <1>1, <1>2, <1>3, ListKinds

\* Advise and enumerate() give the tiles of the list the provider's sink.
LEMMA SinkSharedStep ==
  ASSUME TypeOK, ConfigTypeOK, ListMatchesConfiguration, SinkShared,
         [PNext]_allVars
  PROVE  SinkShared'
<1> USE DEF SinkShared
<1>1. CASE Empties
  BY <1>1 DEF Empties
<1>2. CASE Keeps /\ SinkKept
  BY <1>2 DEF Keeps, SinkKept
<1>3. CASE Keeps /\ Advise
  <2>1. \A c \in owned : providerEvents'[c] = TRUE
    BY <1>3 DEF Advise, setProviderEvents, TypeOK
  <2> QED
    BY <1>3, <2>1 DEF Keeps, Advise
<1>4. ASSUME NEW new \in SUBSET Creds, NEW assign, Enumerates(new, assign)
      PROVE  SinkShared'
  <2>1. owned' = new
    BY <1>4 DEF Enumerates, Construct, ListMatchesConfiguration
  <2>2. \A c \in new : providerEvents'[c] = events
    BY <1>4 DEF Enumerates, Construct
  <2> QED
    BY <1>4, <2>1, <2>2 DEF Enumerates
<1> QED
  BY <1>1, <1>2, <1>3, <1>4, ListKinds

\* The provider and LogonUI only hold tiles that exist.
LEMMA HeldIsLive ==
  ASSUME TypeOK, ReferencesExact, NEW c \in owned \cup handed
  PROVE  c \in Creds /\ Live(c)
<1>1. c \in Creds
  BY DEF TypeOK
<1>2. Exact(c)
  BY <1>1, ExactIsExact
<1>3. Cardinality(Waiting(c)) \in Nat
  <2>1. Waiting(c) \in SUBSET Attempts
    BY DEF Waiting
  <2>2. 1 \in Attempts
    BY BoundsAssumption DEF Attempts
  <2> QED
    BY <2>1, <2>2, CountWaiting
<1> QED
  BY <1>1, <1>2, <1>3 DEF Exact

-------------------------------------------------------------------------------
(* A tile without a sink has nothing to cancel. *)

\* A sink, once set, stays; a tile that does not exist gets one only by being
\* constructed.
LEMMA SinkKinds ==
  ASSUME TypeOK, ReferencesExact, [Next]_vars,
         \A c \in Creds : life[c] = "unborn" => ~providerEvents[c]
  PROVE  \A c \in Creds : /\ life'[c] = "unborn" => ~providerEvents'[c]
                          /\ ~providerEvents'[c] => ~providerEvents[c]
<1>0. life \in [Creds -> {"unborn", "live", "dead"}]
  BY DEF TypeOK
<1>1. ASSUME NEW S \in SUBSET Creds, NEW advised \in BOOLEAN,
             Construct(S, advised), NEW c \in Creds
      PROVE  /\ life'[c] = "unborn" => ~providerEvents'[c]
             /\ ~providerEvents'[c] => ~providerEvents[c]
  <2>1. life'[c] = IF c \in S THEN "live" ELSE life[c]
    BY <1>1 DEF Construct
  <2>2. providerEvents'[c] = IF c \in S THEN advised ELSE providerEvents[c]
    BY <1>1 DEF Construct
  <2>3. c \in S => life[c] = "unborn"
    BY <1>1 DEF Construct
  <2> QED
    BY <2>1, <2>2, <2>3
<1>2. ASSUME NEW S \in SUBSET Creds, setProviderEvents(S), NEW c \in Creds
      PROVE  /\ life'[c] = "unborn" => ~providerEvents'[c]
             /\ ~providerEvents'[c] => ~providerEvents[c]
  <2>1. providerEvents'[c] <=> c \in S \/ providerEvents[c]
    BY <1>2 DEF setProviderEvents
  <2>2. c \in S => life[c] # "unborn"
    BY <1>2, HeldIsLive DEF setProviderEvents, Live
  <2>3. life' = life
    BY <1>2 DEF setProviderEvents, objectVars
  <2> QED
    BY <2>1, <2>2, <2>3
<1>3. CASE /\ UNCHANGED providerEvents
           /\ UNCHANGED life \/ \E S : DropReference(S)
  <2>1. \A c \in Creds : life'[c] = "unborn" => life[c] = "unborn"
    BY <1>0, <1>3 DEF DropReference
  <2> QED
    BY <1>3, <2>1
<1>4. ASSUME NEW c \in Creds, TileStep(c)
      PROVE  /\ UNCHANGED providerEvents
             /\ UNCHANGED life \/ \E S : DropReference(S)
  BY <1>4 DEF TileStep, Begin, GetCredentialAt, HostRelease, BeginBusy,
     BeginRefused, BeginStarts, BeginThreadFails, SetSelected, SetDeselected,
     ReportResult, GetSerialization, SerializeThrows, Complete, objectVars
<1>5. ASSUME NEW c \in Creds, NEW a \in Attempts, WorkerStep(c, a)
      PROVE  /\ UNCHANGED providerEvents
             /\ UNCHANGED life \/ \E S : DropReference(S)
  BY <1>5 DEF WorkerStep, WorkerAuthenticate, WorkerFinish, WorkerNotify,
     WorkerRelease, WorkerExit, objectVars
<1>6. CASE CancelTiles \/ DropTiles
  BY <1>3, <1>6 DEF CancelTiles, DropTiles
<1>7. ASSUME NEW S, NEW selected, PollTiles(S, selected)
      PROVE  UNCHANGED <<providerEvents, life>>
  BY <1>7 DEF PollTiles, objectVars
<1>8. CASE Tick \/ UNCHANGED vars
  BY <1>3, <1>8 DEF Tick, vars, objectVars
<1> QED
  BY <1>1, <1>2, <1>3, <1>4, <1>5, <1>6, <1>7, <1>8 DEF Next, ProviderStep

\* begin() refuses a tile without a sink, so no worker, proof or bridge comes
\* to be.
LEMMA UntouchedStep ==
  ASSUME TypeOK, [Next]_vars, NEW c \in Creds, ~providerEvents[c], Untouched(c)
  PROVE  Untouched(c)'
<1> USE DEF Untouched
<1>0. /\ ready \in [Creds -> Secrets] /\ pinBridge \in [Creds -> Secrets]
      /\ working \in [Creds -> BOOLEAN]
      /\ worker \in [Creds -> [Attempts -> WorkerStates]]
  BY DEF TypeOK
<1>1. CASE NoEffect
  BY <1>1 DEF NoEffect, core
<1>2. CASE Returns
  BY <1>2 DEF Returns, NoCall
<1>3. CASE Polls
  BY <1>3 DEF Polls, Poll
<1>4. CASE Deselects
  BY <1>4 DEF Deselects, Deselect
<1>5. ASSUME NEW d \in Creds, Refuses(d) PROVE Untouched(c)'
  BY <1>0, <1>5 DEF Refuses, NoCall
<1>6. ASSUME NEW d \in Creds, BeginStarts(d) PROVE Untouched(c)'
  <2>1. d # c
    BY <1>6 DEF BeginStarts, CanBegin
  <2>2. ready'[c] = ready[c] /\ working'[c] = working[c]
        /\ worker'[c] = worker[c]
    BY <1>0, <1>6, <2>1 DEF BeginStarts
  <2> QED
    BY <1>6, <2>2 DEF BeginStarts, NoCall
<1>7. ASSUME NEW d \in Creds, GetSerialization(d) PROVE Untouched(c)'
  <2>1. ~(call'.pc = "serialize" /\ call'.cred = c)
    BY <1>7 DEF GetSerialization
  <2>2. ready'[c] = 0
    BY <1>0, <1>7 DEF GetSerialization
  <2> QED
    BY <1>7, <2>1, <2>2 DEF GetSerialization
<1>8. ASSUME NEW d \in Creds, Complete(d) PROVE Untouched(c)'
  <2>1. d # c
    BY <1>8 DEF Complete
  <2>2. pinBridge'[c] = pinBridge[c]
    BY <1>0, <1>8, <2>1 DEF Complete
  <2> QED
    BY <1>8, <2>2 DEF Complete, NoCall
<1>9. ASSUME NEW d \in Creds, NEW a \in Attempts, Moves(d, a)
      PROVE  Untouched(c)'
  <2>1. d # c
    BY <1>9 DEF Moves, MoveWorker
  <2>2. worker'[c] = worker[c]
    BY <1>0, <1>9, <2>1 DEF Moves, MoveWorker
  <2> QED
    BY <1>9, <2>2 DEF Moves
<1>10. ASSUME NEW d \in Creds, NEW a \in Attempts, WorkerFinish(d, a)
       PROVE  Untouched(c)'
  <2>1. d # c
    BY <1>10 DEF WorkerFinish
  <2>2. worker'[c] = worker[c] /\ working'[c] = working[c]
    BY <1>0, <1>10, <2>1 DEF WorkerFinish
  <2>3. ready'[c] = ready[c]
    BY <1>0, <1>10, <2>1 DEF WorkerFinish, Publish
  <2> QED
    BY <1>10, <2>2, <2>3 DEF WorkerFinish
<1> QED
  BY <1>1, <1>2, <1>3, <1>4, <1>5, <1>6, <1>7, <1>8, <1>9, <1>10, StepKinds

\* A request is only started by a tile that was given a sink.
LEMMA SinkFirstStep ==
  ASSUME TypeOK, ReferencesExact, SinkFirst, [Next]_vars
  PROVE  SinkFirst'
  BY SinkKinds, UntouchedStep DEF SinkFirst

-------------------------------------------------------------------------------
(* The module. *)

\* Only the enumeration constructs tiles.
LEMMA NoneBorn ==
  ASSUME TypeOK, UNCHANGED life \/ \E S : DropReference(S)
  PROVE  \A c \in Creds : life'[c] = "live" => Live(c)
  BY DEF DropReference, Live, TypeOK

\* The tiles' own steps construct none.
LEMMA TilesOnlyLife ==
  ASSUME TilesOnly
  PROVE  UNCHANGED life \/ \E S : DropReference(S)
<1>1. ASSUME NEW c \in Creds, TileStep(c)
      PROVE  UNCHANGED life \/ \E S : DropReference(S)
  BY <1>1 DEF TileStep, Begin, GetCredentialAt, HostRelease, BeginBusy,
     BeginRefused, BeginStarts, BeginThreadFails, SetSelected, SetDeselected,
     ReportResult, GetSerialization, SerializeThrows, Complete, objectVars
<1>2. ASSUME NEW c \in Creds, NEW a \in Attempts, WorkerStep(c, a)
      PROVE  UNCHANGED life \/ \E S : DropReference(S)
  BY <1>2 DEF WorkerStep, WorkerAuthenticate, WorkerFinish, WorkerNotify,
     WorkerRelease, WorkerExit, objectVars
<1> QED
  BY <1>1, <1>2 DEF TilesOnly, Tick, objectVars

\* The first worker is started by a begin() that pins the module, and the pin
\* is never taken back.
LEMMA PinKinds ==
  ASSUME TypeOK, TilesOnly
  PROVE  \/ UNCHANGED <<pinned, worker>>
         \/ pinned' /\ \E c \in Creds : InBegin(c)
         \/ UNCHANGED pinned /\ \E c \in Creds, a \in Attempts : worker[c][a] # "none"
<1>1. ASSUME NEW c \in Creds, TileStep(c)
      PROVE  UNCHANGED <<pinned, worker>> \/ (pinned' /\ InBegin(c))
  BY <1>1 DEF TileStep, Begin, GetCredentialAt, HostRelease, BeginBusy,
     BeginRefused, BeginStarts, BeginThreadFails, CanBegin, PinModule,
     SetSelected, SetDeselected, ReportResult, GetSerialization,
     SerializeThrows, Complete
<1>2. ASSUME NEW c \in Creds, NEW a \in Attempts, WorkerStep(c, a)
      PROVE  UNCHANGED pinned /\ worker[c][a] # "none"
  BY <1>2 DEF WorkerStep, WorkerAuthenticate, WorkerFinish, WorkerNotify,
     WorkerRelease, WorkerExit, MoveWorker
<1> QED
  BY <1>1, <1>2 DEF TilesOnly, Tick

\* DllCanUnloadNow counts every object.
LEMMA NoObjectLeft ==
  ASSUME ConfigTypeOK, liveObjects = 0
  PROVE  ~provider /\ \A c \in Creds : ~Live(c)
<1> DEFINE L == {c \in Creds : Live(c)}
<1>1. IsFiniteSet(Creds)
  BY BoundsAssumption, FS_Interval DEF Creds
<1>2. IsFiniteSet(L) /\ Cardinality(L) \in Nat
  <2>1. L \in SUBSET Creds
    OBVIOUS
  <2> QED
    BY <1>1, <2>1, FS_Subset, FS_CardinalityType
<1>3. Cardinality(L) + (IF provider THEN 1 ELSE 0) = 0
  BY DEF liveObjects
<1>4. Cardinality(L) = 0 /\ ~provider
  <2> HIDE DEF L
  <2> QED
    BY <1>2, <1>3
<1>5. L = {}
  BY <1>2, <1>4, FS_EmptySet
<1> QED
  BY <1>4, <1>5

\* Objects and the pin keep the module mapped.
LEMMA ModuleStep ==
  ASSUME TypeOK, ReferencesExact, CallerIsHeld, ConfigTypeOK, ModuleHeld,
         [PNext]_allVars
  PROVE  ModuleHeld'
<1> USE DEF ModuleHeld
<1>1. ASSUME UNCHANGED <<pinned, worker, provider, loaded>>,
             UNCHANGED life \/ \E S : DropReference(S)
      PROVE  ModuleHeld'
  BY <1>1, NoneBorn DEF Live
<1>2. CASE CreateInstance
  BY <1>2 DEF CreateInstance, vars, objectVars, Live
<1>3. CASE Unload
  <2>1. ~provider /\ ~pinned /\ \A c \in Creds : ~Live(c)
    BY <1>3, NoObjectLeft DEF Unload
  <2>2. UNCHANGED <<provider, pinned, life, worker>>
    BY <1>3 DEF Unload, vars, objectVars
  <2> QED
    BY <2>1, <2>2 DEF Live
<1>4. ASSUME NEW s, SetUsageScenario(s) PROVE ModuleHeld'
  BY <1>1, <1>4 DEF SetUsageScenario, CancelTiles
<1>5. CASE Advise
  BY <1>1, <1>5 DEF Advise, setProviderEvents, objectVars
<1>6. CASE UnAdvise
  BY <1>1, <1>6 DEF UnAdvise, CancelTiles
<1>7. ASSUME NEW U, SetUserArray(U) PROVE ModuleHeld'
  BY <1>1, <1>7 DEF SetUserArray, CancelTiles
<1>8. CASE provider /\ enumerate
  <2>0. PICK new \in SUBSET Creds : \E assign : Enumerates(new, assign)
    BY <1>8, EnumerateShape
  <2>1. PICK assign : Enumerates(new, assign)
    BY <2>0
  <2>2. UNCHANGED <<pinned, worker, provider, loaded>>
    BY <2>1 DEF Enumerates, Construct
  <2> QED
    BY <1>8, <2>2
<1>9. CASE PollTiles(Polled, FirstReady) /\ UNCHANGED providerVars
  BY <1>1, <1>9 DEF PollTiles, objectVars, providerVars
<1>10. CASE ProviderRelease
  <2>1. /\ UNCHANGED <<pinned, worker, loaded>> /\ ~provider'
        /\ DropReference(owned)
    BY <1>10 DEF ProviderRelease, DropTiles
  <2>2. \A c \in Creds : life'[c] = "live" => Live(c)
    BY <2>1, NoneBorn
  <2> QED
    BY <2>1, <2>2 DEF Live
<1>11. CASE TilesOnly
  <2>1. UNCHANGED <<provider, loaded>>
    BY <1>11 DEF TilesOnly, providerVars
  <2>2. \A c \in Creds : life'[c] = "live" => Live(c)
    BY <1>11, TilesOnlyLife, NoneBorn
  <2>3. ASSUME NEW c \in Creds, InBegin(c) PROVE loaded
    <3>1. c \in handed
      BY <2>3 DEF InBegin, CallerIsHeld
    <3> QED
      BY <3>1, HeldIsLive
  <2> QED
    BY <1>11, <2>1, <2>2, <2>3, PinKinds DEF Live
<1>12. CASE UNCHANGED allVars
  BY <1>1, <1>12 DEF allVars, vars, objectVars, providerVars
<1> QED
  BY <1>2, <1>3, <1>4, <1>5, <1>6, <1>7, <1>8, <1>9, <1>10, <1>11, <1>12
  DEF PNext, GetCredentialCount

-------------------------------------------------------------------------------
(* The theorems. *)

\* Nothing exists at the start.
LEMMA ProviderInit == PInit => TilesSound /\ ConfigTypeOK /\ ProviderInvariant
<1> SUFFICES ASSUME PInit PROVE TilesSound /\ ConfigTypeOK /\ ProviderInvariant
  OBVIOUS
<1>1. TilesSound
  BY TypeInit, TileInvariantInit, ReferencesInit DEF PInit, TilesSound
<1>2. ConfigTypeOK
  <2>1. 0 \in 0 .. MaxUsers
    BY UsersAssumption
  <2>2. account \in [Creds -> 0 .. MaxUsers]
    BY <2>1 DEF PInit
  <2>3. mode \in [Creds -> Scenarios] /\ scenario \in Scenarios
    BY DEF PInit, Scenarios
  <2> QED
    BY <2>2, <2>3 DEF PInit, ConfigTypeOK
<1>3. ListMatchesConfiguration /\ SinkShared
  BY DEF PInit, Init, ListMatchesConfiguration, SinkShared
<1>4. SinkFirst
  BY DEF PInit, Init, SinkFirst, Untouched, NoCall
<1>5. ModuleHeld
  BY DEF PInit, Init, ModuleHeld, Live
<1> QED
  BY <1>1, <1>2, <1>3, <1>4, <1>5 DEF ProviderInvariant

\* Under a provider that LogonUI configures and reconfigures in any order, the
\* tiles keep their invariant and exact reference counts, the list follows the
\* configuration and the sink, and whatever runs in the module keeps it mapped.
THEOREM ProviderInvariantHolds ==
  PSpec => [](TilesSound /\ ConfigTypeOK /\ ProviderInvariant)
<1>1. /\ TilesSound /\ ConfigTypeOK /\ ProviderInvariant /\ [PNext]_allVars
      => (TilesSound /\ ConfigTypeOK /\ ProviderInvariant)'
  <2> SUFFICES ASSUME TilesSound, ConfigTypeOK, ProviderInvariant,
                      [PNext]_allVars
               PROVE  (TilesSound /\ ConfigTypeOK /\ ProviderInvariant)'
    OBVIOUS
  <2>1. TypeOK /\ ReferencesExact /\ CallerIsHeld /\ [Next]_vars
    BY ProviderIsTileStep DEF TilesSound
  <2> QED
    BY <2>1, TilesSoundStep, ConfigTypeStep, ListStep, SinkSharedStep,
       SinkFirstStep, ModuleStep DEF ProviderInvariant
<1> QED
  BY <1>1, ProviderInit, PTL DEF PSpec

\* No tile of an earlier scenario or user array is ever listed, and no account
\* twice.
THEOREM ListsMatchConfiguration == PSpec => []ListMatchesConfiguration
<1>1. ProviderInvariant => ListMatchesConfiguration
  BY DEF ProviderInvariant
<1> QED
  BY <1>1, ProviderInvariantHolds, PTL

\* The listed tiles have the provider's sink, and without one nothing that
\* the destructor would have to cancel.
THEOREM TilesAlwaysFollowSink == PSpec => []TilesFollowSink
<1>1. TilesSound /\ ProviderInvariant => TilesFollowSink
  <2> SUFFICES ASSUME TilesSound, ProviderInvariant, NEW c \in owned
               PROVE  /\ providerEvents[c] = events
                      /\ ~events => ready[c] = 0 /\ ~working[c]
                                    /\ pinBridge[c] = 0
    BY DEF TilesFollowSink
  <2>1. c \in Creds
    BY DEF TilesSound, TypeOK
  <2>2. providerEvents[c] = events
    BY DEF ProviderInvariant, SinkShared
  <2>3. ~providerEvents[c] => Untouched(c)
    BY <2>1 DEF ProviderInvariant, SinkFirst
  <2> QED
    BY <2>2, <2>3, Zenon DEF Untouched
<1> QED
  BY <1>1, ProviderInvariantHolds, PTL

\* DllCanUnloadNow and the pin together never let the module go while one of
\* its threads runs.
THEOREM NoThreadIsUnmapped == PSpec => []NoThreadInUnloadedModule
<1>1. ProviderInvariant => NoThreadInUnloadedModule
  BY DEF ProviderInvariant, ModuleHeld, NoThreadInUnloadedModule
<1> QED
  BY <1>1, ProviderInvariantHolds, PTL

\* A provider with its tiles is one of the environments Credential.tla allows,
\* so every theorem about the tiles is one about the provider.
THEOREM ProviderImplementsTiles == PSpec => Spec
<1>1. PInit => Init
  BY DEF PInit
<1>2. TilesSound /\ ConfigTypeOK /\ [PNext]_allVars => [Next]_vars
  BY ProviderIsTileStep DEF TilesSound
<1> QED
  BY <1>1, <1>2, ProviderInvariantHolds, PTL DEF PSpec, Spec

===============================================================================

--------------------------- MODULE CredentialProofs ---------------------------
(***************************************************************************)
(* Proofs about Credential.tla, for any number of tiles, any number of     *)
(* attempts, any clock and any expiry.                                     *)
(***************************************************************************)
EXTENDS Credential, FiniteSetTheorems, TLAPS

\* A function updated at one point keeps its type, also when the point is in a
\* function of functions.
LEMMA ExceptType ==
  ASSUME NEW D, NEW R, NEW f \in [D -> R], NEW x \in D, NEW v \in R
  PROVE  [f EXCEPT ![x] = v] \in [D -> R]
  OBVIOUS

\* Counting up inside a function of functions of naturals keeps its type.
LEMMA IncrementType ==
  ASSUME NEW D, NEW f \in [D -> Nat], NEW x
  PROVE  [f EXCEPT ![x] = @ + 1] \in [D -> Nat]
<1>1. CASE x \in D
  BY <1>1
<1>2. CASE x \notin D
  BY <1>2
<1> QED
  BY <1>1, <1>2

\* The components of a call in progress.
LEMMA CallFields ==
  ASSUME call \in Calls
  PROVE  /\ call.pc \in {"idle", "begin", "serialize"}
         /\ call.attempt \in Secrets /\ call.secret \in Secrets
  BY DEF Calls

\* Every variable of a tile keeps its type under every step.
LEMMA TypeStep == TypeOK /\ [Next]_vars => TypeOK'
<1> SUFFICES ASSUME TypeOK, [Next]_vars PROVE TypeOK'
  OBVIOUS
<1> USE BoundsAssumption
    DEF TypeOK, objectVars, secretVars, historyVars, NoCall,
                             Calls, Secrets, WorkerStates, Unreleased, Running,
                             StatusTexts
<1>1. ASSUME NEW c \in Creds, GetCredentialAt(c) PROVE TypeOK'
  BY <1>1 DEF GetCredentialAt
<1>2. ASSUME NEW c \in Creds, HostRelease(c) PROVE TypeOK'
  BY <1>2 DEF HostRelease, DropReference
<1>3. ASSUME NEW c \in Creds, BeginBusy(c) PROVE TypeOK'
  BY <1>3 DEF BeginBusy
<1>4. ASSUME NEW c \in Creds, BeginRefused(c) PROVE TypeOK'
  <2>1. pinned' \in BOOLEAN
    BY <1>4 DEF BeginRefused
  <2> QED
    BY <1>4, <2>1 DEF BeginRefused
<1>5. ASSUME NEW c \in Creds, BeginStarts(c) PROVE TypeOK'
  <2>1. worker' \in [Creds -> [Attempts -> WorkerStates]]
    BY <1>5 DEF BeginStarts, CanBegin, PinModule
  <2>2. generation' \in [Creds -> Secrets]
    BY <1>5 DEF BeginStarts, CanBegin, PinModule
  <2>3. working' \in [Creds -> BOOLEAN] /\ pinned' \in BOOLEAN
    BY <1>5 DEF BeginStarts, CanBegin, PinModule
  <2> QED
    BY <1>5, <2>1, <2>2, <2>3 DEF BeginStarts, CanBegin, PinModule
<1>6. ASSUME NEW c \in Creds, BeginThreadFails(c) PROVE TypeOK'
  BY <1>6 DEF BeginThreadFails, CanBegin, PinModule
<1>7. ASSUME NEW c \in Creds, SetSelected(c) PROVE TypeOK'
  BY <1>7 DEF SetSelected, Poll, Announce
<1>8. ASSUME NEW c \in Creds, SetDeselected(c) PROVE TypeOK'
  BY <1>8 DEF SetDeselected, Deselect, ResetStatus
<1>9. ASSUME NEW c \in Creds, GetSerialization(c) PROVE TypeOK'
  <2>1. call' \in Calls
    BY <1>9 DEF GetSerialization, Creds
  <2> QED
    BY <1>9, <2>1 DEF GetSerialization
<1>10. ASSUME NEW c \in Creds, SerializeThrows(c) PROVE TypeOK'
  BY <1>10 DEF SerializeThrows
<1>11. ASSUME NEW c \in Creds, Complete(c) PROVE TypeOK'
  <2>1. produced' \in [Creds -> [Attempts -> Nat]]
    <3>1. CASE UNCHANGED produced
      BY <3>1
    <3>2. CASE produced' = [produced EXCEPT ![c][call.secret] = @ + 1]
      <4>1. produced[c] \in [Attempts -> Nat]
        OBVIOUS
      <4>2. [produced[c] EXCEPT ![call.secret] = @ + 1] \in [Attempts -> Nat]
        BY <4>1, IncrementType
      <4>3. produced' = [produced EXCEPT ![c] =
                            [produced[c] EXCEPT ![call.secret] = @ + 1]]
        BY <3>2
      <4> QED
        BY <4>2, <4>3, ExceptType
    <3> QED
      BY <1>11, <3>1, <3>2 DEF Complete
  <2>2. pinBridge' \in [Creds -> Secrets]
    <3>1. \/ pinBridge' = pinBridge
          \/ pinBridge' = [pinBridge EXCEPT ![c] = call.secret]
          \/ pinBridge' = [pinBridge EXCEPT ![c] = 0]
      BY <1>11, Zenon DEF Complete
    <3>2. call.secret \in Secrets /\ 0 \in Secrets
      BY CallFields
    <3>3. /\ [pinBridge EXCEPT ![c] = call.secret] \in [Creds -> Secrets]
          /\ [pinBridge EXCEPT ![c] = 0] \in [Creds -> Secrets]
      <4>1. pinBridge \in [Creds -> Secrets]
        OBVIOUS
      <4> HIDE DEF TypeOK, Secrets, Calls
      <4> QED
        BY <4>1, <3>2
    <3> QED
      BY <3>1, <3>3, Zenon
  <2>3. call' \in Calls
    BY <1>11 DEF Complete
  <2> QED
    BY <1>11, <2>1, <2>2, <2>3 DEF Complete
<1>12. ASSUME NEW c \in Creds, NEW a \in Attempts, WorkerStep(c, a)
       PROVE TypeOK'
  <2>1. CASE WorkerAuthenticate(c, a)
    BY <2>1 DEF WorkerAuthenticate, MoveWorker
  <2>2. CASE WorkerFinish(c, a)
    <3>1. worker' \in [Creds -> [Attempts -> WorkerStates]]
      BY <2>2 DEF WorkerFinish, Publish
    <3>2. ready' \in [Creds -> Secrets]
      <4>1. a \in Secrets
        BY DEF Attempts
      <4> QED
        BY <2>2, <4>1 DEF WorkerFinish, Publish
    <3>3. readyAt' \in [Creds -> 0 .. MaxTick]
      <4>1. readyAt' = readyAt \/ readyAt' = [readyAt EXCEPT ![c] = now]
        BY <2>2, Zenon DEF WorkerFinish, Publish
      <4>2. [readyAt EXCEPT ![c] = now] \in [Creds -> 0 .. MaxTick]
        OBVIOUS
      <4> QED
        BY <4>1, <4>2
    <3>4. status' \in [Creds -> StatusTexts]
      BY <2>2 DEF WorkerFinish, Publish
    <3>5. working' \in [Creds -> BOOLEAN]
      BY <2>2 DEF WorkerFinish, Publish
    <3> QED
      BY <2>2, <3>1, <3>2, <3>3, <3>4, <3>5 DEF WorkerFinish, Publish
  <2>3. CASE WorkerNotify(c, a)
    BY <2>3 DEF WorkerNotify, MoveWorker
  <2>4. CASE WorkerRelease(c, a)
    BY <2>4 DEF WorkerRelease, MoveWorker, DropReference
  <2>5. CASE WorkerExit(c, a)
    BY <2>5 DEF WorkerExit, MoveWorker
  <2> QED
    BY <1>12, <2>1, <2>2, <2>3, <2>4, <2>5 DEF WorkerStep
<1>13. ASSUME NEW S \in SUBSET Creds, NEW advised \in BOOLEAN,
              Construct(S, advised)
       PROVE TypeOK'
  BY <1>13 DEF Construct
<1>14. ASSUME NEW S \in SUBSET Creds, setProviderEvents(S) PROVE TypeOK'
  BY <1>14 DEF setProviderEvents
<1>15. ASSUME NEW S \in SUBSET Creds, NEW selected \in SUBSET Creds,
              PollTiles(S, selected)
       PROVE TypeOK'
  BY <1>15 DEF PollTiles, Poll, Announce
<1>16. CASE CancelTiles
  BY <1>16 DEF CancelTiles, Deselect, ResetStatus, DropReference
<1>17. CASE DropTiles
  BY <1>17 DEF DropTiles, DropReference
<1>18. CASE Tick
  BY <1>18 DEF Tick
<1>19. CASE UNCHANGED vars
  BY <1>19 DEF vars
<1> QED
  BY <1>1, <1>2, <1>3, <1>4, <1>5, <1>6, <1>7, <1>8, <1>9, <1>10, <1>11,
     <1>12, <1>13, <1>14, <1>15, <1>16, <1>17, <1>18, <1>19
  DEF Next, TileStep, Begin, ProviderStep, ReportResult

\* The initial values have their types.
LEMMA TypeInit == Init => TypeOK
<1> SUFFICES ASSUME Init PROVE TypeOK
  OBVIOUS
<1>1. call \in Calls
  BY BoundsAssumption DEF Init, NoCall, Calls, Secrets
<1>2. /\ 0 \in Secrets /\ 0 \in 0 .. MaxTick
      /\ "none" \in WorkerStates /\ "select" \in StatusTexts
  BY BoundsAssumption DEF Secrets, WorkerStates, StatusTexts
<1>3. /\ working \in [Creds -> BOOLEAN] /\ providerEvents \in [Creds -> BOOLEAN]
      /\ pinned \in BOOLEAN
  BY DEF Init
<1>4. /\ worker \in [Creds -> [Attempts -> WorkerStates]]
      /\ produced \in [Creds -> [Attempts -> Nat]]
  BY <1>2 DEF Init
<1> QED
  BY <1>1, <1>2, <1>3, <1>4 DEF Init, TypeOK

\* The variables of the tiles keep their types in every reachable state.
THEOREM TypeCorrect == Spec => []TypeOK
  BY TypeInit, TypeStep, PTL DEF Spec

-------------------------------------------------------------------------------
(* The tile invariant only speaks about these variables.  Reference counts, *)
(* event sinks, status texts and the clock cannot disturb it.               *)

core == <<generation, working, ready, pinBridge, worker, call, voided,
          produced>>

\* The steps of Next as they look on those variables.
NoEffect == UNCHANGED core

Returns == /\ call' = NoCall
           /\ UNCHANGED <<generation, working, ready, pinBridge, worker, voided,
                          produced>>

Refuses(c) == /\ InBegin(c)
              /\ ready' = [ready EXCEPT ![c] = 0]
              /\ call' = NoCall
              /\ \/ UNCHANGED generation
                 \/ /\ generation[c] < MaxGeneration
                    /\ generation' = [generation EXCEPT ![c] = @ + 1]
              /\ UNCHANGED <<working, pinBridge, worker, voided, produced>>

Polls == /\ \E S \in SUBSET Creds : Poll(S)
         /\ UNCHANGED <<generation, working, pinBridge, worker, call, voided,
                        produced>>

Deselects == /\ \E S \in SUBSET Creds : Deselect(S)
             /\ UNCHANGED <<working, worker, call, produced>>

\* A private step of a started worker, before or after its locked section.
Moves(c, a) ==
    /\ \E from, to \in WorkerStates \ {"none"} :
          /\ from \in Running <=> to \in Running
          /\ MoveWorker(c, a, from, to)
    /\ UNCHANGED <<generation, working, ready, pinBridge, call, voided,
                   produced>>

\* Every step is of one of a few kinds as far as the attempts are concerned;
\* the lemmas below go through the kinds instead of the actions.
LEMMA StepKinds ==
  ASSUME TypeOK, [Next]_vars
  PROVE  \/ NoEffect \/ Returns \/ Polls \/ Deselects
         \/ \E c \in Creds : \/ Refuses(c) \/ BeginStarts(c)
                             \/ GetSerialization(c) \/ Complete(c)
         \/ \E c \in Creds, a \in Attempts : Moves(c, a) \/ WorkerFinish(c, a)
<1> USE DEF NoEffect, core, objectVars, secretVars, historyVars
<1>1. ASSUME NEW c \in Creds, TileStep(c)
      PROVE  \/ NoEffect \/ Returns \/ Polls \/ Deselects
             \/ Refuses(c) \/ BeginStarts(c) \/ GetSerialization(c) \/ Complete(c)
  <2>1. CASE GetCredentialAt(c) \/ HostRelease(c)
    BY <2>1 DEF GetCredentialAt, HostRelease
  <2>2. CASE BeginBusy(c) \/ SerializeThrows(c)
    BY <2>2 DEF BeginBusy, SerializeThrows, Returns
  <2>3. CASE BeginRefused(c) \/ BeginThreadFails(c)
    BY <2>3 DEF BeginRefused, BeginThreadFails, CanBegin, PinModule, Refuses
  <2>4. CASE SetSelected(c)
    <3>1. {c} \in SUBSET Creds
      OBVIOUS
    <3> QED
      BY <2>4, <3>1 DEF SetSelected, Polls
  <2>5. CASE SetDeselected(c) \/ ReportResult(c)
    <3>1. {c} \in SUBSET Creds
      OBVIOUS
    <3> QED
      BY <2>5, <3>1 DEF SetDeselected, ReportResult, Deselects
  <2> QED
    BY <1>1, <2>1, <2>2, <2>3, <2>4, <2>5 DEF TileStep, Begin
<1>2. ASSUME NEW c \in Creds, NEW a \in Attempts, WorkerStep(c, a)
      PROVE  Moves(c, a) \/ WorkerFinish(c, a)
  BY <1>2 DEF WorkerStep, WorkerAuthenticate, WorkerNotify, WorkerRelease,
              WorkerExit, Moves, MoveWorker, WorkerStates, Unreleased, Running
<1>3. ASSUME ProviderStep PROVE NoEffect \/ Polls \/ Deselects
  <2>1. CASE CancelTiles
    BY <1>3, <2>1 DEF CancelTiles, Deselects, TypeOK
  <2>2. ASSUME NEW S \in SUBSET Creds, NEW selected \in SUBSET Creds,
               PollTiles(S, selected)
        PROVE  Polls
    BY <2>2 DEF PollTiles, Polls
  <2> QED
    BY <1>3, <2>1, <2>2
    DEF ProviderStep, Construct, setProviderEvents, DropTiles
<1>4. ASSUME Tick PROVE NoEffect
  BY <1>4 DEF Tick
<1> QED
  BY <1>1, <1>2, <1>3, <1>4 DEF Next, vars

-------------------------------------------------------------------------------
\* working_ tracks the worker that has not published its result: begin()
\* starts one only when there is none, and only that worker's own locked
\* section clears the flag.
LEMMA OneRequestStep ==
  ASSUME TypeOK, OneRequestPerTile, [Next]_vars
  PROVE  OneRequestPerTile'
<1> USE DEF OneRequestPerTile, RunningAttempts
<1>1. CASE UNCHANGED <<working, worker>>
  BY <1>1
<1>2. ASSUME NEW c \in Creds, BeginStarts(c) PROVE OneRequestPerTile'
  <2>1. generation[c] + 1 \in Attempts
    BY <1>2, BoundsAssumption
    DEF BeginStarts, CanBegin, PinModule, TypeOK, Secrets, Attempts
  <2>2. \A d \in Creds, a \in Attempts :
           worker'[d][a] \in Running <=>
              worker[d][a] \in Running \/ (d = c /\ a = generation[c] + 1)
    BY <1>2, <2>1 DEF BeginStarts, CanBegin, PinModule, TypeOK, Running
  <2>3. \A d \in Creds : working'[d] <=> working[d] \/ d = c
    BY <1>2 DEF BeginStarts, CanBegin, PinModule, TypeOK
  <2>4. \A a \in Attempts : worker[c][a] \notin Running
    BY <1>2 DEF BeginStarts, CanBegin, PinModule
  <2> SUFFICES ASSUME NEW d \in Creds
               PROVE  /\ working'[d] <=> \E a \in Attempts : worker'[d][a] \in Running
                      /\ \A a, b \in Attempts :
                            worker'[d][a] \in Running /\ worker'[d][b] \in Running
                            => a = b
    BY Zenon
  <2>5. CASE d = c
    BY <2>1, <2>2, <2>3, <2>4, <2>5
  <2>6. CASE d # c
    BY <2>2, <2>3, <2>6
  <2> QED
    BY <2>5, <2>6
<1>3. ASSUME NEW c \in Creds, NEW a \in Attempts, Moves(c, a)
      PROVE  OneRequestPerTile'
  <2>1. \A d \in Creds, b \in Attempts :
           worker'[d][b] \in Running <=> worker[d][b] \in Running
    BY <1>3 DEF Moves, MoveWorker, TypeOK
  <2> QED
    BY <1>3, <2>1 DEF Moves
<1>4. ASSUME NEW c \in Creds, NEW a \in Attempts, WorkerFinish(c, a)
      PROVE  OneRequestPerTile'
  <2>1. worker[c][a] \in Running
    BY <1>4 DEF WorkerFinish, Publish, Running
  <2>2. \A d \in Creds, b \in Attempts :
           worker'[d][b] \in Running <=>
              worker[d][b] \in Running /\ ~(d = c /\ b = a)
    BY <1>4 DEF WorkerFinish, Publish, TypeOK, Running
  <2>3. \A d \in Creds : working'[d] <=> working[d] /\ d # c
    BY <1>4 DEF WorkerFinish, Publish, TypeOK
  <2> SUFFICES ASSUME NEW d \in Creds
               PROVE  /\ working'[d] <=> \E b \in Attempts : worker'[d][b] \in Running
                      /\ \A b, e \in Attempts :
                            worker'[d][b] \in Running /\ worker'[d][e] \in Running
                            => b = e
    BY Zenon
  <2>4. CASE d = c
    BY <2>1, <2>2, <2>3, <2>4
  <2>5. CASE d # c
    BY <2>2, <2>3, <2>5
  <2> QED
    BY <2>4, <2>5
<1> QED
  BY StepKinds, <1>1, <1>2, <1>3, <1>4
  DEF NoEffect, core, Returns, Polls, Deselects, Refuses, GetSerialization,
      Complete, secretVars

\* Whatever changes generation_ empties readyPassword_ in the same locked
\* section, and a worker stores its secret only under its own generation.
LEMMA ProofIsCurrentStep ==
  ASSUME TypeOK, ProofIsCurrent, [Next]_vars
  PROVE  ProofIsCurrent'
<1> USE DEF ProofIsCurrent
<1>1. CASE UNCHANGED <<ready, generation>>
  BY <1>1
<1>2. CASE Polls
  BY <1>2 DEF Polls, Poll
<1>3. CASE Deselects
  BY <1>3 DEF Deselects, Deselect, ResetStatus
<1>4. ASSUME NEW c \in Creds,
             Refuses(c) \/ BeginStarts(c) \/ GetSerialization(c)
      PROVE  ProofIsCurrent'
  <2>1. \A d \in Creds : ready'[d] = IF d = c THEN 0 ELSE ready[d]
    BY <1>4
    DEF Refuses, BeginStarts, CanBegin, PinModule, GetSerialization, TypeOK
  <2>2. \A d \in Creds : d # c => generation'[d] = generation[d]
    BY <1>4
    DEF Refuses, BeginStarts, CanBegin, PinModule, GetSerialization, TypeOK
  <2> QED
    BY <2>1, <2>2
<1>5. ASSUME NEW c \in Creds, NEW a \in Attempts, WorkerFinish(c, a)
      PROVE  ProofIsCurrent'
  BY <1>5 DEF WorkerFinish, Publish, TypeOK
<1> QED
  BY StepKinds, <1>1, <1>2, <1>3, <1>4, <1>5
  DEF NoEffect, core, Returns, Complete, Moves

\* Generations only grow; a worker takes the number begin() has just made, and
\* a deselection voids the number it leaves behind.
LEMMA AttemptsInOrderStep ==
  ASSUME TypeOK, AttemptsInOrder, [Next]_vars
  PROVE  AttemptsInOrder'
<1> USE DEF AttemptsInOrder
<1>0. generation \in [Creds -> Int]
  BY BoundsAssumption DEF TypeOK, Secrets
<1>1. CASE UNCHANGED <<generation, worker, voided>>
  BY <1>1
<1>2. CASE Deselects
  <2>1. PICK S \in SUBSET Creds : Deselect(S)
    BY <1>2 DEF Deselects
  <2>2. \A d \in Creds : generation[d] <= generation'[d]
    BY <1>0, <2>1 DEF Deselect, ResetStatus
  <2>3. \A d \in Creds : \A v \in voided'[d] :
           v \in voided[d] \/ (v = generation[d] /\ generation'[d] = generation[d] + 1)
    BY <2>1 DEF Deselect, ResetStatus
  <2>4. generation' \in [Creds -> Int]
    BY <1>0, <2>1 DEF Deselect, ResetStatus
  <2>5. voided \in [Creds -> SUBSET Int] /\ Attempts \subseteq Int
    BY BoundsAssumption DEF TypeOK, Secrets, Attempts
  <2> QED
    BY <1>0, <1>2, <2>2, <2>3, <2>4, <2>5 DEF Deselects
<1>3. ASSUME NEW c \in Creds, Refuses(c) PROVE AttemptsInOrder'
  <2>1. \A d \in Creds : generation'[d] \in {generation[d], generation[d] + 1}
    BY <1>3, <1>0 DEF Refuses
  <2>2. voided \in [Creds -> SUBSET Int] /\ Attempts \subseteq Int
    BY BoundsAssumption DEF TypeOK, Secrets, Attempts
  <2> QED
    BY <1>0, <1>3, <2>1, <2>2 DEF Refuses
<1>4. ASSUME NEW c \in Creds, BeginStarts(c) PROVE AttemptsInOrder'
  <2>1. \A d \in Creds :
           generation'[d] = IF d = c THEN generation[d] + 1 ELSE generation[d]
    BY <1>4, <1>0 DEF BeginStarts, CanBegin, PinModule
  <2>2. voided \in [Creds -> SUBSET Int] /\ Attempts \subseteq Int
    BY BoundsAssumption DEF TypeOK, Secrets, Attempts
  <2>3. \A d \in Creds, a \in Attempts :
           worker'[d][a] = worker[d][a] \/ (d = c /\ a = generation[c] + 1)
    BY <1>4 DEF BeginStarts, CanBegin, PinModule, TypeOK
  <2>4. UNCHANGED voided
    BY <1>4 DEF BeginStarts, CanBegin, PinModule, historyVars
  <2>5. ASSUME NEW d \in Creds, NEW a \in Attempts, a > generation'[d]
        PROVE  worker'[d][a] = "none"
    <3>1. a > generation[d] /\ ~(d = c /\ a = generation[c] + 1)
      BY <1>0, <2>1, <2>2, <2>5
    <3> QED
      BY <2>3, <3>1
  <2>6. ASSUME NEW d \in Creds, NEW v \in voided'[d] PROVE v < generation'[d]
    <3>1. v < generation[d] /\ v \in Int
      BY <2>2, <2>4, <2>6
    <3> QED
      BY <1>0, <2>1, <3>1
  <2> QED
    BY <2>5, <2>6
<1>5. ASSUME NEW c \in Creds, NEW a \in Attempts,
             Moves(c, a) \/ WorkerFinish(c, a)
      PROVE  AttemptsInOrder'
  <2>1. worker[c][a] # "none"
    BY <1>5 DEF Moves, MoveWorker, WorkerFinish, Publish
  <2>2. \A d \in Creds, b \in Attempts :
           worker'[d][b] = worker[d][b] \/ (d = c /\ b = a)
    BY <1>5 DEF Moves, MoveWorker, WorkerFinish, Publish, TypeOK
  <2>3. UNCHANGED <<generation, voided>>
    BY <1>5 DEF Moves, WorkerFinish, Publish, historyVars
  <2> QED
    BY <2>1, <2>2, <2>3
<1> QED
  BY StepKinds, <1>1, <1>2, <1>3, <1>4, <1>5
  DEF NoEffect, core, Returns, Polls, GetSerialization, Complete

\* The serializing call carries the secret of the generation it read; later
\* steps can only raise generation_.
LEMMA CallCoherentStep ==
  ASSUME TypeOK, ProofIsCurrent, CallCoherent, [Next]_vars
  PROVE  CallCoherent'
<1> USE DEF CallCoherent
<1>0. generation \in [Creds -> Int] /\ call.secret \in Int
  BY BoundsAssumption DEF TypeOK, Secrets, Calls
<1>1. CASE UNCHANGED <<generation, call>>
  BY <1>1
<1>2. CASE call' = NoCall
  BY <1>2 DEF NoCall
<1>3. CASE Deselects
  <2>1. \A d \in Creds : generation[d] <= generation'[d] /\ generation'[d] \in Int
    BY <1>3, <1>0 DEF Deselects, Deselect, ResetStatus
  <2> QED
    BY <1>0, <1>3, <2>1 DEF Deselects
<1>4. ASSUME NEW c \in Creds, GetSerialization(c) PROVE CallCoherent'
  <2>1. CASE ready[c] # 0 /\ Fresh(c)
    <3>1. ready[c] = generation[c] /\ ready[c] \in Attempts
      BY <2>1, BoundsAssumption DEF ProofIsCurrent, TypeOK, Secrets, Attempts
    <3>2. call' = [pc |-> "serialize", cred |-> c, attempt |-> generation[c],
                   secret |-> ready[c]]
      BY <1>4, <2>1 DEF GetSerialization
    <3>3. generation' = generation
      BY <1>4 DEF GetSerialization
    <3> QED
      BY <1>0, <3>1, <3>2, <3>3
  <2>2. CASE ~(ready[c] # 0 /\ Fresh(c))
    <3>1. call' = [pc |-> "begin", cred |-> c, attempt |-> generation[c],
                   secret |-> 0]
      BY <1>4, <2>2 DEF GetSerialization
    <3> QED
      BY <3>1
  <2> QED
    BY <2>1, <2>2
<1> QED
  BY StepKinds, <1>1, <1>2, <1>3, <1>4
  DEF NoEffect, core, Returns, Polls, Refuses, BeginStarts, CanBegin,
      PinModule, Complete, Moves, WorkerFinish, Publish

\* The secret of an attempt moves from its worker to readyPassword_ to the
\* call and is never copied, so it is spent at most once.
LEMMA SecretStep ==
  ASSUME TypeOK, ProofIsCurrent, AttemptsInOrder, CallCoherent,
         SecretInOnePlace, ProofSpentOnce, [Next]_vars
  PROVE  SecretInOnePlace' /\ ProofSpentOnce'
<1> USE DEF SecretInOnePlace, ProofSpentOnce, Holds
<1>0. /\ 0 \notin Creds /\ 0 \notin Attempts /\ Attempts \subseteq Int
      /\ generation \in [Creds -> Int]
  BY BoundsAssumption DEF Creds, Attempts, TypeOK, Secrets
<1>1. CASE UNCHANGED <<ready, call, worker, produced>>
  BY <1>1
<1>2. CASE /\ call' = NoCall \/ call' = call
           /\ \A d \in Creds : ready'[d] \in {ready[d], 0}
           /\ UNCHANGED <<worker, produced>>
  <2>1. \A d \in Creds, a \in Attempts :
           /\ ready'[d] = a => ready[d] = a
           /\ call'.cred = d /\ call'.secret = a =>
                 call.cred = d /\ call.secret = a
    BY <1>0, <1>2 DEF NoCall
  <2> QED
    BY <1>2, <2>1
<1>3. CASE Polls
  BY <1>2, <1>3 DEF Polls, Poll
<1>4. CASE Deselects
  BY <1>2, <1>4 DEF Deselects, Deselect, ResetStatus
<1>5. CASE Returns
  BY <1>2, <1>5 DEF Returns
<1>6. ASSUME NEW c \in Creds, Refuses(c)
      PROVE  SecretInOnePlace' /\ ProofSpentOnce'
  BY <1>2, <1>6 DEF Refuses, TypeOK
<1>7. ASSUME NEW c \in Creds, BeginStarts(c)
      PROVE  SecretInOnePlace' /\ ProofSpentOnce'
  <2>1. /\ \A d \in Creds : ready'[d] \in {ready[d], 0}
        /\ call' = NoCall
        /\ produced' = produced
    BY <1>7 DEF BeginStarts, CanBegin, PinModule, TypeOK, historyVars
  <2>2. \A d \in Creds, a \in Attempts :
           \/ worker'[d][a] = worker[d][a]
           \/ worker[d][a] = "none"
    <3>1. generation[c] + 1 \in Attempts => worker[c][generation[c] + 1] = "none"
      BY <1>0 DEF AttemptsInOrder
    <3> QED
      BY <1>7, <3>1 DEF BeginStarts, CanBegin, PinModule, TypeOK
  <2>3. \A d \in Creds, a \in Attempts :
           /\ ready'[d] = a => ready[d] = a
           /\ ~(call'.cred = d /\ call'.secret = a)
    BY <1>0, <2>1 DEF NoCall
  <2> QED
    BY <2>1, <2>2, <2>3
<1>8. ASSUME NEW c \in Creds, GetSerialization(c)
      PROVE  SecretInOnePlace' /\ ProofSpentOnce'
  <2>1. /\ \A d \in Creds : ready'[d] = IF d = c THEN 0 ELSE ready[d]
        /\ UNCHANGED <<worker, produced>>
        /\ call = NoCall
    BY <1>8 DEF GetSerialization, TypeOK
  <2>2. /\ call'.cred = c
        /\ call'.secret \in {ready[c], 0}
    BY <1>8 DEF GetSerialization
  <2>3. \A d \in Creds, a \in Attempts :
           /\ call'.cred = d /\ call'.secret = a => d = c /\ ready[c] = a
           /\ ready'[d] = a => d # c /\ ready[d] = a
    BY <1>0, <2>1, <2>2
  <2> QED
    BY <2>1, <2>2, <2>3
<1>9. ASSUME NEW c \in Creds, Complete(c)
      PROVE  SecretInOnePlace' /\ ProofSpentOnce'
  <2>1. /\ UNCHANGED <<ready, worker>>
        /\ call' = NoCall
        /\ call.pc = "serialize" /\ call.cred = c
    BY <1>9 DEF Complete
  <2>2. call.secret \in Attempts /\ produced[c][call.secret] = 0
    BY <2>1 DEF CallCoherent
  <2>3. \A d \in Creds, a \in Attempts :
           \/ produced'[d][a] = produced[d][a]
           \/ d = c /\ a = call.secret /\ produced'[d][a] = 1
    BY <1>9, <2>2 DEF Complete, TypeOK
  <2>4. \A d \in Creds, a \in Attempts : ~(call'.cred = d /\ call'.secret = a)
    BY <1>0, <2>1 DEF NoCall
  <2> QED
    BY <2>1, <2>2, <2>3, <2>4
<1>10. ASSUME NEW c \in Creds, NEW a \in Attempts, Moves(c, a)
       PROVE  SecretInOnePlace' /\ ProofSpentOnce'
  <2>1. \A d \in Creds, b \in Attempts :
           worker'[d][b] \in Running \cup {"none"} <=>
              worker[d][b] \in Running \cup {"none"}
    BY <1>10 DEF Moves, MoveWorker, TypeOK
  <2> QED
    BY <1>10, <2>1 DEF Moves
<1>11. ASSUME NEW c \in Creds, NEW a \in Attempts, WorkerFinish(c, a)
       PROVE  SecretInOnePlace' /\ ProofSpentOnce'
  <2>1. worker[c][a] \in Running /\ worker'[c][a] \notin Running \cup {"none"}
    BY <1>11 DEF WorkerFinish, Publish, Running, TypeOK
  <2>2. \A d \in Creds, b \in Attempts :
           ~(d = c /\ b = a) => worker'[d][b] = worker[d][b]
    BY <1>11 DEF WorkerFinish, Publish, TypeOK
  <2>3. UNCHANGED <<call, produced>>
    BY <1>11 DEF WorkerFinish, Publish, historyVars
  <2>4. \A d \in Creds : ready'[d] = ready[d] \/ (d = c /\ ready'[d] = a)
    BY <1>11 DEF WorkerFinish, Publish, TypeOK
  <2> QED
    BY <2>1, <2>2, <2>3, <2>4
<1> QED
  BY StepKinds, <1>1, <1>3, <1>4, <1>5, <1>6, <1>7, <1>8, <1>9, <1>10, <1>11
  DEF NoEffect, core

\* The bridge is stored under the generation test that also admits the
\* credential, and a deselection drops it together with the generation.
LEMMA BridgeStep ==
  ASSUME TypeOK, AttemptsInOrder, CallCoherent, BridgeNeverOutlivesCancel,
         [Next]_vars
  PROVE  BridgeNeverOutlivesCancel'
<1> USE DEF BridgeNeverOutlivesCancel
<1>0. generation \in [Creds -> Int] /\ voided \in [Creds -> SUBSET Int]
  BY BoundsAssumption DEF TypeOK, Secrets
<1>1. CASE UNCHANGED <<pinBridge, voided>>
  BY <1>1
<1>2. CASE Deselects
  BY <1>2 DEF Deselects, Deselect, ResetStatus
<1>3. ASSUME NEW c \in Creds, Complete(c) PROVE BridgeNeverOutlivesCancel'
  <2>1. \/ pinBridge' = pinBridge
        \/ /\ generation[c] = call.secret
           /\ \/ pinBridge' = [pinBridge EXCEPT ![c] = call.secret]
              \/ pinBridge' = [pinBridge EXCEPT ![c] = 0]
    BY <1>3, Zenon DEF Complete, CallCoherent
  <2>2. generation[c] \notin voided[c]
    BY <1>0 DEF AttemptsInOrder
  <2>3. voided' = voided
    BY <1>3 DEF Complete
  <2> QED
    BY <2>1, <2>2, <2>3 DEF TypeOK
<1> QED
  BY StepKinds, <1>1, <1>2, <1>3
  DEF NoEffect, core, Returns, Polls, Refuses, BeginStarts, CanBegin,
      PinModule, GetSerialization, Moves, WorkerFinish, Publish, historyVars

\* Without tiles and attempts the invariant holds trivially.
LEMMA TileInvariantInit == Init => TileInvariant
<1> SUFFICES ASSUME Init PROVE TileInvariant
  OBVIOUS
<1>0. 0 \notin Creds /\ 0 \notin Attempts
  BY BoundsAssumption DEF Creds, Attempts
<1>1. OneRequestPerTile
  BY DEF Init, OneRequestPerTile, RunningAttempts, Running
<1>2. ProofIsCurrent /\ ProofSpentOnce /\ BridgeNeverOutlivesCancel
  BY DEF Init, ProofIsCurrent, ProofSpentOnce, BridgeNeverOutlivesCancel
<1>3. AttemptsInOrder /\ CallCoherent
  BY DEF Init, AttemptsInOrder, CallCoherent, NoCall
<1>4. SecretInOnePlace
  BY <1>0 DEF Init, SecretInOnePlace, Holds, NoCall
<1> QED
  BY <1>1, <1>2, <1>3, <1>4 DEF TileInvariant

\* The tile invariant holds in every reachable state: one request in flight
\* per tile, a stored proof is of the current generation, a touch is spent at
\* most once, no bridge outlives a deselection.
THEOREM TileInvariantHolds == Spec => [](TypeOK /\ TileInvariant)
<1>1. Init => TypeOK /\ TileInvariant
  BY TypeInit, TileInvariantInit
<1>2. TypeOK /\ TileInvariant /\ [Next]_vars => (TypeOK /\ TileInvariant)'
  BY TypeStep, OneRequestStep, ProofIsCurrentStep, AttemptsInOrderStep,
     CallCoherentStep, SecretStep, BridgeStep DEF TileInvariant
<1> QED
  BY <1>1, <1>2, PTL DEF Spec

\* One touch of a key signs in at most once, for any interleaving of LogonUI's
\* calls with the workers.
THEOREM SpentOnce == Spec => []ProofSpentOnce
<1>1. TileInvariant => ProofSpentOnce
  BY DEF TileInvariant
<1> QED
  BY <1>1, TileInvariantHolds, PTL

\* A tile never has two key requests in flight, and working_ says whether it
\* has one.
THEOREM OneRequest == Spec => []OneRequestPerTile
<1>1. TileInvariant => OneRequestPerTile
  BY DEF TileInvariant
<1> QED
  BY <1>1, TileInvariantHolds, PTL

\* No credential leaves for an attempt that was deselected, reported or torn
\* down before, not even while it was being serialized.
THEOREM NothingFromCanceled == Spec => NeverFromCanceled
<1> DEFINE Allowed == \A c \in Creds, a \in Attempts :
                         produced'[c][a] > produced[c][a] => a \notin voided[c]
<1>1. TypeOK /\ TileInvariant /\ [Next]_vars => [Allowed]_vars
  <2> SUFFICES ASSUME TypeOK, TileInvariant, [Next]_vars PROVE Allowed
    OBVIOUS
  <2>0. produced \in [Creds -> [Attempts -> Nat]]
    BY DEF TypeOK
  <2>1. CASE UNCHANGED produced
    BY <2>0, <2>1
  <2>2. ASSUME NEW c \in Creds, Complete(c) PROVE Allowed
    <3>1. call.secret \in Attempts /\ call.attempt = call.secret
      BY <2>2 DEF Complete, TileInvariant, CallCoherent
    <3>2. \/ produced' = produced
          \/ /\ generation[c] = call.secret
             /\ produced' = [produced EXCEPT ![c][call.secret] = @ + 1]
      BY <2>2, <3>1, Zenon DEF Complete
    <3>3. generation[c] \notin voided[c]
      <4>1. generation[c] \in Int
        BY BoundsAssumption DEF TypeOK, Secrets
      <4> QED
        BY <4>1 DEF TileInvariant, AttemptsInOrder
    <3>4. \A d \in Creds, a \in Attempts :
             \/ produced'[d][a] = produced[d][a]
             \/ d = c /\ a = generation[c]
      BY <2>0, <3>1, <3>2
    <3> QED
      BY <2>0, <3>3, <3>4
  <2> QED
    BY StepKinds, <2>1, <2>2
    DEF NoEffect, core, Returns, Polls, Deselects, Refuses, BeginStarts,
        CanBegin, PinModule, GetSerialization, Moves, WorkerFinish, Publish,
        historyVars
<1> QED
  BY <1>1, TileInvariantHolds, PTL DEF Spec, NeverFromCanceled

-------------------------------------------------------------------------------
(* What the tile shows, and what LogonUI is told. *)

\* Steps by what they do to the status text, a generation or a worker: Shows
\* leaves them as they are, the others change them.
Shows == UNCHANGED <<status, generation, worker>>

ThreadFails(c) == /\ CanBegin(c)
                  /\ generation' = [generation EXCEPT ![c] = @ + 1]
                  /\ status' = [status EXCEPT ![c] = "nostart"]
                  /\ UNCHANGED worker

Canceled == /\ \E S \in SUBSET Creds : Deselect(S)
            /\ UNCHANGED <<worker, working>>

Works(c, a) == /\ \E from, to \in WorkerStates \ {"none"} :
                     /\ from \in Running <=> to \in Running
                     /\ MoveWorker(c, a, from, to)
               /\ UNCHANGED <<status, generation>>

\* What each step does to the status text and to the request it is about.
LEMMA ShowKinds ==
  ASSUME TypeOK, [Next]_vars
  PROVE  \/ Shows \/ Canceled
         \/ \E c \in Creds : ThreadFails(c) \/ BeginStarts(c)
         \/ \E c \in Creds, a \in Attempts : Works(c, a) \/ WorkerFinish(c, a)
<1> USE DEF Shows, objectVars, secretVars, historyVars
<1>1. ASSUME NEW c \in Creds, TileStep(c)
      PROVE  Shows \/ Canceled \/ ThreadFails(c) \/ BeginStarts(c)
  <2>1. {c} \in SUBSET Creds
    OBVIOUS
  <2>2. SetDeselected(c) => Canceled
    BY <2>1 DEF SetDeselected, Canceled
  <2>3. BeginThreadFails(c) => ThreadFails(c)
    BY DEF BeginThreadFails, ThreadFails
  <2> QED
    BY <1>1, <2>2, <2>3
    DEF TileStep, Begin, GetCredentialAt, HostRelease, BeginBusy, BeginRefused,
        SetSelected, ReportResult, GetSerialization, SerializeThrows, Complete
<1>2. ASSUME NEW c \in Creds, NEW a \in Attempts, WorkerStep(c, a)
      PROVE  Works(c, a) \/ WorkerFinish(c, a)
  BY <1>2 DEF WorkerStep, WorkerAuthenticate, WorkerNotify, WorkerRelease,
              WorkerExit, Works, MoveWorker, WorkerStates, Unreleased, Running
<1>3. ASSUME ProviderStep PROVE Shows \/ Canceled
  <2>1. CASE CancelTiles
    BY <2>1 DEF CancelTiles, Canceled, TypeOK
  <2> QED
    BY <1>3, <2>1
    DEF ProviderStep, Construct, setProviderEvents, PollTiles, DropTiles
<1>4. ASSUME Tick PROVE Shows
  BY <1>4 DEF Tick
<1> QED
  BY <1>1, <1>2, <1>3, <1>4 DEF Next, vars

\* "Touch your key" is shown from the start of a request to its end, unless
\* the tile is deselected.
LEMMA TouchStatusStep ==
  ASSUME TypeOK, OneRequestPerTile, AttemptsInOrder, TouchStatusTruthful,
         [Next]_vars
  PROVE  TouchStatusTruthful'
<1> USE DEF TouchStatusTruthful, RunningAttempts
<1>0. /\ generation \in [Creds -> Int] /\ Attempts \subseteq Int
      /\ status \in [Creds -> StatusTexts]
      /\ worker \in [Creds -> [Attempts -> WorkerStates]]
  BY BoundsAssumption DEF TypeOK, Secrets, Attempts
<1>1. "none" \notin Running /\ "start" \in Running
  BY DEF Running
<1>2. ASSUME NEW c \in Creds, generation[c] + 1 \in Attempts
      PROVE  worker[c][generation[c] + 1] = "none"
  BY <1>0, <1>2 DEF AttemptsInOrder
<1>3. CASE Shows
  BY <1>3 DEF Shows
<1>4. CASE Canceled
  <2>1. PICK S \in SUBSET Creds : Deselect(S)
    BY <1>4 DEF Canceled
  <2>2. \A d \in Creds : d \in S =>
           /\ generation'[d] = generation[d] + 1 /\ status'[d] # "touch"
    BY <2>1 DEF Deselect, ResetStatus
  <2>3. \A d \in Creds : d \notin S =>
           /\ generation'[d] = generation[d] /\ status'[d] = status[d]
    BY <2>1 DEF Deselect, ResetStatus
  <2>4. UNCHANGED worker
    BY <1>4 DEF Canceled
  <2> QED
    BY <1>1, <1>2, <2>2, <2>3, <2>4
<1>5. ASSUME NEW c \in Creds, ThreadFails(c) PROVE TouchStatusTruthful'
  <2>1. /\ generation'[c] = generation[c] + 1 /\ status'[c] # "touch"
        /\ \A d \in Creds : d # c => /\ generation'[d] = generation[d]
                                     /\ status'[d] = status[d]
        /\ UNCHANGED worker
    BY <1>0, <1>5 DEF ThreadFails
  <2> QED
    BY <1>1, <1>2, <2>1
<1>6. ASSUME NEW c \in Creds, BeginStarts(c) PROVE TouchStatusTruthful'
  <2>0. generation[c] + 1 \in Attempts
    BY <1>6, BoundsAssumption
    DEF BeginStarts, CanBegin, TypeOK, Secrets, Attempts
  <2>1. /\ generation'[c] = generation[c] + 1 /\ status'[c] = "touch"
        /\ \A d \in Creds : d # c => /\ generation'[d] = generation[d]
                                     /\ status'[d] = status[d]
                                     /\ worker'[d] = worker[d]
        /\ worker'[c][generation[c] + 1] = "start"
    BY <1>0, <1>6, <2>0 DEF BeginStarts
  <2> QED
    BY <1>1, <2>0, <2>1
<1>7. ASSUME NEW c \in Creds, NEW a \in Attempts, Works(c, a)
      PROVE  TouchStatusTruthful'
  <2>1. \A d \in Creds, b \in Attempts :
           worker'[d][b] \in Running <=> worker[d][b] \in Running
    BY <1>0, <1>7 DEF Works, MoveWorker
  <2> QED
    BY <1>7, <2>1 DEF Works
<1>8. ASSUME NEW c \in Creds, NEW a \in Attempts, WorkerFinish(c, a)
      PROVE  TouchStatusTruthful'
  <2>1. UNCHANGED generation
    BY <1>8 DEF WorkerFinish
  <2>2. \A d \in Creds, b \in Attempts :
           worker'[d][b] \in Running <=>
              worker[d][b] \in Running /\ ~(d = c /\ b = a)
    BY <1>0, <1>8 DEF WorkerFinish, Running
  <2>3. \/ a = generation[c] /\ status'[c] # "touch"
        \/ a # generation[c] /\ status'[c] = status[c]
    BY <1>0, <1>8 DEF WorkerFinish, Publish
  <2>4. \A d \in Creds : d # c => status'[d] = status[d]
    BY <1>0, <1>8 DEF WorkerFinish, Publish
  <2> QED
    BY <2>1, <2>2, <2>3, <2>4
<1> QED
  BY <1>3, <1>4, <1>5, <1>6, <1>7, <1>8, ShowKinds

\* The tile asks for a touch exactly while it would accept one.
THEOREM TouchStatusIsTruthful == Spec => []TouchStatusTruthful
<1>1. Init => TouchStatusTruthful
  BY DEF Init, TouchStatusTruthful, RunningAttempts, Running
<1>2. /\ TypeOK /\ TileInvariant /\ TouchStatusTruthful /\ [Next]_vars
      => TouchStatusTruthful'
  BY TouchStatusStep DEF TileInvariant
<1> QED
  BY <1>1, <1>2, TileInvariantHolds, PTL DEF Spec

\* A tile that LogonUI was told to submit in this tick has its proof, and no
\* call of it is about to ask for a new one.
AutomaticHasProof ==
    \A c \in automatic :
        ready[c] # 0 /\ Fresh(c) /\ ~(call.pc = "begin" /\ call.cred = c)

\* A tile that LogonUI was told to submit keeps its proof until it is submitted.
LEMMA AutomaticHasProofStep ==
  ASSUME TypeOK, CallCoherent, AutomaticHasProof, [Next]_vars
  PROVE  AutomaticHasProof'
<1> USE DEF AutomaticHasProof, Fresh, objectVars, secretVars, historyVars
<1>0. /\ now \in Int /\ readyAt \in [Creds -> Int] /\ Expiry \in Nat
      /\ automatic \subseteq Creds /\ 0 \notin Attempts
      /\ ready \in [Creds -> Secrets]
  BY BoundsAssumption DEF TypeOK, Attempts
<1>1. CASE UNCHANGED <<automatic, ready, readyAt, call, now>>
  BY <1>1
<1>2. CASE UNCHANGED <<automatic, ready, readyAt, now>> /\ call' = NoCall
  BY <1>2 DEF NoCall
<1>3. ASSUME NEW S \in SUBSET Creds, NEW T \in SUBSET S, Poll(S), Announce(T),
             ApartmentFree, UNCHANGED <<readyAt, call, now>>
      PROVE  AutomaticHasProof'
  <2>1. call'.pc # "begin"
    BY <1>3 DEF ApartmentFree
  <2>2. ASSUME NEW c \in automatic', c \in T PROVE ready'[c] # 0 /\ Fresh(c)'
    <3>1. ready'[c] # 0
      BY <1>3, <2>2 DEF Announce
    <3>2. c \in Creds /\ c \in S /\ ~Stale(c)
      BY <1>3, <2>2, <3>1 DEF Poll
    <3> QED
      BY <1>0, <1>3, <3>1, <3>2 DEF Stale
  <2>3. ASSUME NEW c \in automatic', c \notin T PROVE ready'[c] # 0 /\ Fresh(c)'
    <3>1. c \in automatic
      BY <1>3, <2>3 DEF Announce
    <3>2. c \in Creds /\ ready[c] # 0 /\ ~Stale(c)
      BY <1>0, <3>1 DEF Stale
    <3>3. ready'[c] = ready[c]
      BY <1>3, <3>2 DEF Poll
    <3> QED
      BY <1>0, <1>3, <3>1, <3>2, <3>3
  <2> QED
    BY <2>1, <2>2, <2>3
<1>4. ASSUME NEW S \in SUBSET Creds, Deselect(S),
             UNCHANGED <<readyAt, call, now>>
      PROVE  AutomaticHasProof'
  BY <1>0, <1>4 DEF Deselect
<1>5. ASSUME NEW c \in Creds, GetSerialization(c) PROVE AutomaticHasProof'
  <2>1. call'.cred = c
    BY <1>5 DEF GetSerialization
  <2> QED
    BY <1>0, <1>5, <2>1 DEF GetSerialization
<1>6. ASSUME NEW c \in Creds, InBegin(c), call' = NoCall,
             ready' = [ready EXCEPT ![c] = 0], UNCHANGED <<automatic, readyAt, now>>
      PROVE  AutomaticHasProof'
  BY <1>0, <1>6 DEF InBegin, NoCall
<1>7. ASSUME NEW c \in Creds, NEW a \in Attempts, WorkerFinish(c, a)
      PROVE  AutomaticHasProof'
  <2>1. UNCHANGED <<automatic, call, now>>
    BY <1>7 DEF WorkerFinish
  <2>2. \/ UNCHANGED <<ready, readyAt>>
        \/ /\ ready' = [ready EXCEPT ![c] = a]
           /\ readyAt' = [readyAt EXCEPT ![c] = now]
    BY <1>7 DEF WorkerFinish, Publish
  <2>3. now - now <= Expiry /\ a # 0
    BY <1>0
  <2> QED
    BY <1>0, <2>1, <2>2, <2>3
<1>8. CASE Tick
  BY <1>8 DEF Tick
<1>9. ASSUME NEW c \in Creds, TileStep(c) PROVE AutomaticHasProof'
  <2>1. {c} \in SUBSET Creds /\ {c} \in SUBSET {c}
    OBVIOUS
  <2>2. CASE Begin(c)
    BY <1>2, <1>6, <2>2
    DEF Begin, BeginBusy, BeginRefused, BeginStarts, BeginThreadFails, CanBegin
  <2>3. CASE SetSelected(c)
    BY <1>3, <2>1, <2>3 DEF SetSelected, CanCall
  <2>4. CASE SetDeselected(c)
    BY <1>4, <2>1, <2>4 DEF SetDeselected
  <2>5. CASE GetCredentialAt(c) \/ HostRelease(c)
    BY <1>1, <2>5 DEF GetCredentialAt, HostRelease
  <2>6. CASE SerializeThrows(c) \/ Complete(c)
    BY <1>2, <2>6 DEF SerializeThrows, Complete
  <2> QED
    BY <1>5, <1>9, <2>2, <2>3, <2>4, <2>5, <2>6 DEF TileStep, ReportResult
<1>10. ASSUME NEW c \in Creds, NEW a \in Attempts, WorkerStep(c, a)
       PROVE  AutomaticHasProof'
  BY <1>1, <1>7, <1>10 DEF WorkerStep, WorkerAuthenticate, WorkerNotify,
                           WorkerRelease, WorkerExit
<1>11. CASE ProviderStep
  <2>1. ASSUME NEW S \in SUBSET Creds, NEW T \in SUBSET Creds, PollTiles(S, T)
        PROVE  AutomaticHasProof'
    BY <1>3, <2>1 DEF PollTiles
  <2>2. CASE CancelTiles
    <3>1. owned \in SUBSET Creds
      BY DEF TypeOK
    <3> QED
      BY <1>4, <2>2, <3>1 DEF CancelTiles
  <2> QED
    BY <1>1, <1>11, <2>1, <2>2
    DEF ProviderStep, Construct, setProviderEvents, DropTiles
<1> QED
  BY <1>1, <1>8, <1>9, <1>10, <1>11 DEF Next, vars

\* If LogonUI submits a tile in the tick in which it was told to, it gets the
\* proof and not a second request for a touch.
THEOREM AutomaticIsHonoured == Spec => AutomaticHonoured
<1>1. Init => AutomaticHasProof
  BY DEF Init, AutomaticHasProof
<1>2. TypeOK /\ TileInvariant /\ AutomaticHasProof /\ [Next]_vars
      => AutomaticHasProof'
  BY AutomaticHasProofStep DEF TileInvariant
<1> DEFINE Honoured == \A c \in Creds :
                          /\ c \in automatic
                          /\ call.pc = "idle" /\ call'.pc # "idle" /\ call'.cred = c
                          => call'.pc = "serialize"
<1>3. TypeOK /\ TileInvariant /\ AutomaticHasProof /\ [Next]_vars
      => [Honoured]_vars
  <2> SUFFICES ASSUME TypeOK, TileInvariant, AutomaticHasProof, [Next]_vars,
                      NEW c \in Creds, c \in automatic,
                      call.pc = "idle", call'.pc # "idle", call'.cred = c
               PROVE  call'.pc = "serialize"
    OBVIOUS
  <2>1. PICK d \in Creds : GetSerialization(d)
    BY StepKinds DEF NoEffect, core, Returns, Polls, Deselects, Refuses,
                     BeginStarts, Complete, Moves, WorkerFinish, NoCall
  <2>2. d = c
    BY <2>1 DEF GetSerialization
  <2> QED
    BY <2>1, <2>2 DEF GetSerialization, AutomaticHasProof
<1> QED
  BY <1>1, <1>2, <1>3, TileInvariantHolds, PTL DEF Spec, AutomaticHonoured

-------------------------------------------------------------------------------
(* The refinement: the tiles implement the one-time authority. *)

Phase == [c \in Creds |-> [a \in Attempts |-> PhaseOf(c, a)]]

Pending == {"requested", "proved", "claimed"}

\* What a step does to the phases of the attempts, as TouchAuthority.tla
\* allows it: nothing pending comes back, and only the pending is voided.
Voids == \A c \in Creds, a \in Attempts :
            \/ PhaseOf(c, a)' = PhaseOf(c, a)
            \/ PhaseOf(c, a) \in Pending /\ PhaseOf(c, a)' = "void"

Changes(c, a, from, to) ==
    /\ PhaseOf(c, a) = from /\ PhaseOf(c, a)' = to
    /\ \A d \in Creds, b \in Attempts :
          ~(d = c /\ b = a) => PhaseOf(d, b)' = PhaseOf(d, b)

Replaces(c, a) ==
    /\ PhaseOf(c, a) = "idle" /\ PhaseOf(c, a)' = "requested"
    /\ \A d \in Creds, b \in Attempts : ~(d = c /\ b = a) =>
          PhaseOf(d, b)' = IF d = c /\ PhaseOf(d, b) \in Pending THEN "void"
                                                    ELSE PhaseOf(d, b)

\* Only the current generation has anything pending.
LEMMA PendingIsCurrent ==
  ASSUME NEW c \in Creds, NEW a \in Attempts, PhaseOf(c, a) \in Pending
  PROVE  a = generation[c]
  BY DEF PhaseOf, Pending

\* A step that voids is a step of the authority.
LEMMA VoidsRefines ==
  ASSUME Voids
  PROVE  Authority!Next
<1> DEFINE T == {c \in Creds : \E a \in Attempts :
                    PhaseOf(c, a) \in Pending /\ PhaseOf(c, a)' = "void"}
<1>1. ASSUME NEW c \in Creds, NEW a \in Attempts
      PROVE  PhaseOf(c, a)' =
                IF c \in T /\ PhaseOf(c, a) \in Pending THEN "void"
                                                        ELSE PhaseOf(c, a)
  <2>1. CASE c \in T /\ PhaseOf(c, a) \in Pending
    <3>1. PICK b \in Attempts :
             PhaseOf(c, b) \in Pending /\ PhaseOf(c, b)' = "void"
      BY <2>1
    <3>2. a = b
      BY <2>1, <3>1, PendingIsCurrent
    <3> QED
      BY <2>1, <3>1, <3>2
  <2>2. CASE PhaseOf(c, a) \notin Pending
    BY <2>2 DEF Voids
  <2>3. CASE c \notin T /\ PhaseOf(c, a) \in Pending
    BY <2>3 DEF Voids
  <2> QED
    BY <2>1, <2>2, <2>3
<1>2. T \in SUBSET Creds
  OBVIOUS
<1> HIDE DEF T
<1>3. Authority!Void(T)
  BY <1>1, Zenon DEF Authority!Void, Authority!Pending, Pending
<1> QED
  BY <1>2, <1>3 DEF Authority!Next

\* So is one that moves a single attempt on.
LEMMA ChangesRefines ==
  ASSUME NEW c \in Creds, NEW a \in Attempts,
         \/ Changes(c, a, "requested", "proved")
         \/ Changes(c, a, "proved", "claimed")
         \/ Changes(c, a, "claimed", "signed")
  PROVE  Authority!Next
<1>1. ASSUME NEW from, NEW to, Changes(c, a, from, to)
      PROVE  Authority!Advance(c, a, from, to)
  <2>1. Phase' = [Phase EXCEPT ![c][a] = to]
    BY <1>1 DEF Changes, Phase
  <2>2. Phase[c][a] = from
    BY <1>1 DEF Changes, Phase
  <2> QED
    BY <2>1, <2>2 DEF Authority!Advance, Phase
<1> QED
  BY <1>1 DEF Authority!Next, Authority!Prove, Authority!Claim, Authority!Sign

\* And one that starts a request.
LEMMA ReplacesRefines ==
  ASSUME NEW c \in Creds, NEW a \in Attempts, Replaces(c, a)
  PROVE  Authority!Next
<1>1. Phase[c][a] = "idle"
  BY DEF Replaces, Phase
<1>2. Phase' = [Phase EXCEPT ![c] =
                  [b \in Attempts |->
                      IF b = a THEN "requested"
                      ELSE IF Phase[c][b] \in Pending THEN "void"
                      ELSE Phase[c][b]]]
  BY DEF Replaces, Phase
<1>3. Authority!Request(c, a)
  BY <1>1, <1>2 DEF Authority!Request, Authority!Pending, Pending, Phase
<1> QED
  BY <1>3 DEF Authority!Next

\* A phase depends on these alone.
LEMMA SamePhase ==
  ASSUME NEW c \in Creds, NEW a \in Attempts,
         worker'[c][a] = worker[c][a], produced'[c][a] = produced[c][a],
         generation'[c] = generation[c], ready'[c] = a <=> ready[c] = a,
         Holds(c, a)' <=> Holds(c, a)
  PROVE  PhaseOf(c, a)' = PhaseOf(c, a)
  BY DEF PhaseOf, Holds

\* Every step of the tiles is one of the authority, or nothing to it.
LEMMA AuthorityStep ==
  ASSUME TypeOK, TileInvariant, [Next]_vars
  PROVE  Authority!Next
<1>0. /\ 0 \notin Creds /\ 0 \notin Attempts /\ Attempts \subseteq Int
      /\ generation \in [Creds -> Int] /\ ready \in [Creds -> Secrets]
      /\ worker \in [Creds -> [Attempts -> WorkerStates]]
      /\ produced \in [Creds -> [Attempts -> Nat]]
      /\ ProofIsCurrent /\ AttemptsInOrder /\ CallCoherent /\ SecretInOnePlace
      /\ ProofSpentOnce /\ "none" \notin Running
  BY BoundsAssumption
  DEF Creds, Attempts, TypeOK, Secrets, TileInvariant, Running
<1>1. \A c \in Creds, a \in Attempts : produced[c][a] \in {0, 1}
  BY <1>0 DEF ProofSpentOnce
<1>2. ASSUME NEW c \in Creds, NEW a \in Attempts,
             worker'[c][a] = worker[c][a], produced'[c][a] = produced[c][a],
             ready'[c] = a => ready[c] = a, Holds(c, a)' => Holds(c, a),
             \/ generation'[c] = generation[c]
             \/ a # generation'[c]
             \/ worker[c][a] = "none"
      PROVE  \/ PhaseOf(c, a)' = PhaseOf(c, a)
             \/ PhaseOf(c, a) \in Pending /\ PhaseOf(c, a)' = "void"
  BY <1>0, <1>1, <1>2
  DEF PhaseOf, Pending, SecretInOnePlace, Holds, Running
<1>3. CASE /\ call' = NoCall \/ call' = call
           /\ \A d \in Creds : ready'[d] \in {ready[d], 0}
           /\ \A d \in Creds : generation'[d] \in
                                  {generation[d], generation[d] + 1}
           /\ UNCHANGED <<worker, produced>>
  <2>1. ASSUME NEW c \in Creds, NEW a \in Attempts
        PROVE  \/ PhaseOf(c, a)' = PhaseOf(c, a)
               \/ PhaseOf(c, a) \in Pending /\ PhaseOf(c, a)' = "void"
    <3>1. (ready'[c] = a => ready[c] = a) /\ (Holds(c, a)' => Holds(c, a))
      BY <1>0, <1>3 DEF Holds, NoCall
    <3>2. a = generation[c] + 1 => worker[c][a] = "none"
      BY <1>0 DEF AttemptsInOrder
    <3> QED
      BY <1>2, <1>3, <3>1, <3>2
  <2> QED
    BY <2>1, VoidsRefines DEF Voids
<1>4. CASE NoEffect \/ Returns
  BY <1>3, <1>4 DEF NoEffect, core, Returns
<1>5. CASE Polls
  BY <1>3, <1>5 DEF Polls, Poll
<1>6. CASE Deselects
  BY <1>3, <1>6 DEF Deselects, Deselect
<1>7. ASSUME NEW c \in Creds, Refuses(c) PROVE Authority!Next
  BY <1>0, <1>3, <1>7 DEF Refuses
<1>8. ASSUME NEW c \in Creds, BeginStarts(c) PROVE Authority!Next
  <2>1. PICK a \in Attempts : a = generation[c] + 1 /\ worker[c][a] = "none"
    <3>1. generation[c] + 1 \in Attempts
      BY <1>8, BoundsAssumption
      DEF BeginStarts, CanBegin, TypeOK, Secrets, Attempts
    <3>2. worker[c][generation[c] + 1] = "none"
      BY <1>0, <3>1 DEF AttemptsInOrder
    <3> QED
      BY <3>1, <3>2
  <2>2. /\ generation'[c] = a /\ worker'[c][a] = "start"
        /\ \A d \in Creds, b \in Attempts : ~(d = c /\ b = a) =>
              worker'[d][b] = worker[d][b]
        /\ \A d \in Creds : d # c => /\ generation'[d] = generation[d]
                                     /\ ready'[d] = ready[d]
        /\ UNCHANGED produced /\ call' = NoCall
    BY <1>0, <1>8, <2>1 DEF BeginStarts, historyVars
  <2>3. \A d \in Creds, b \in Attempts : ~Holds(d, b) /\ ~Holds(d, b)'
    BY <1>0, <1>8, <2>2
    DEF BeginStarts, CanBegin, InBegin, CallCoherent, Holds, NoCall
  <2>4. produced[c][a] = 0
    BY <1>0, <2>1 DEF SecretInOnePlace
  <2>5. PhaseOf(c, a) = "idle" /\ PhaseOf(c, a)' = "requested"
    BY <2>1, <2>2, <2>4 DEF PhaseOf, Running
  <2>6. ASSUME NEW d \in Creds, NEW b \in Attempts, ~(d = c /\ b = a)
        PROVE  PhaseOf(d, b)' = IF d = c /\ PhaseOf(d, b) \in Pending
                                THEN "void" ELSE PhaseOf(d, b)
    <3>1. CASE d # c
      BY <2>2, <2>3, <2>6, <3>1, SamePhase
    <3>2. CASE d = c
      BY <1>1, <2>2, <2>3, <2>6, <3>2 DEF PhaseOf, Pending, Holds
    <3> QED
      BY <3>1, <3>2
  <2> QED
    BY <2>1, <2>5, <2>6, ReplacesRefines DEF Replaces
<1>9. ASSUME NEW c \in Creds, GetSerialization(c) PROVE Authority!Next
  <2>0. /\ call = NoCall /\ ready' = [ready EXCEPT ![c] = 0]
        /\ UNCHANGED <<worker, produced, generation>>
    BY <1>9 DEF GetSerialization
  <2>1. \A d \in Creds, b \in Attempts : ~Holds(d, b)
    BY <1>0, <2>0 DEF Holds, NoCall
  <2>2. CASE ready[c] # 0 /\ Fresh(c)
    <3>1. PICK a \in Attempts : a = ready[c] /\ a = generation[c]
      BY <1>0, <2>2, BoundsAssumption DEF ProofIsCurrent, Secrets, Attempts
    <3>2. call'.cred = c /\ call'.secret = a
      BY <1>9, <2>2, <3>1 DEF GetSerialization
    <3>3. \A d \in Creds, b \in Attempts : Holds(d, b)' <=> d = c /\ b = a
      BY <3>2 DEF Holds
    <3>4. /\ produced[c][a] = 0 /\ worker[c][a] \notin Running \cup {"none"}
      BY <1>0, <3>1 DEF SecretInOnePlace
    <3>5. /\ PhaseOf(c, a) = "proved" /\ PhaseOf(c, a)' = "claimed"
      BY <1>0, <2>0, <3>1, <3>2, <3>4 DEF PhaseOf
    <3>6. ASSUME NEW d \in Creds, NEW b \in Attempts, ~(d = c /\ b = a)
          PROVE  PhaseOf(d, b)' = PhaseOf(d, b)
      <4>1. ready'[d] = b <=> ready[d] = b
        BY <1>0, <2>0, <3>1, <3>6
      <4> QED
        BY <2>0, <2>1, <3>3, <3>6, <4>1, SamePhase
    <3> QED
      BY <3>1, <3>5, <3>6, ChangesRefines DEF Changes
  <2>3. CASE ~(ready[c] # 0 /\ Fresh(c))
    <3>1. call'.secret = 0
      BY <1>9, <2>3 DEF GetSerialization
    <3>2. \A d \in Creds, b \in Attempts : ~Holds(d, b)'
      BY <1>0, <3>1 DEF Holds
    <3>3. ASSUME NEW d \in Creds, NEW b \in Attempts
          PROVE  \/ PhaseOf(d, b)' = PhaseOf(d, b)
                 \/ PhaseOf(d, b) \in Pending /\ PhaseOf(d, b)' = "void"
      <4>1. ready'[d] = b => ready[d] = b
        BY <1>0, <2>0
      <4> QED
        BY <1>2, <2>0, <3>2, <4>1
    <3> QED
      BY <3>3, VoidsRefines DEF Voids
  <2> QED
    BY <2>2, <2>3
<1>10. ASSUME NEW c \in Creds, Complete(c) PROVE Authority!Next
  <2>0. /\ UNCHANGED <<ready, worker, generation>> /\ call' = NoCall
        /\ call.pc = "serialize" /\ call.cred = c
    BY <1>10 DEF Complete
  <2>1. PICK a \in Attempts : /\ a = call.secret /\ call.attempt = a
                              /\ Holds(c, a)
    BY <1>0, <2>0 DEF CallCoherent, Holds
  <2>2. \A d \in Creds, b \in Attempts :
           ~Holds(d, b)' /\ (Holds(d, b) => d = c /\ b = a)
    BY <1>0, <2>0, <2>1 DEF Holds, NoCall
  <2>3. /\ produced[c][a] = 0 /\ ready[c] # a
        /\ worker[c][a] \notin Running \cup {"none"}
    BY <1>0, <2>1 DEF SecretInOnePlace
  <2>4. CASE UNCHANGED produced
    BY <1>2, <2>0, <2>2, <2>4, VoidsRefines DEF Voids
  <2>5. CASE /\ generation[c] = a
             /\ produced' = [produced EXCEPT ![c][a] = @ + 1]
    <3>1. /\ produced'[c][a] = 1
          /\ \A d \in Creds, b \in Attempts : ~(d = c /\ b = a) =>
                produced'[d][b] = produced[d][b]
      BY <1>0, <2>1, <2>3, <2>5
    <3>2. PhaseOf(c, a) = "claimed" /\ PhaseOf(c, a)' = "signed"
      BY <2>0, <2>1, <2>3, <2>5, <3>1 DEF PhaseOf, Holds
    <3>3. ASSUME NEW d \in Creds, NEW b \in Attempts, ~(d = c /\ b = a)
          PROVE  PhaseOf(d, b)' = PhaseOf(d, b)
      BY <2>0, <2>2, <3>1, <3>3, SamePhase
    <3> QED
      BY <2>1, <3>2, <3>3, ChangesRefines DEF Changes
  <2> QED
    BY <1>10, <2>1, <2>4, <2>5 DEF Complete
<1>11. ASSUME NEW c \in Creds, NEW a \in Attempts, Moves(c, a)
       PROVE  Authority!Next
  <2>1. /\ UNCHANGED <<generation, ready, call, produced>>
        /\ \A d \in Creds, b \in Attempts :
              /\ worker'[d][b] \in Running <=> worker[d][b] \in Running
              /\ worker'[d][b] = "none" <=> worker[d][b] = "none"
    BY <1>0, <1>11 DEF Moves, MoveWorker
  <2>2. \A d \in Creds, b \in Attempts : PhaseOf(d, b)' = PhaseOf(d, b)
    BY <2>1 DEF PhaseOf
  <2> QED
    BY <2>2, VoidsRefines DEF Voids
<1>12. ASSUME NEW c \in Creds, NEW a \in Attempts, WorkerFinish(c, a)
       PROVE  Authority!Next
  <2>0. UNCHANGED <<generation, call, produced>>
    BY <1>12 DEF WorkerFinish, historyVars
  <2>1. /\ worker[c][a] \in Running
        /\ worker'[c][a] \notin Running \cup {"none"}
        /\ \A d \in Creds, b \in Attempts : ~(d = c /\ b = a) =>
              worker'[d][b] = worker[d][b]
    BY <1>0, <1>12 DEF WorkerFinish, Running
  <2>2. produced[c][a] = 0 /\ ready[c] # a /\ ~Holds(c, a) /\ ~Holds(c, a)'
    BY <1>0, <2>0, <2>1 DEF SecretInOnePlace, Holds
  <2>3. CASE a = generation[c] /\ ready' = [ready EXCEPT ![c] = a]
    <3>1. PhaseOf(c, a) = "requested" /\ PhaseOf(c, a)' = "proved"
      BY <1>0, <2>0, <2>1, <2>2, <2>3 DEF PhaseOf
    <3>2. ASSUME NEW d \in Creds, NEW b \in Attempts, ~(d = c /\ b = a)
          PROVE  PhaseOf(d, b)' = PhaseOf(d, b)
      <4>1. CASE d # c
        BY <1>0, <2>0, <2>1, <2>3, <3>2, <4>1, SamePhase DEF Holds
      <4>2. CASE d = c
        BY <2>0, <2>1, <2>3, <3>2, <4>2 DEF PhaseOf
      <4> QED
        BY <4>1, <4>2
    <3> QED
      BY <3>1, <3>2, ChangesRefines DEF Changes
  <2>4. CASE UNCHANGED ready
    <3>1. ASSUME NEW d \in Creds, NEW b \in Attempts
          PROVE  \/ PhaseOf(d, b)' = PhaseOf(d, b)
                 \/ PhaseOf(d, b) \in Pending /\ PhaseOf(d, b)' = "void"
      <4>1. CASE d = c /\ b = a
        BY <1>0, <2>0, <2>1, <2>2, <2>4, <4>1 DEF PhaseOf, Pending, Holds
      <4>2. CASE ~(d = c /\ b = a)
        BY <2>0, <2>1, <2>4, <4>2, SamePhase DEF Holds
      <4> QED
        BY <4>1, <4>2
    <3> QED
      BY <3>1, VoidsRefines DEF Voids
  <2> QED
    BY <1>12, <2>3, <2>4 DEF WorkerFinish, Publish
<1> QED
  BY StepKinds, <1>4, <1>5, <1>6, <1>7, <1>8, <1>9, <1>10, <1>11, <1>12

\* The tiles, with their threads, locks, generations and calls, implement the
\* one-time authority of TouchAuthority.tla.
THEOREM TilesImplementAuthority == Spec => ImplementsAuthority
<1>1. Init => Authority!Init
  BY DEF Init, Authority!Init, PhaseOf
<1>2. TypeOK /\ TileInvariant /\ [Next]_vars => Authority!Next
  BY AuthorityStep
<1> QED
  BY <1>1, <1>2, TileInvariantHolds, PTL
  DEF Spec, ImplementsAuthority, Authority!Spec

-------------------------------------------------------------------------------
(* The reference counts. *)

\* The workers of a tile that have not called Release.
Waiting(c) == {a \in Attempts : worker[c][a] \in Unreleased}

Exact(c) ==
    /\ references[c] = (IF c \in owned THEN 1 ELSE 0)
                     + (IF c \in handed THEN 1 ELSE 0) + Cardinality(Waiting(c))
    /\ references[c] > 0 <=> Live(c)

\* LogonUI keeps the reference it is calling through.
CallerIsHeld == call.pc # "idle" => call.cred \in handed

\* One holder counts for one reference, or none.
LEMMA HeldBy ==
  ASSUME NEW c, NEW S
  PROVE  Cardinality({c} \cap S) = IF c \in S THEN 1 ELSE 0
<1>1. CASE c \in S
  <2>1. {c} \cap S = {c}
    BY <1>1
  <2> QED
    BY <1>1, <2>1, FS_Singleton
<1>2. CASE c \notin S
  <2>1. {c} \cap S = {}
    BY <1>2
  <2> QED
    BY <1>2, <2>1, FS_EmptySet
<1> QED
  BY <1>1, <1>2

\* ReferencesExact, tile by tile.
LEMMA ExactIsExact == ReferencesExact <=> \A c \in Creds : Exact(c)
  BY HeldBy DEF ReferencesExact, Exact, Waiting

\* Starting a worker and its last Release count by one.
LEMMA CountWaiting ==
  ASSUME NEW W \in SUBSET Attempts, NEW a \in Attempts
  PROVE  /\ Cardinality(W) \in Nat
         /\ a \notin W => Cardinality(W \cup {a}) = Cardinality(W) + 1
         /\ a \in W => Cardinality(W \ {a}) = Cardinality(W) - 1
<1>1. IsFiniteSet(Attempts)
  BY BoundsAssumption, FS_Interval DEF Attempts
<1>2. IsFiniteSet(W)
  BY <1>1, FS_Subset
<1> QED
  BY <1>2, FS_CardinalityType, FS_AddElement, FS_RemoveElement

\* Release() of a tile that is held.
LEMMA DropsOne ==
  ASSUME TypeOK, NEW c \in Creds, NEW S, c \in S, DropReference(S),
         references[c] > 0 <=> Live(c), references[c] > 0
  PROVE  /\ references'[c] = references[c] - 1
         /\ references'[c] > 0 <=> life'[c] = "live"
<1>1. references[c] \in Int /\ Live(c)
  BY DEF TypeOK
<1>2. references'[c] = references[c] - 1
  BY DEF DropReference
<1>3. life'[c] = IF references[c] = 1 THEN "dead" ELSE life[c]
  BY DEF DropReference
<1> QED
  BY <1>1, <1>2, <1>3 DEF Live

\* A tile that is not released keeps its count.
LEMMA DropsNone ==
  ASSUME NEW c \in Creds, NEW S, c \notin S, DropReference(S)
  PROVE  references'[c] = references[c] /\ life'[c] = life[c]
  BY DEF DropReference

\* A step that touches neither the objects nor what a worker holds.
HoldsAll == /\ UNCHANGED objectVars
            /\ \A c \in Creds, a \in Attempts :
                  worker'[c][a] \in Unreleased <=> worker[c][a] \in Unreleased

\* The steps that take or give back a reference.
LEMMA ReferenceKinds ==
  ASSUME TypeOK, [Next]_vars
  PROVE  \/ HoldsAll
         \/ \E S \in SUBSET Creds, advised \in BOOLEAN : Construct(S, advised)
         \/ CancelTiles \/ DropTiles
         \/ \E c \in Creds : \/ GetCredentialAt(c) \/ HostRelease(c)
                             \/ BeginStarts(c)
         \/ \E c \in Creds, a \in Attempts : WorkerRelease(c, a)
<1> USE DEF HoldsAll
<1>0. worker \in [Creds -> [Attempts -> WorkerStates]]
  BY DEF TypeOK
<1>1. ASSUME NEW c \in Creds, TileStep(c)
      PROVE  HoldsAll \/ GetCredentialAt(c) \/ HostRelease(c) \/ BeginStarts(c)
  BY <1>1 DEF TileStep, Begin, BeginBusy, BeginRefused, BeginThreadFails,
              SetSelected, SetDeselected, ReportResult, GetSerialization,
              SerializeThrows, Complete
<1>2. ASSUME NEW c \in Creds, NEW a \in Attempts, WorkerStep(c, a)
      PROVE  HoldsAll \/ WorkerRelease(c, a)
  <2>1. ASSUME NEW from \in WorkerStates, NEW to \in WorkerStates,
               from \in Unreleased <=> to \in Unreleased,
               MoveWorker(c, a, from, to)
        PROVE  \A d \in Creds, b \in Attempts :
                  worker'[d][b] \in Unreleased <=> worker[d][b] \in Unreleased
    BY <1>0, <2>1 DEF MoveWorker
  <2>2. CASE WorkerFinish(c, a)
    <3>1. \E from \in {"proved", "failed", "mute"}, to \in {"release", "notify"} :
             MoveWorker(c, a, from, to)
      BY <1>0, <2>2 DEF WorkerFinish, MoveWorker
    <3> QED
      BY <2>1, <2>2, <3>1 DEF WorkerFinish, WorkerStates, Unreleased, Running
  <2>3. CASE WorkerAuthenticate(c, a)
    BY <2>1, <2>3
    DEF WorkerAuthenticate, WorkerStates, Unreleased, Running
  <2>4. CASE WorkerNotify(c, a)
    BY <2>1, <2>4 DEF WorkerNotify, WorkerStates, Unreleased, Running
  <2>5. CASE WorkerExit(c, a)
    BY <2>1, <2>5 DEF WorkerExit, WorkerStates, Unreleased, Running
  <2> QED
    BY <1>2, <2>2, <2>3, <2>4, <2>5 DEF WorkerStep
<1>3. CASE Tick
  BY <1>3 DEF Tick
<1>4. CASE ProviderStep
  BY <1>4 DEF ProviderStep, setProviderEvents, PollTiles
<1>5. CASE UNCHANGED vars
  BY <1>5 DEF vars
<1> QED
  BY <1>1, <1>2, <1>3, <1>4, <1>5 DEF Next

\* Whoever makes a call holds the tile, until the call returns.
LEMMA CallerIsHeldStep ==
  ASSUME TypeOK, CallerIsHeld, [Next]_vars
  PROVE  CallerIsHeld'
<1> USE DEF CallerIsHeld
<1>1. CASE call' = NoCall
  BY <1>1 DEF NoCall
<1>2. ASSUME NEW c \in Creds, GetSerialization(c) PROVE CallerIsHeld'
  <2>1. call'.cred = c
    BY <1>2 DEF GetSerialization
  <2> QED
    BY <1>2, <2>1 DEF GetSerialization, CanCall, objectVars
<1>3. CASE /\ UNCHANGED call
           /\ \A c \in handed : c = call.cred => c \in handed'
  BY <1>3
<1>4. UNCHANGED call \/ call' = NoCall \/ \E c \in Creds : GetSerialization(c)
  BY StepKinds DEF NoEffect, core, Returns, Polls, Deselects, Refuses,
                   BeginStarts, Complete, Moves, WorkerFinish
<1>5. \A c \in handed : c = call.cred => c \in handed'
  BY ReferenceKinds
  DEF HoldsAll, objectVars, Construct, CancelTiles, DropTiles, GetCredentialAt,
      HostRelease, BeginStarts, WorkerRelease
<1> QED
  BY <1>1, <1>2, <1>3, <1>4, <1>5

\* Every reference that is taken or given back is counted.
LEMMA ReferencesStep ==
  ASSUME TypeOK, AttemptsInOrder, CallCoherent, CallerIsHeld, ReferencesExact,
         [Next]_vars
  PROVE  ReferencesExact'
<1> SUFFICES ASSUME NEW c \in Creds PROVE Exact(c)'
  BY ExactIsExact, HeldBy DEF ReferencesExact, Exact, Waiting
<1>0. /\ Exact(c) /\ references \in [Creds -> Int]
      /\ worker \in [Creds -> [Attempts -> WorkerStates]]
      /\ Waiting(c) \in SUBSET Attempts /\ Cardinality(Waiting(c)) \in Nat
      /\ owned \in SUBSET Creds /\ handed \in SUBSET Creds
  <2>1. Waiting(c) \in SUBSET Attempts
    BY DEF Waiting
  <2>2. 1 \in Attempts
    BY BoundsAssumption DEF Attempts
  <2> QED
    BY <2>1, <2>2, ExactIsExact, CountWaiting DEF TypeOK
<1>1. ASSUME UNCHANGED <<references[c], life[c]>>, Waiting(c)' = Waiting(c),
             c \in owned' <=> c \in owned, c \in handed' <=> c \in handed
      PROVE  Exact(c)'
  BY <1>0, <1>1 DEF Exact, Live
<1>2. CASE HoldsAll
  <2>1. Waiting(c)' = Waiting(c)
    BY <1>2 DEF HoldsAll, Waiting
  <2> QED
    BY <1>1, <1>2, <2>1 DEF HoldsAll, objectVars
<1>3. ASSUME UNCHANGED worker PROVE Waiting(c)' = Waiting(c)
  BY <1>3 DEF Waiting
<1>4. ASSUME NEW S \in SUBSET Creds, NEW advised \in BOOLEAN,
             Construct(S, advised)
      PROVE  Exact(c)'
  <2>1. CASE c \in S
    <3>1. ~Live(c) /\ c \in Creds
      BY <1>4, <2>1 DEF Construct, Live
    <3>2. c \notin handed /\ Cardinality(Waiting(c)) = 0
      BY <1>0, <3>1 DEF Exact
    <3>3. /\ references'[c] = 1 /\ life'[c] = "live" /\ c \in owned'
          /\ UNCHANGED <<handed, worker>>
      BY <1>4, <2>1 DEF Construct
    <3> QED
      BY <1>3, <3>2, <3>3 DEF Exact, Live
  <2>2. CASE c \notin S
    BY <1>1, <1>3, <1>4, <2>2 DEF Construct
  <2> QED
    BY <2>1, <2>2
<1>5. CASE CancelTiles \/ DropTiles
  <2>1. /\ DropReference(owned) /\ owned' = {} /\ UNCHANGED <<handed, worker>>
    BY <1>5 DEF CancelTiles, DropTiles
  <2>2. CASE c \in owned
    <3>1. references[c] > 0
      BY <1>0, <2>2 DEF Exact
    <3>2. /\ references'[c] = references[c] - 1
          /\ references'[c] > 0 <=> life'[c] = "live"
      BY <1>0, <2>1, <2>2, <3>1, DropsOne DEF Exact
    <3> QED
      BY <1>0, <1>3, <2>1, <2>2, <3>2 DEF Exact, Live
  <2>3. CASE c \notin owned
    BY <1>1, <1>3, <2>1, <2>3, DropsNone
  <2> QED
    BY <2>2, <2>3
<1>6. ASSUME NEW d \in Creds, GetCredentialAt(d) PROVE Exact(c)'
  <2>1. CASE c = d
    <3>1. /\ c \in owned /\ c \notin handed /\ c \in owned' /\ c \in handed'
          /\ references'[c] = references[c] + 1
          /\ UNCHANGED <<life, worker>>
      BY <1>0, <1>6, <2>1 DEF GetCredentialAt
    <3>2. Live(c) /\ references[c] > 0
      BY <1>0, <3>1 DEF Exact
    <3> QED
      BY <1>0, <1>3, <3>1, <3>2 DEF Exact, Live
  <2>2. CASE c # d
    BY <1>0, <1>1, <1>3, <1>6, <2>2 DEF GetCredentialAt
  <2> QED
    BY <2>1, <2>2
<1>7. ASSUME NEW d \in Creds, HostRelease(d) PROVE Exact(c)'
  <2>0. DropReference({d}) /\ UNCHANGED <<owned, worker>>
        /\ handed' = handed \ {d} /\ d \in handed
    BY <1>7 DEF HostRelease
  <2>1. CASE c = d
    <3>1. references[c] > 0 /\ c \in handed
      BY <1>0, <2>0, <2>1 DEF Exact
    <3>2. /\ references'[c] = references[c] - 1
          /\ references'[c] > 0 <=> life'[c] = "live"
      BY <1>0, <2>0, <2>1, <3>1, DropsOne DEF Exact
    <3> QED
      BY <1>0, <1>3, <2>0, <2>1, <3>1, <3>2 DEF Exact, Live
  <2>2. CASE c # d
    BY <1>1, <1>3, <2>0, <2>2, DropsNone
  <2> QED
    BY <2>1, <2>2
<1>8. ASSUME NEW d \in Creds, BeginStarts(d) PROVE Exact(c)'
  <2>0. UNCHANGED <<life, owned, handed>>
    BY <1>8 DEF BeginStarts
  <2>1. CASE c = d
    <3>1. PICK a \in Attempts : a = generation[c] + 1
      BY <1>8, <2>1, BoundsAssumption
      DEF BeginStarts, CanBegin, TypeOK, Secrets, Attempts
    <3>2. worker[c][a] = "none"
      BY <3>1, BoundsAssumption DEF AttemptsInOrder, TypeOK, Secrets, Attempts
    <3>3. /\ references'[c] = references[c] + 1
          /\ worker'[c] = [worker[c] EXCEPT ![a] = "start"]
      BY <1>0, <1>8, <2>1, <3>1 DEF BeginStarts
    <3>4. Waiting(c)' = Waiting(c) \cup {a} /\ a \notin Waiting(c)
      BY <1>0, <3>2, <3>3 DEF Waiting, Unreleased, Running
    <3>5. Cardinality(Waiting(c)') = Cardinality(Waiting(c)) + 1
      BY <1>0, <3>4, CountWaiting
    <3>6. c \in handed
      BY <1>8, <2>1 DEF BeginStarts, CanBegin, InBegin, CallerIsHeld
    <3>7. Live(c) /\ references[c] > 0
      BY <1>0, <3>6 DEF Exact
    <3> QED
      BY <1>0, <2>0, <3>3, <3>5, <3>7 DEF Exact, Live
  <2>2. CASE c # d
    <3>1. references'[c] = references[c] /\ worker'[c] = worker[c]
      BY <1>0, <1>8, <2>2 DEF BeginStarts
    <3>2. Waiting(c)' = Waiting(c)
      BY <3>1 DEF Waiting
    <3> QED
      BY <1>1, <2>0, <3>1, <3>2
  <2> QED
    BY <2>1, <2>2
<1>9. ASSUME NEW d \in Creds, NEW a \in Attempts, WorkerRelease(d, a)
      PROVE  Exact(c)'
  <2>0. /\ DropReference({d}) /\ UNCHANGED <<owned, handed>>
        /\ worker[d][a] \in {"told", "release"}
        /\ worker' = [worker EXCEPT ![d][a] = "epilogue"]
    BY <1>9 DEF WorkerRelease, MoveWorker
  <2>1. CASE c = d
    <3>1. worker'[c] = [worker[c] EXCEPT ![a] = "epilogue"]
      BY <1>0, <2>0, <2>1
    <3>2. Waiting(c)' = Waiting(c) \ {a} /\ a \in Waiting(c)
      BY <1>0, <2>0, <2>1, <3>1 DEF Waiting, Unreleased, Running
    <3>3. Cardinality(Waiting(c)') = Cardinality(Waiting(c)) - 1
      BY <1>0, <3>2, CountWaiting
    <3>4. Cardinality(Waiting(c)') \in Nat
      <4>1. Waiting(c) \ {a} \in SUBSET Attempts
        BY <1>0
      <4> QED
        BY <3>2, <4>1, CountWaiting
    <3>5. references[c] > 0
      BY <1>0, <3>3, <3>4 DEF Exact
    <3>6. /\ references'[c] = references[c] - 1
          /\ references'[c] > 0 <=> life'[c] = "live"
      BY <1>0, <2>0, <2>1, <3>5, DropsOne DEF Exact
    <3> QED
      BY <1>0, <2>0, <3>3, <3>6 DEF Exact, Live
  <2>2. CASE c # d
    <3>1. worker'[c] = worker[c]
      BY <1>0, <2>0, <2>2
    <3>2. Waiting(c)' = Waiting(c)
      BY <3>1 DEF Waiting
    <3> QED
      BY <1>1, <2>0, <2>2, <3>2, DropsNone
  <2> QED
    BY <2>1, <2>2
<1> QED
  BY <1>2, <1>4, <1>5, <1>6, <1>7, <1>8, <1>9, ReferenceKinds

\* There are no tiles, and no references, at the start.
LEMMA ReferencesInit == Init => ReferencesExact /\ CallerIsHeld
<1> SUFFICES ASSUME Init PROVE ReferencesExact /\ CallerIsHeld
  OBVIOUS
<1>1. ASSUME NEW c \in Creds PROVE Exact(c)
  <2>1. Waiting(c) = {}
    BY <1>1 DEF Init, Waiting, Unreleased, Running
  <2> QED
    BY <1>1, <2>1, FS_EmptySet DEF Init, Exact, Live
<1> QED
  BY <1>1, ExactIsExact DEF CallerIsHeld, Init, NoCall

\* references_ is exact: no thread, and no caller, uses a destroyed tile, and
\* a tile nobody refers to is destroyed.
THEOREM ReferencesAreExact == Spec => [](ReferencesExact /\ CallerIsHeld)
<1>1. Init => ReferencesExact /\ CallerIsHeld
  BY ReferencesInit
<1>2. /\ TypeOK /\ TileInvariant /\ ReferencesExact /\ CallerIsHeld
      /\ [Next]_vars
      => ReferencesExact' /\ CallerIsHeld'
  BY ReferencesStep, CallerIsHeldStep DEF TileInvariant
<1> QED
  BY <1>1, <1>2, TileInvariantHolds, PTL DEF Spec

===============================================================================

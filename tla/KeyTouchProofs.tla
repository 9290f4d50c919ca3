---------------------------- MODULE KeyTouchProofs ----------------------------
(***************************************************************************)
(* For any number of concurrent calls, any devices and any timeouts: a     *)
(* call keeps to its deadline, and returns a secret of the profile it      *)
(* names.                                                                  *)
(***************************************************************************)
EXTENDS KeyTouch, TLAPS

\* A device of the scan has at most a second for a call, so the second call
\* made to it ends at most that much after the deadline.
BudgetBounded ==
    \A r \in Requests : pc[r] = "open" => budget[r] <= Probe

\* Only an enrolled credential is ever asked for.
SelectedEnrolled ==
    \A r \in Requests :
        pc[r] \in {"selected", "touch", "done"} => selected[r] \in Enrolled[r]

Inv ==
    /\ TypeOK
    /\ WithinDeadline
    /\ BudgetBounded
    /\ SelectedEnrolled
    /\ ProofIsOfSelectedProfile

USE DEF PCs, Idle, InCall, Goto, NotWaiting, CloseDevice, Leave

\* An exception preserves the invariant: the call is over.
LEMMA ThrowInv ==
    ASSUME Inv, NEW r \in Requests, pc[r] # "done", Throw(r)
    PROVE  Inv'
<1> USE KeyTouchAssumption DEF Throw
<1>1. TypeOK'
  BY DEF Inv, TypeOK
<1>2. WithinDeadline'
  BY DEF Inv, TypeOK, WithinDeadline
<1>3. BudgetBounded'
  BY DEF Inv, TypeOK, BudgetBounded
<1>4. SelectedEnrolled'
  BY DEF Inv, TypeOK, SelectedEnrolled
<1>5. ProofIsOfSelectedProfile'
  BY DEF Inv, TypeOK, ProofIsOfSelectedProfile
<1> QED
  BY <1>1, <1>2, <1>3, <1>4, <1>5 DEF Inv

\* Passing over a device preserves the invariant.
LEMMA NextDeviceInv ==
    ASSUME Inv, NEW r \in Requests, pc[r] # "done", NextDevice(r)
    PROVE  Inv'
<1> USE KeyTouchAssumption DEF NextDevice
<1>1. TypeOK'
  BY DEF Inv, TypeOK
<1>2. WithinDeadline'
  BY DEF Inv, TypeOK, WithinDeadline
<1>3. BudgetBounded'
  BY DEF Inv, TypeOK, BudgetBounded
<1>4. SelectedEnrolled'
  BY DEF Inv, TypeOK, SelectedEnrolled
<1>5. ProofIsOfSelectedProfile'
  BY DEF Inv, TypeOK, ProofIsOfSelectedProfile
<1> QED
  BY <1>1, <1>2, <1>3, <1>4, <1>5 DEF Inv

\* The clock and the user's hands preserve the invariant: time does not pass
\* the end of a pending call, and nothing refers to what is plugged in.
LEMMA EnvironmentInv ==
    ASSUME Inv, Tick \/ \E d \in Devices : Plug(d) \/ Unplug(d)
    PROVE  Inv'
<1> USE KeyTouchAssumption DEF Tick, Plug, Unplug, scanVars
<1>1. TypeOK'
  BY DEF Inv, TypeOK
<1>2. WithinDeadline'
  BY DEF Inv, TypeOK, WithinDeadline
<1>3. BudgetBounded' /\ SelectedEnrolled' /\ ProofIsOfSelectedProfile'
  BY DEF Inv, BudgetBounded, SelectedEnrolled, ProofIsOfSelectedProfile
<1> QED
  BY <1>1, <1>2, <1>3 DEF Inv

\* The scan preserves the invariant: every timeout is cut to the deadline.
LEMMA ScanInv ==
    ASSUME Inv, NEW r \in Requests,
           \/ Call(r) \/ Manifest(r) \/ (\E d \in Devices : TryDevice(r, d))
           \/ ScanEnds(r) \/ Opened(r) \/ Pause(r) \/ Wake(r)
    PROVE  Inv'
<1> USE KeyTouchAssumption
<1>1. CASE Call(r)
  <2> USE <1>1 DEF Call
  <2>1. TypeOK'
    BY DEF Inv, TypeOK
  <2>2. WithinDeadline'
    BY DEF Inv, TypeOK, WithinDeadline
  <2>3. BudgetBounded' /\ SelectedEnrolled'
    BY DEF Inv, TypeOK, BudgetBounded, SelectedEnrolled
  <2>4. ProofIsOfSelectedProfile'
    BY DEF Inv, TypeOK, ProofIsOfSelectedProfile
  <2> QED
    BY <2>1, <2>2, <2>3, <2>4 DEF Inv
<1>2. CASE Manifest(r)
  <2>1. CASE Throw(r)
    BY <1>2, <2>1, ThrowInv DEF Manifest
  <2>2. CASE ~Throw(r)
    <3> USE <1>2, <2>2 DEF Manifest
    <3>1. TypeOK'
      BY DEF Inv, TypeOK
    <3>2. WithinDeadline'
      BY DEF Inv, TypeOK, WithinDeadline
    <3>3. BudgetBounded' /\ SelectedEnrolled'
      BY DEF Inv, TypeOK, BudgetBounded, SelectedEnrolled
    <3>4. ProofIsOfSelectedProfile'
      BY DEF Inv, TypeOK, ProofIsOfSelectedProfile
    <3> QED
      BY <3>1, <3>2, <3>3, <3>4 DEF Inv
  <2> QED
    BY <2>1, <2>2
<1>3. ASSUME NEW d \in Devices, TryDevice(r, d)
      PROVE  Inv'
  <2> USE <1>3 DEF TryDevice
  <2> DEFINE left == Smaller(Probe, deadline[r] - now)
  <2>1. /\ left \in Nat
        /\ left <= Probe /\ now + left <= deadline[r]
    BY DEF Inv, TypeOK, Smaller
  <2> HIDE DEF left
  <2>2. /\ budget' = [budget EXCEPT ![r] = left]
        /\ until' = [until EXCEPT ![r] = now + left]
    BY DEF left
  <2>3. TypeOK'
    BY <2>1, <2>2 DEF Inv, TypeOK
  <2>4. WithinDeadline'
    BY <2>1, <2>2 DEF Inv, TypeOK, WithinDeadline
  <2>5. BudgetBounded' /\ SelectedEnrolled'
    BY <2>1, <2>2 DEF Inv, TypeOK, BudgetBounded, SelectedEnrolled
  <2>6. ProofIsOfSelectedProfile'
    BY DEF Inv, TypeOK, ProofIsOfSelectedProfile
  <2> QED
    BY <2>3, <2>4, <2>5, <2>6 DEF Inv
<1>4. CASE ScanEnds(r)
  <2> USE <1>4 DEF ScanEnds
  <2>1. TypeOK'
    BY DEF Inv, TypeOK
  <2>2. WithinDeadline'
    BY DEF Inv, TypeOK, WithinDeadline
  <2>3. BudgetBounded' /\ SelectedEnrolled'
    BY DEF Inv, TypeOK, BudgetBounded, SelectedEnrolled
  <2>4. ProofIsOfSelectedProfile'
    BY DEF Inv, TypeOK, ProofIsOfSelectedProfile
  <2> QED
    BY <2>1, <2>2, <2>3, <2>4 DEF Inv
<1>5. CASE Opened(r)
  <2>1. CASE NextDevice(r)
    BY <1>5, <2>1, NextDeviceInv DEF Opened
  <2>2. CASE ~NextDevice(r)
    <3> USE <1>5, <2>2 DEF Opened
    <3>1. TypeOK'
      BY DEF Inv, TypeOK
    <3>2. WithinDeadline'
      BY DEF Inv, TypeOK, WithinDeadline, BudgetBounded
    <3>3. BudgetBounded' /\ SelectedEnrolled'
      BY DEF Inv, TypeOK, BudgetBounded, SelectedEnrolled
    <3>4. ProofIsOfSelectedProfile'
      BY DEF Inv, TypeOK, ProofIsOfSelectedProfile
    <3> QED
      BY <3>1, <3>2, <3>3, <3>4 DEF Inv
  <2> QED
    BY <2>1, <2>2
<1>6. CASE Pause(r)
  <2> USE <1>6 DEF Pause
  <2>1. now < deadline[r] => Smaller(1, deadline[r] - now) = 1
    BY DEF Inv, TypeOK, Smaller
  <2>2. TypeOK'
    BY <2>1 DEF Inv, TypeOK
  <2>3. WithinDeadline'
    BY <2>1 DEF Inv, TypeOK, WithinDeadline
  <2>4. BudgetBounded' /\ SelectedEnrolled'
    BY DEF Inv, TypeOK, BudgetBounded, SelectedEnrolled
  <2>5. ProofIsOfSelectedProfile'
    BY DEF Inv, TypeOK, ProofIsOfSelectedProfile
  <2> QED
    BY <2>2, <2>3, <2>4, <2>5 DEF Inv
<1>7. CASE Wake(r)
  <2> USE <1>7 DEF Wake, scanVars
  <2>1. TypeOK'
    BY DEF Inv, TypeOK
  <2>2. WithinDeadline'
    BY DEF Inv, TypeOK, WithinDeadline
  <2>3. BudgetBounded' /\ SelectedEnrolled'
    BY DEF Inv, TypeOK, BudgetBounded, SelectedEnrolled
  <2>4. ProofIsOfSelectedProfile'
    BY DEF Inv, TypeOK, ProofIsOfSelectedProfile
  <2> QED
    BY <2>1, <2>2, <2>3, <2>4 DEF Inv
<1> QED
  BY <1>1, <1>2, <1>3, <1>4, <1>5, <1>6, <1>7

\* What follows the selection preserves the invariant: the answer counts only
\* for the credential that was asked for, by the deadline.
LEMMA TouchInv ==
    ASSUME Inv, NEW r \in Requests,
           \/ Discovered(r) \/ AskForTouch(r)
           \/ (\E c \in Credentials : Touched(r, c)) \/ TouchFails(r)
    PROVE  Inv'
<1> USE KeyTouchAssumption
<1>0. pc[r] # "done"
  BY DEF Discovered, AskForTouch, Touched, TouchFails
<1>1. CASE Throw(r)
  BY <1>0, <1>1, ThrowInv
<1>2. CASE NextDevice(r)
  BY <1>0, <1>2, NextDeviceInv
<1>3. CASE Discovered(r) /\ ~Throw(r) /\ ~NextDevice(r)
  <2>1. PICK c \in Enrolled[r] : selected' = [selected EXCEPT ![r] = c]
    BY <1>3 DEF Discovered
  <2>2. c \in Credentials
    BY <2>1
  <2>3. /\ pc[r] = "discover"
        /\ pc' = [pc EXCEPT ![r] = "selected"]
        /\ todo' = [todo EXCEPT ![r] = {}]
        /\ until' = [until EXCEPT ![r] = 0]
        /\ UNCHANGED <<now, plugged, deadline, device, budget, proof>>
    BY <1>3 DEF Discovered
  <2>4. TypeOK'
    BY <2>1, <2>2, <2>3 DEF Inv, TypeOK
  <2>5. WithinDeadline'
    BY <2>3 DEF Inv, TypeOK, WithinDeadline
  <2>6. BudgetBounded'
    BY <2>3 DEF Inv, TypeOK, BudgetBounded
  <2>7. SelectedEnrolled'
    BY <2>1, <2>3 DEF Inv, TypeOK, SelectedEnrolled
  <2>8. ProofIsOfSelectedProfile'
    BY <2>1, <2>3 DEF Inv, TypeOK, ProofIsOfSelectedProfile
  <2> QED
    BY <2>4, <2>5, <2>6, <2>7, <2>8 DEF Inv
<1>4. CASE AskForTouch(r) /\ ~Throw(r)
  <2> USE <1>4 DEF AskForTouch
  <2>1. TypeOK'
    BY DEF Inv, TypeOK
  <2>2. WithinDeadline'
    BY DEF Inv, TypeOK, WithinDeadline
  <2>3. BudgetBounded' /\ SelectedEnrolled'
    BY DEF Inv, TypeOK, BudgetBounded, SelectedEnrolled
  <2>4. ProofIsOfSelectedProfile'
    BY DEF Inv, TypeOK, ProofIsOfSelectedProfile
  <2> QED
    BY <2>1, <2>2, <2>3, <2>4 DEF Inv
<1>5. ASSUME NEW c \in Credentials, Touched(r, c), ~Throw(r)
      PROVE  Inv'
  <2> USE <1>5 DEF Touched
  <2>1. TypeOK'
    BY DEF Inv, TypeOK
  <2>2. WithinDeadline'
    BY DEF Inv, TypeOK, WithinDeadline
  <2>3. BudgetBounded' /\ SelectedEnrolled'
    BY DEF Inv, TypeOK, BudgetBounded, SelectedEnrolled
  <2>4. ProofIsOfSelectedProfile'
    BY DEF Inv, TypeOK, SelectedEnrolled, ProofIsOfSelectedProfile
  <2> QED
    BY <2>1, <2>2, <2>3, <2>4 DEF Inv
<1>6. TouchFails(r) => Throw(r)
  BY DEF TouchFails
<1> QED
  BY <1>1, <1>2, <1>3, <1>4, <1>5, <1>6

\* The invariant is inductive.
LEMMA Induction == Inv /\ [Next]_vars => Inv'
<1> SUFFICES ASSUME Inv, [Next]_vars
             PROVE  Inv'
  OBVIOUS
<1>1. CASE UNCHANGED vars
  BY <1>1 DEF vars, scanVars, Inv, TypeOK, WithinDeadline, BudgetBounded,
              SelectedEnrolled, ProofIsOfSelectedProfile
<1>2. CASE Next
  BY <1>2, EnvironmentInv, ScanInv, TouchInv DEF Next, RequestStep
<1> QED
  BY <1>1, <1>2

\* The invariant holds initially.
LEMMA InitInv == Init => Inv
  BY KeyTouchAssumption DEF Init, Inv, TypeOK, WithinDeadline, BudgetBounded,
     SelectedEnrolled, ProofIsOfSelectedProfile

\* A pause and the wait for a touch end by the deadline, and a device of the
\* scan holds a call at most a second longer, whatever the timeouts.
THEOREM DeadlineKept == Spec => []WithinDeadline
<1>1. Inv => WithinDeadline
  BY DEF Inv
<1> QED
  BY <1>1, InitInv, Induction, PTL DEF Spec

\* The secret touchAnyKey returns is that of the enrolled credential its index
\* names, whatever the devices answer.
THEOREM ProofCorrect == Spec => []ProofIsOfSelectedProfile
<1>1. Inv => ProofIsOfSelectedProfile
  BY DEF Inv
<1> QED
  BY <1>1, InitInv, Induction, PTL DEF Spec

===============================================================================

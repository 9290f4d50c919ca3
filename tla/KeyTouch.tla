------------------------------- MODULE KeyTouch -------------------------------
(***************************************************************************)
(* touchAnyKey of src/src/core.cpp: scan the authenticators until one of   *)
(* the enrolled credentials is found, then wait for a touch of that        *)
(* device, all before one deadline.  Requests run concurrently, one per    *)
(* worker or program; they share the plugged devices.                      *)
(*                                                                         *)
(* Time is counted in units of the 250 ms pause.  libfido2 returns from    *)
(* every call within the timeout set on the device: that is what lets the  *)
(* clock advance.  Cryptography is perfect: a credential stands for its    *)
(* identifier, public key and salt, and names the secret derived from it.  *)
(***************************************************************************)
EXTENDS Integers

CONSTANTS
    Requests,       \* calls of touchAnyKey
    Devices,        \* authenticators that may be plugged in
    Yubico,         \* those with vendor 0x1050
    Credentials,
    Holds,          \* Holds[d]: the credentials device d can answer for
    Enrolled,       \* Enrolled[r]: the credentials of argument profiles
    Lax,            \* devices that disregard the list of allowed credentials
    Timeout,        \* timeoutMs
    Probe,          \* the 1000 ms given to one device of the scan
    NoDevice,       \* no device is open
    NoCred,         \* no profile is selected
    MaxNow          \* bound: the clock

ASSUME KeyTouchAssumption ==
    /\ Yubico \subseteq Devices /\ Lax \subseteq Devices
    /\ Holds \in [Devices -> SUBSET Credentials]
    /\ Enrolled \in [Requests -> SUBSET Credentials]
    /\ NoDevice \notin Devices /\ NoCred \notin Credentials
    /\ Timeout \in Nat \ {0} /\ Probe \in Nat \ {0} /\ MaxNow \in Nat

VARIABLES
    now,        \* GetTickCount64()
    plugged,    \* the devices the manifest lists
    pc,         \* where each request is
    deadline,
    todo,       \* the devices of the manifest still to be tried
    device,     \* the device that is open
    budget,     \* the timeout set on it
    until,      \* when the pending call or pause ends at the latest
    selected,   \* the profile found by the scan
    proof       \* the credential whose secret the call returned

scanVars == <<deadline, todo, device, budget, until>>
vars     == <<now, plugged, pc, scanVars, selected, proof>>

Idle   == {"idle", "done", "failed"}
InCall == {"open", "discover", "touch", "sleep"}
PCs    == Idle \cup InCall \cup {"loop", "scan", "scanned", "selected"}

Init ==
    /\ now = 0
    /\ plugged = {}
    /\ pc = [r \in Requests |-> "idle"]
    /\ deadline = [r \in Requests |-> 0]
    /\ todo = [r \in Requests |-> {}]
    /\ device = [r \in Requests |-> NoDevice]
    /\ budget = [r \in Requests |-> 0]
    /\ until = [r \in Requests |-> 0]
    /\ selected = [r \in Requests |-> NoCred]
    /\ proof = [r \in Requests |-> NoCred]

-------------------------------------------------------------------------------
(* The environment. *)

Tick ==
    /\ now < MaxNow
    /\ \A r \in Requests : pc[r] \in InCall => now < until[r]
    /\ now' = now + 1
    /\ UNCHANGED <<plugged, pc, scanVars, selected, proof>>

Plug(d) ==
    /\ d \notin plugged
    /\ plugged' = plugged \cup {d}
    /\ UNCHANGED <<now, pc, scanVars, selected, proof>>

Unplug(d) ==
    /\ d \in plugged
    /\ plugged' = plugged \ {d}
    /\ UNCHANGED <<now, pc, scanVars, selected, proof>>

\* The credentials device d may answer a request for some of A with.
Answers(d, A) == IF d \in Lax THEN Holds[d] ELSE Holds[d] \cap A

\* An authenticator serves one transaction at a time.
Busy(r, d) == \E q \in Requests \ {r} : pc[q] = "touch" /\ device[q] = d

-------------------------------------------------------------------------------
(* Where a call goes next. *)

Smaller(m, n) == IF m <= n THEN m ELSE n

Goto(r, p) == pc' = [pc EXCEPT ![r] = p]

\* The call that was pending returned.
NotWaiting(r) == until' = [until EXCEPT ![r] = 0]

\* The device is closed.
CloseDevice(r) ==
    /\ device' = [device EXCEPT ![r] = NoDevice]
    /\ budget' = [budget EXCEPT ![r] = 0]

\* The function is left, and with it its variables.
Leave(r, p) ==
    /\ Goto(r, p)
    /\ CloseDevice(r) /\ NotWaiting(r)
    /\ deadline' = [deadline EXCEPT ![r] = 0]
    /\ todo' = [todo EXCEPT ![r] = {}]
    /\ UNCHANGED <<now, plugged>>

Throw(r) ==
    /\ Leave(r, "failed")
    /\ selected' = [selected EXCEPT ![r] = NoCred]
    /\ UNCHANGED proof

NextDevice(r) ==
    /\ Goto(r, "scan")
    /\ CloseDevice(r) /\ NotWaiting(r)
    /\ UNCHANGED <<now, plugged, deadline, todo, selected, proof>>

\* The checks of the arguments passed; the deadline is fixed.
Call(r) ==
    /\ pc[r] \in Idle
    /\ now + Timeout <= MaxNow
    /\ Enrolled[r] # {}
    /\ Goto(r, "loop")
    /\ deadline' = [deadline EXCEPT ![r] = now + Timeout]
    /\ selected' = [selected EXCEPT ![r] = NoCred]
    /\ proof' = [proof EXCEPT ![r] = NoCred]
    /\ UNCHANGED <<now, plugged, todo, device, budget, until>>

\* Mutant of Manifest: the loop does not test the deadline.
ManifestForever(r) ==
    /\ pc[r] = "loop"
    /\ Goto(r, "scan")
    /\ todo' = [todo EXCEPT ![r] = plugged \cap Yubico]
    /\ UNCHANGED <<now, plugged, deadline, device, budget, until, selected,
                   proof>>

\* One turn of the outer loop: list the devices, of which only Yubico's are
\* tried.  The manifest may fail.
Manifest(r) ==
    /\ pc[r] = "loop"
    /\ \/ /\ now < deadline[r]
          /\ Goto(r, "scan")
          /\ todo' = [todo EXCEPT ![r] = plugged \cap Yubico]
          /\ UNCHANGED <<now, plugged, deadline, device, budget, until,
                         selected, proof>>
       \/ Throw(r)

\* Mutant of TryDevice: a device is given the full second.
TryDeviceFullProbe(r, d) ==
    /\ pc[r] = "scan" /\ d \in todo[r]
    /\ now < deadline[r] + Probe
    /\ Goto(r, "open")
    /\ todo' = [todo EXCEPT ![r] = @ \ {d}]
    /\ device' = [device EXCEPT ![r] = d]
    /\ budget' = [budget EXCEPT ![r] = Probe]
    /\ until' = [until EXCEPT ![r] = now + Probe]
    /\ UNCHANGED <<now, plugged, deadline, selected, proof>>

\* The timeout of a device is what is left before the deadline, one second at
\* most.  It holds for each of the calls made to the device.
TryDevice(r, d) ==
    /\ pc[r] = "scan" /\ d \in todo[r]
    /\ now < deadline[r]
    /\ Goto(r, "open")
    /\ todo' = [todo EXCEPT ![r] = @ \ {d}]
    /\ device' = [device EXCEPT ![r] = d]
    /\ LET left == Smaller(Probe, deadline[r] - now)
       IN  /\ budget' = [budget EXCEPT ![r] = left]
           /\ until' = [until EXCEPT ![r] = now + left]
    /\ UNCHANGED <<now, plugged, deadline, selected, proof>>

\* No device is left, or no time.
ScanEnds(r) ==
    /\ pc[r] = "scan"
    /\ todo[r] = {} \/ now >= deadline[r]
    /\ Goto(r, "scanned")
    /\ todo' = [todo EXCEPT ![r] = {}]
    /\ UNCHANGED <<now, plugged, deadline, device, budget, until, selected,
                   proof>>

\* fido_dev_open returns.  A device that cannot be opened is passed over.
Opened(r) ==
    /\ pc[r] = "open"
    /\ \/ /\ device[r] \in plugged
          /\ Goto(r, "discover")
          /\ until' = [until EXCEPT ![r] = now + budget[r]]
          /\ UNCHANGED <<now, plugged, deadline, todo, device, budget,
                         selected, proof>>
       \/ NextDevice(r)

\* Discovery without a touch returns: a credential, of which the first
\* matching profile is selected; none; or another error, which is thrown.
Discovered(r) ==
    LET d == device[r] IN
    /\ pc[r] = "discover"
    /\ \/ /\ d \in plugged /\ ~Busy(r, d)
          /\ \E c \in Answers(d, Enrolled[r]) \cap Enrolled[r] :
                selected' = [selected EXCEPT ![r] = c]
          /\ Goto(r, "selected") /\ NotWaiting(r)
          /\ todo' = [todo EXCEPT ![r] = {}]
          /\ UNCHANGED <<now, plugged, deadline, device, budget, proof>>
       \/ /\ d \in plugged /\ ~Busy(r, d)
          /\ \/ Answers(d, Enrolled[r]) = {}
             \/ Answers(d, Enrolled[r]) \ Enrolled[r] # {}
          /\ NextDevice(r)
       \/ Throw(r)

\* Nothing selected: pause, but not past the deadline.
Pause(r) ==
    /\ pc[r] = "scanned"
    /\ IF now < deadline[r]
       THEN /\ Goto(r, "sleep")
            /\ until' = [until EXCEPT ![r] = now + Smaller(1, deadline[r] - now)]
       ELSE /\ Goto(r, "loop")
            /\ UNCHANGED until
    /\ UNCHANGED <<now, plugged, deadline, todo, device, budget, selected,
                   proof>>

Wake(r) ==
    /\ pc[r] = "sleep" /\ now >= until[r]
    /\ Goto(r, "loop") /\ NotWaiting(r)
    /\ UNCHANGED <<now, plugged, deadline, todo, device, budget, selected,
                   proof>>

\* The request with user presence, for the selected credential only, with the
\* time that is left.  A device serving another request refuses it.
AskForTouch(r) ==
    /\ pc[r] = "selected"
    /\ \/ /\ now < deadline[r] /\ ~Busy(r, device[r])
          /\ Goto(r, "touch")
          /\ budget' = [budget EXCEPT ![r] = deadline[r] - now]
          /\ until' = [until EXCEPT ![r] = deadline[r]]
          /\ UNCHANGED <<now, plugged, deadline, todo, device, selected, proof>>
       \/ Throw(r)

\* Mutant of Touched: the identifier of the answer is not compared.
TouchedUnchecked(r, c) ==
    /\ pc[r] = "touch" /\ device[r] \in plugged
    /\ c \in Answers(device[r], {selected[r]})
    /\ Leave(r, "done")
    /\ proof' = [proof EXCEPT ![r] = c]
    /\ UNCHANGED selected

\* The user touches the device: it answers for credential c, and the answer
\* counts only for the selected credential.
Touched(r, c) ==
    /\ pc[r] = "touch" /\ device[r] \in plugged
    /\ c \in Answers(device[r], {selected[r]})
    /\ IF c = selected[r]
       THEN /\ Leave(r, "done")
            /\ proof' = [proof EXCEPT ![r] = c]
            /\ UNCHANGED selected
       ELSE Throw(r)

\* No touch in time, the device is gone, it reports user verification, or
\* the signature does not verify.
TouchFails(r) ==
    /\ pc[r] = "touch"
    /\ Throw(r)

-------------------------------------------------------------------------------
RequestStep(r) ==
    \/ Manifest(r)
    \/ \E d \in Devices : TryDevice(r, d)
    \/ ScanEnds(r)
    \/ Opened(r)
    \/ Discovered(r)
    \/ Pause(r)
    \/ Wake(r)
    \/ AskForTouch(r)
    \/ \E c \in Credentials : Touched(r, c)
    \/ TouchFails(r)

Next ==
    \/ Tick
    \/ \E d \in Devices : Plug(d) \/ Unplug(d)
    \/ \E r \in Requests : Call(r) \/ RequestStep(r)

Spec == Init /\ [][Next]_vars

\* The thread of a request is scheduled, the calls return and time goes on.
Fairness ==
    /\ WF_vars(Tick)
    /\ \A r \in Requests : WF_vars(RequestStep(r))

FairSpec == Spec /\ Fairness

-------------------------------------------------------------------------------
(* Properties. *)

TypeOK ==
    /\ now \in Nat
    /\ plugged \subseteq Devices
    /\ pc \in [Requests -> PCs]
    /\ deadline \in [Requests -> Nat]
    /\ todo \in [Requests -> SUBSET Devices]
    /\ device \in [Requests -> Devices \cup {NoDevice}]
    /\ budget \in [Requests -> Nat]
    /\ until \in [Requests -> Nat]
    /\ selected \in [Requests -> Credentials \cup {NoCred}]
    /\ proof \in [Requests -> Credentials \cup {NoCred}]

\* The pauses and the wait for a touch end by the deadline of the call; only
\* a device of the scan, which gets its timeout twice, may hold it longer, and
\* then by less than that second.  No subtraction deadline - now wraps around.
WithinDeadline ==
    \A r \in Requests :
        /\ pc[r] \in {"open", "sleep", "touch"} =>
              now <= until[r] /\ until[r] <= deadline[r]
        /\ pc[r] = "discover" =>
              now <= until[r] /\ until[r] <= deadline[r] + Probe

\* A call returns the secret of an enrolled credential, the one the index of
\* the result points to, whatever device answered and whatever was plugged or
\* unplugged since the scan.
ProofIsOfSelectedProfile ==
    \A r \in Requests :
        /\ pc[r] = "done" => proof[r] = selected[r] /\ proof[r] \in Enrolled[r]
        /\ pc[r] # "done" => proof[r] = NoCred

\* Every call returns or throws.
CallEnds ==
    \A r \in Requests : (pc[r] \notin Idle) ~> (pc[r] \in Idle)

\* core.cpp:162: "USB re-enumeration after a key swap is asynchronous. ...
\* wait within the same deadline": a call whose device is pulled out during
\* the scan goes on scanning.
SwapIsWaitedFor ==
    [][\A r \in Requests :
          pc[r] = "discover" /\ device[r] \notin plugged /\ now < deadline[r]
          => pc'[r] # "failed"]_vars

===============================================================================

---------------------------- MODULE DesktopFilter -----------------------------
(***************************************************************************)
(* The credential provider filters, as the functions they are: LogonUI     *)
(* hands a filter the list of installed providers with one decision each,  *)
(* and the filter may clear decisions.  The desktop filter is              *)
(* src/src/desktop_filter.cpp with the policy of desktop_filter_policy.h;  *)
(* the filter of the disposable VM is src/src/filter_vm.cpp with the policy *)
(* of filter_lab.h.  A provider is abstracted to what the filters tell     *)
(* apart: one of the six listed convenience providers, the key provider, or *)
(* anything else.  The Last... values both filters leave in the registry   *)
(* are a report nobody reads and are left out.                             *)
(***************************************************************************)
EXTENDS Integers, Sequences

CONSTANT ProviderLimit  \* the 256 providers above which apply() does nothing

ASSUME LimitAssumption == ProviderLimit \in Nat

ProviderKinds == {"convenience", "sovereign", "other"}
Scenarios     == {"logon", "unlock", "credui"}

\* convenienceName(id) is not null.
convenienceName(kind) == kind = "convenience"

\* What a filter is called with: the arguments of Filter, whether the session
\* is remote, and the values it reads, the Mode value of its own
\* configuration ("none": not there or of another version) and whether the
\* firmware names QEMU.
Requests ==
    UNION {[providers : [1 .. n -> ProviderKinds], allow : [1 .. n -> BOOLEAN],
            scenario : Scenarios, flags : {0, 1}, remote : BOOLEAN,
            mode : {"none", "off", "observe", "require"}, qemu : BOOLEAN] :
           n \in 0 .. ProviderLimit + 1}

DesktopScenario(r) == r.scenario \in {"logon", "unlock"} /\ r.flags = 0

Hide(r) ==
    [i \in DOMAIN r.allow |-> r.allow[i] /\ ~convenienceName(r.providers[i])]

\* Mutant of apply: as in the lab, only while the key provider is offered.
ApplyIfKeyProvider(r) ==
    IF /\ r.mode = "require"
       /\ DesktopScenario(r)
       /\ Len(r.providers) <= ProviderLimit
       /\ \E i \in DOMAIN r.allow : r.providers[i] = "sovereign" /\ r.allow[i]
    THEN Hide(r)
    ELSE r.allow

\* apply() of the desktop policy.  It hides the convenience providers whether
\* or not the key provider is there.
apply(r) ==
    IF /\ r.mode = "require"
       /\ DesktopScenario(r)
       /\ Len(r.providers) <= ProviderLimit
    THEN Hide(r)
    ELSE r.allow

\* DesktopFilter::Filter.
Filter(r) == IF r.remote THEN r.allow ELSE apply(r)

\* Mutant of LabPolicy: an excluded key provider counts as available.
LabPolicyListed(r) ==
    IF /\ DesktopScenario(r)
       /\ \E i \in DOMAIN r.allow : r.providers[i] = "sovereign"
    THEN Hide(r)
    ELSE r.allow

\* ProviderFilter::Filter with Mode::SimulateRestriction and all
\* preconditions, the one way the VM filter uses it.
LabPolicy(r) ==
    IF /\ DesktopScenario(r)
       /\ \E i \in DOMAIN r.allow : r.providers[i] = "sovereign" /\ r.allow[i]
    THEN Hide(r)
    ELSE r.allow

\* VmFilter::Filter; the number 2 is its only active mode.
VmFilter(r) == IF r.qemu /\ r.mode = "require" THEN LabPolicy(r) ELSE r.allow

\* A local sign-in or unlock screen the filter takes on: apply() leaves a list
\* above the limit as it is, and such a screen is not restricted.
LocalScreens == {r \in Requests : /\ DesktopScenario(r) /\ ~r.remote
                                  /\ Len(r.providers) <= ProviderLimit}

\* The modes in which no local sign-in screen offers a convenience provider.
RequiringModes ==
    {m \in {"none", "off", "observe", "require"} :
        \A r \in LocalScreens : r.mode = m =>
            \A i \in DOMAIN r.allow :
                Filter(r)[i] => ~convenienceName(r.providers[i])}

===============================================================================

------------------------------ MODULE PinSignIn -------------------------------
(***************************************************************************)
(* A LogonUI process from the filtered list of providers to the tile that  *)
(* signs in with a Windows PIN.  Either the production provider and the    *)
(* desktop filter are installed, or the fixture and the filter of the      *)
(* disposable VM: both DLLs of a pair use the same class identifiers.      *)
(***************************************************************************)
EXTENDS PinBridgeVm, DesktopFilter

VARIABLE screen     \* what LogonUI asks the filter, and how far it is

signInVars == <<bridgeVars, tileVars, fixtureVars, screen>>

NoRequest == [providers |-> <<>>, allow |-> <<>>, scenario |-> "credui",
              flags |-> 0, remote |-> FALSE, mode |-> "none", qemu |-> FALSE]
Closed    == [phase |-> "closed", request |-> NoRequest]

Init ==
    /\ BridgeInit /\ TileInit /\ FixtureInit
    /\ dll \in {"tile", "fixture"}
    /\ screen = Closed

\* LogonUI opens a sign-in, unlock or credential dialog.  Filters that were
\* called before this one may have excluded providers.
OpenScreen ==
    /\ screen.phase = "closed"
    /\ \E r \in Requests : screen' = [phase |-> "filter", request |-> r]
    /\ UNCHANGED <<bridgeVars, tileVars, fixtureVars>>

InstalledFilter(r) == IF dll = "tile" THEN Filter(r) ELSE VmFilter(r)

RunFilter ==
    /\ screen.phase = "filter"
    /\ screen' = [phase |-> "filtered",
                  request |-> [screen.request EXCEPT
                                 !.allow = InstalledFilter(screen.request)]]
    /\ UNCHANGED <<bridgeVars, tileVars, fixtureVars>>

\* The provider under CLSID_SovereignAuth is loaded if the list still allows
\* it; both implementations refuse everything but a local desktop.
ShowTiles ==
    /\ screen.phase = "filtered"
    /\ LET r == screen.request
       IN  screen' = IF /\ DesktopScenario(r) /\ ~r.remote
                        /\ \E i \in DOMAIN r.allow :
                              r.allow[i] /\ r.providers[i] = "sovereign"
                     THEN [Closed EXCEPT !.phase = "tiles"]
                     ELSE Closed
    /\ UNCHANGED <<bridgeVars, tileVars, fixtureVars>>

\* The apartment thread is held up for good, and the screen with it.
HeldUp == stuck /\ UNCHANGED signInVars

Next ==
    \/ HeldUp
    \/ OpenScreen \/ RunFilter \/ ShowTiles
    \/ /\ screen.phase = "tiles"
       /\ \/ (TileNext \/ GetCredentialAt \/ LogonUIRelease \/ CallStep)
             /\ UNCHANGED fixtureVars
          \/ FixtureNext
       /\ UNCHANGED screen

Spec == Init /\ [][Next]_signInVars

-------------------------------------------------------------------------------
\* Neither filter ever gives back what another filter excluded, or touches a
\* provider that is not one of the convenience providers; and the filter of
\* the VM hides those only on a screen where the key provider is offered.
FilterOnlyHides ==
    [][screen.phase = "filter" =>
         LET r == screen.request
             q == screen'.request
         IN  \A i \in DOMAIN r.allow : q.allow[i] # r.allow[i] =>
                /\ r.allow[i] /\ r.providers[i] = "convenience"
                /\ dll = "fixture" =>
                      \E j \in DOMAIN q.allow :
                         q.allow[j] /\ q.providers[j] = "sovereign"]_signInVars

===============================================================================

# Verification of sovereign-windows-auth

TLA+ models of the Windows sign-in provider in `src/src/`, of its bridge to
the stock PIN provider, its filters, its enrollment and recovery tools, and of
the scripts that install it and switch its optional restriction on. TLC checks
them on small instances, and TLAPS proves their safety properties for every
size.

## The system

| Component | State it keeps | Operations | What makes it correct |
| --- | --- | --- | --- |
| Sign-in tile, `Credential` in `provider.cpp` | reference count, event sink, `generation_`, `working_`, the proof (`readyPassword_`, `readyAt_`), PIN bridge, status text; one detached worker per request | `begin`, `SetSelected`, `SetDeselected`, `GetSerialization`, `ReportResult`, `ready`, the worker | a touch signs in at most once and never after a cancellation; one request at a time; no use after destruction |
| Provider, `Provider`/`Factory`/DLL exports in `provider.cpp` | sink, user array, scenario, list of tiles, live objects | `SetUsageScenario`, `Advise`, `UnAdvise`, `SetUserArray`, `GetCredentialCount`, `GetCredentialAt`, creation, release, unloading | the list follows the configuration; the module outlives its threads |
| Key requests, `core.cpp` | none between calls | `touchAnyKey`: several devices, one deadline | the deadline is kept, exactly the enrolled keys answer |
| Profiles, `profile.cpp`; enrollment, `enroll.cpp` | one encrypted profile per account | encode, decode, save, load, enroll, verify | an enrollment is never overwritten or torn, and each key opens it on its own |
| PIN bridge, `windows_pin.cpp` | hidden stock provider and tile | construct, `serialize`, destroy | the PIN is used once and is taken back on every path; the bridge lives as long as the result is pending |
| Packing, `windows_auth.cpp` | none | pack, authenticate | buffer layout |
| Desktop filter, `desktop_filter*.{cpp,h}`; VM filter, `filter_vm.cpp` | registry configuration | `Filter` | the right alternatives are hidden, nothing is given back |
| VM fixture, `pin_bridge_vm.cpp` | typed PIN, bridge, list of one tile | the provider and credential methods | as the PIN bridge |
| Recovery USB, `recovery_usb.cpp` | verifier in the hive, `recovery.key` on a stick | `pairUsb`, `checkLiveUsb`, `authorize` | a verifier always has its credential; a pairing is never replaced |
| Activation, `tools/enable-desktop-key-required.ps1` | configuration, class and registration in the hive | one run | never restricted without a way out; registration last |
| Offline recovery, `filter_recovery.cpp` | target hive, backups | `recover` (inspect, remove) | nothing is touched unauthorized; success is durable |
| Recovery screen, `recovery_screen.cpp` | verified pair, `busy`, buttons, one thread | window messages, `start`, `runTool` | what it offers and reports agrees with the tool |
| Provider installation scripts | registrations, files, preferences | install, update, unregister, restore | a registered provider can be loaded and has a profile, wherever a script was cut short |
| Tests, probes, build scripts | | | |

How they interact. LogonUI loads the provider DLL, configures the `Provider`
and calls the tiles from one apartment thread (`tools/install-provider.ps1:47`
registers `ThreadingModel=Apartment`). A submitted tile without a proof starts
a detached thread that waits up to 15 s for a touch, stores the decrypted PIN
or password in the tile under `mutex_`, and calls `CredentialsChanged` through
a marshalled sink; LogonUI asks `GetCredentialCount` again and submits the tile
automatically. `GetSerialization` takes the proof under the lock, serializes it
outside (through the stock Windows PIN provider, whose COM calls can re-enter
the apartment) and returns it under the lock again, keeping the bridge to the
stock provider until the result is reported. Independently, the desktop
filter can hide the ordinary tiles. It is switched on by a script that demands
a working recovery USB, and off by a tool run from WinPE, usually through the
recovery screen.

What is hard here: worker answers that come late, or between two locked
sections; cancellation during serialization; object and module lifetime with
detached threads; failures and power loss between the registry writes of
pairing, activation and recovery; drives that are pulled or swapped between a
check and its use; a UI state that was established by an earlier run; a foreign
COM object that may fail in, or call back from, every call; limits that reader
and writer of a file check separately.

## Modules

| Module | Models | Main state | Actions |
| --- | --- | --- | --- |
| `Credential` | class `Credential` | one function per member, `worker[c][a]`, `call` | one per section of code that runs under `mutex_` |
| `TouchAuthority` | what the tiles promise | `phase[tile][attempt]` | request, prove, claim, sign, void |
| `Provider` (extends `Credential`) | `Provider`, `Factory`, DLL exports | members of `Provider`, each tile's account and scenario, `loaded` | one per method |
| `RecoveryUsb` | `recovery_usb.cpp` | hives in memory and in their files, sticks, drives, `--pair-usb` processes | one per effect of `pairUsb` |
| `DesktopFilter` | `desktop_filter.cpp`, `desktop_filter_policy.h`, `filter_vm.cpp`, `filter_lab.h` | none: functions of a request | |
| `FilterRecovery` (extends `RecoveryUsb`, `DesktopFilter`) | `filter_recovery.cpp`, the activation script | script position, tool process, loaded hives, backups | one per registry or file effect; `Restart` |
| `RecoveryScreen` (extends `FilterRecovery`) | `recovery_screen.cpp` | globals of the window, buttons, the thread | one per window message and thread step |
| `KeyTouch` | `touchAnyKey` in `core.cpp` | per call: position, deadline, devices to try, device open, profile selected, proof; clock, plugged devices | one per libfido2 call that returns, plus the loop's own steps |
| `MCKeyTouch` (extends `KeyTouch`) | | | values of the constants |
| `WindowsPin` | `windows_pin.cpp` | per bridge: the stock call it is in, what it has acquired, the stock PIN field | one per call to the stock provider; destruction as an operator |
| `PinTile` (extends `WindowsPin`) | the part of `Credential` that uses the bridge | proof, kept bridge, generation, the call in progress, references | `GetSerialization` in its sections, `SetDeselected`, release |
| `PinBridgeVm` (extends `PinTile`) | `pin_bridge_vm.cpp` | the fixture's members | one per method |
| `PinSignIn` (extends `PinBridgeVm`, `DesktopFilter`) | LogonUI from the filtered list to the credential | the screen | filter, load, and the tile's steps |
| `ProfileCodec`, `MCProfileCodec` | `encodeProfile`, `decodeProfile` | the profile saved, the file | damage to the file |
| `Enrollment` | `enroll.cpp`, saving and loading in `profile.cpp`, `enroll-pin-and-verify.ps1` | per session: position, keys, accepted credential, sealed records, temporary file; the profile, the receipt | one per file effect, dialog, touch and check |
| `Installation` (extends `Enrollment`) | `install-provider.ps1`, `unregister-provider.ps1` | script position, files, the provider's two registry keys in memory and on disk | one per registry or file effect |
| `CredentialProofs` | | | theorems about `Credential` |
| `KeyTouchProofs` | | | theorems about `KeyTouch` |
| `ProviderProofs` (extends `CredentialProofs`) | | | theorems about `Provider` |
| `PinProofs` | | | theorems about `PinSignIn` and what it extends |
| `RecoveryProofs` | | | theorems about `FilterRecovery` and `RecoveryUsb` |
| `RecoveryScreenProofs` (extends `RecoveryProofs`) | | | theorems about `RecoveryScreen` |
| `EnrollmentProofs` | | | theorems about `Installation` and `Enrollment` |
| `ProfileCodecProofs` | | | theorems about `ProfileCodec` |

`PROJECT.json` maps every definition to its source lines. Definitions marked
*Mutant* are deliberately wrong variants of their neighbour; `PROJECT.json`
names for every property one of them that the property detects.

### Credential

An attempt is the value of `generation_` that `begin()` made. A secret is
represented by the number of the attempt that obtained it, 0 for none, so
`ready`, `pinBridge` and `call.secret` say whose secret is where. A worker is
`start` (before and during authentication), then `proved`, `failed` or `mute`
(COM or the sink unavailable: it neither authenticates nor notifies), then
`notify`/`told` or `release`, `epilogue` (after its `Release`, still inside the
module's code) and `gone`. `GetSerialization` is split where it unlocks: the
first section moves the proof into `call`, or leaves `call.pc = "begin"`;
`begin()` and the completion are actions of their own. `call.pc = "begin"`
blocks the apartment, as nothing in between calls out; during `serialize`
other methods can run only for a PIN profile, the one whose serialization
calls the stock provider. At most one `GetSerialization` is in progress.
`SetDeselected` over all tiles of the provider is one step, since each tile
has its own lock and the others' workers commute with it.

History variables, never read by the code's guards: `voided` (attempts that
were current at a deselection), `produced` (credentials made per attempt) and
`automatic` (tiles LogonUI was told to submit in this tick).

The credential's own `Advise`/`UnAdvise` do nothing and are no actions; field
texts, the logo and tracing are left out, `status_` is kept.

### Provider

Every method calls into `Credential` with the step it makes on its tiles.
`enumerate` builds a tile for any subset of the accounts, which covers an
unreadable array, more than 256 users, missing and damaged profiles and an
exception half way. `GetCredentialCount` polls up to the first tile with a
proof. `ProviderRelease` assumes LogonUI has called `UnAdvise`; what that buys
is the second half of `TilesFollowSink`. `Unload` is COM's
`CoFreeUnusedLibraries` after `DllCanUnloadNow`; a pinned module stays.

### RecoveryUsb, FilterRecovery, RecoveryScreen

The SOFTWARE hive of an installation is a record (pairing key, verifier, parts
of the restriction, registration). `hive` is what programs see, `durable` what
the file holds; Windows writes a hive back as a whole, on flush, unload, clean
restart or on its own account, and a power failure resets `hive` to `durable`.
A credential is the number of its random draw, its digest the same number; a
`recovery.key` that was created and not completely written is `Torn`. Every
step of `pairUsb` and of the tool can fail. `Restart` interrupts everything.
Operators do not delete or edit `recovery.key`, and no program of the
repository removes a pairing. In the recovery environment a loaded hive's file
cannot be copied. `tool.shown` is history: the credential the run read before
and after it loaded the hive.

The activation script's checks of hashes, accounts and the provider inventory
are the script stopping before its first write. The staged DLL is not part of
the hive; that its file survives a power failure is not modelled.

The activated filter is judged by what it does: `configuredMode` reads the
configuration, and `RegisteredFilterHides` asks that in this mode no local
screen, of any list of providers, offers a convenience provider.

The screen's confirmation box disables its owner window; buttons deliver
clicks only when enabled, closing the window is always possible.

### WindowsPin, PinTile, PinBridgeVm, PinSignIn

The stock PIN provider is external. Each call to it is a step that may succeed
or fail, and during which LogonUI may call the tile (`Pumps`). Assumed of it:
it accepts the empty string, `SetDeselected` and `UnAdvise`, whose results the
code ignores. `SetStringValue` that fails may have stored the PIN. A bridge's
`has` are the members `~Impl` looks at and what the stock objects hold, so the
destructor is the code's decision about what to undo.

`PinTile` is the tile of `Credential` reduced to what touches the bridge: a key
proof is one step, the stock calls, one step in `Credential`, are many. A
local bridge lives in `call.bridge`, `pinBridge_` is `kept`. The
older bridge is torn down under `mutex_` (`TearDownKept`), by `SetDeselected`
and by the second locked section of `GetSerialization`. A call to the tile that
LogonUI makes in that teardown locks the mutex on the thread that has it, which
C++ leaves undefined: the call fails and the teardown goes on, or the thread
never gets on. The second is `stuck`, with `~Impl` left at one of its calls
(`TornAt`), and the run reaches it; nothing in the code rules it out. What the
code does give, `StuckIsCanceled`, is that the proof is invalid by then, because
`++generation_` and `readyPassword_.reset()` come before `pinBridge_.reset()`.
A stuck screen stays so (`HeldUp`), and all other states are still checked for
deadlock. A teardown outside the lock commutes with a call to the tile and is
one step. `Credential` has the stock calls as one step and takes them to
return, so its liveness properties are about a tile that is not held up. The fixture keeps its bridge in
a member and has no guard against being entered during a stock call; it is
taken not to be.

`DesktopFilter` has the filters as functions of a request: providers (six
convenience ones, the key provider, any other), decisions, scenario, flags,
session and configuration. `PinSignIn` lets LogonUI ask with every request of
up to three providers, one more than the scaled limit.

### ProfileCodec

A cell stands for a 32-bit number, a magic, a fixed array, or one unit of a
counted text or byte string, so every length and count of the format is a value
the damage can change. The magics have the code's values. The limits are
constants that fit together (`LimitsFit`), as TLC checks of the code's own
(`CodeLimitsAssumption`). `readFile`'s limit of 65536 bytes on the encrypted
file is left out: the clear file has at most 60000. A throw is the empty set. The loop over the
records and the encoding of several keys are recursive functions.

### KeyTouch

Time advances in units of the 250 ms pause and only while no pending call has
used up its timeout: that libfido2 returns in time is assumed, that the code
passes it the right time is checked. The timeout set before opening a device
applies to opening and again to asking it, so they are two calls with the same
`budget`. An authenticator serves one touch request at a time; a device in
`Lax` disregards the list of allowed credentials, which is what the code's
comparison of the answer's identifier is for. A call may fail at every place
where the code throws, so every behaviour of the devices is covered.

### Enrollment

All sessions are for one account; accounts share nothing but a directory. A
profile is the sequence of its records, one per key, each a key and a box that
opens only under the key's secret and the binding to that key it was sealed
with. A file's content is `written` or `flushed`; a power failure tears what is
not flushed, and keeps a rename that returned (`MOVEFILE_WRITE_THROUGH`). A
killed session leaves its temporary file, whose name is never used again. The
checks of the script are answered by any enrolled key the user has connected,
as `touchAnyKey` does. A session started with a single key, which the program
allows and the script never does, ends with the saved profile.

`Installation` adds the two scripts: the installer needs the receipt and no
trace of an earlier installation, any of its commands may throw, its catch block
removes what it created, and both may be killed. The registry is written back
as a whole at any time; a power failure falls back to what was. Copied files
are hashed and not flushed, so a power failure may cost them (`unflushed`):
that is accepted by the property.

## Runs

| Run | Bounds | Checks |
| --- | --- | --- |
| `credential` | 1 tile, generation up to 3, clock 0..1, expiry 0 | the tile, safety and liveness |
| `fresh_proof_kept`, `prompted_touch_counts` | as `credential`, expiry 1 | the two findings |
| `provider` | 2 tiles over time, generation up to 2, 1 account | list, sinks, destruction, unloading |
| `filter_recovery` | 2 installations, one of them legacy, 1 letter, 2 sticks, 2 credentials, 2 pairings at once, lists of up to 3 providers | pairing, activation, recovery |
| `recovery_screen` | 2 installations, 2 letters, 1 stick | UI state against the tool, verified pair, return of the buttons |
| `key_touch` | 2 calls, 3 devices, timeout 3, probe 2, clock 0..4 | deadlines, correctness of the proof, end of the calls |
| `swap_is_waited_for` | 1 call, 3 devices, clock 0..3 | a finding |
| `enrollment` | 2 sessions, 2 keys, 2 credentials, 1 change, one installation script at a time | profile, receipt, registration |
| `receipt_means_both_keys` | as `enrollment`, without the scripts | a finding |
| `pin_sign_in` | 4 bridges, 3 PINs, generation up to 6, lists of up to 3 providers | bridge and filters |
| `profile_codec` | 1 to 4 keys, limit 3, texts of 1 or 2 units, 2 changes of the file | the file format |

Why the bounds are enough. Three generations hold a canceled attempt, its
successor and one more cancellation or retry, so a late answer meets an older,
the current and a newer generation. With an expiry of 0 and one tick a proof is
met at the last moment it counts and at the first it does not. Tiles share nothing but the module,
the apartment thread and the clock, so one tile suffices for the tile's own
properties and two for the provider's (an old, still running tile beside its
successor). Two sticks and two credentials distinguish right, wrong, torn and
missing; two pairings collide; two installations distinguish the one
that was restored from the one on display, two drive letters the verified drive
from another. A timeout of three units lets the scan of two devices, with
a probe of two, overrun the deadline, and two calls collide at a device. Two
enrollment sessions race for the file, and two keys make a record that is bound
to the wrong one. Four bridges are a kept one, its replacement, a
failed one and another; three PINs distinguish a new one from a repeated one. Damaging a file twice reaches a wrong length
together with a wrong count. Lists of three providers hold a convenience
provider, the key provider and another, and exceed the limit by one. What is
proved does not depend on the bounds at all; only liveness and the round trip of
profiles with several keys do. `CHECK_DEADLOCK FALSE` is set for the tile and
provider runs, where the bounds on generations and objects stop the system and
LogonUI may stop calling, for key requests and enrollment, which end, and for
the codec, whose changes are bounded.

What they show, by property:

- `ProofSpentOnce`, `NeverFromCanceled`, and `TileInvariant` with its part
  `OneRequestPerTile`: see the proofs.
- `ImplementsAuthority`: the tiles refine `TouchAuthority`: every attempt goes
  from requested to proved to claimed to signed, at most once, and once void
  stays void.
- `ReferencesExact`: the reference count is the provider's list, LogonUI's
  pointer and the unreleased workers, in every state.
- `TouchStatusTruthful`: the tile asks for a touch exactly while a request is in
  flight whose answer counts.
- `AutomaticHonoured`: the two expiry tests agree at the boundary.
- `RequestEnds`, `ProofAnnounced`, `OrphanDestroyed`: liveness.
- `ListMatchesConfiguration`, `TilesFollowSink`, `NoThreadInUnloadedModule`:
  the provider.
- `VerifierHasCredential`, `ReportedPairingIsDurable`, `PairingNotReplaced`:
  pairing, with concurrency, pulled drives and power failures.
- `RestrictedIsRecoverable`, `RegisteredFilterHides`: activation; a registered
  filter has its way out, and does hide what it is for (for lists of providers
  within the limit; the filter leaves longer ones alone).
- `TargetTouchedOnlyAuthorized`, `SuccessIsDurable`: recovery.
- `RestoreWasChecked`, `NeverLeavesWhileWorking`, `CompleteIsTrue`,
  `ScreenComesBack`: the screen.
- `NothingLeftBehind`: on every path through the bridge, however far it came,
  the PIN, the selection and the sinks are taken back.
- `PinOfferedOnce`, `BridgeOutlivesCall`, `BridgeKeptForResult`,
  `StuckIsCanceled`: the tile's use of the bridge, re-entered by LogonUI, also
  where the re-entry holds the thread up for good.
- `FilterOnlyHides`: no filter gives back what another excluded, and the VM
  filter hides only where the key provider is offered.
- `SavedProfileLoads`, `AcceptedIsCanonical`: what the writer accepts the reader
  accepts, and no bytes of an accepted file are ignored.
- `WithinDeadline`, `CallEnds`: no wait of `touchAnyKey` is longer than its
  deadline allows, by more than one probe in the scan, and each call ends.
- `ProofIsOfSelectedProfile`: the secret returned belongs to the profile whose
  index is returned with it.
- `FirstProfileStays`, `SaveIsAtomic`: saving a profile, with competing
  sessions, failing steps and power loss.
- `EitherKeyUnlocks`, `ReceiptDescribesProfile`: what a saved profile is worth.
- `RegisteredCanSignIn`: from the receipt to the registration, a provider that
  Windows loads has its class, its files and a whole profile of two keys.

Fairness. `key_touch` assumes that a call's thread is scheduled, that libfido2
returns within its timeouts, and that time passes. `credential` assumes weak
fairness of each worker's steps: the key request has a deadline (15 s, passed to
`unlockAccount`), locked sections are short, and a runnable thread is scheduled.
LogonUI is never obliged to call. `recovery_screen` assumes the tool, the thread
and the message loop run; a result whose `PostMessage` failed is the one
exception `ScreenComesBack` makes, since nothing in the code recovers from it.

### Findings

- `FreshProofKept` is violated: `GetSerialization` finds no proof and unlocks,
  the worker publishes, `begin()` discards the fresh proof
  (`provider.cpp:88`), although `SECURITY_MODEL.md:55` lists what invalidates a
  ready result and this is not in the list.
- `PromptedTouchCounts` is violated: while a canceled request is in flight,
  *Sign in* shows the prompt for a touch (`provider.cpp:87` and `247`) whose
  answer is discarded; `SETUP.md:115` tells the user to touch.
- `SwapIsWaitedFor` is violated: a key pulled out while it is being asked makes
  the call throw (`core.cpp:184`), although the comment at line 162 says that a
  swap is waited for within the deadline.
- `ReceiptMeansBothKeys` is violated: one key may answer all checks of
  `enroll-pin-and-verify.ps1`, which then writes `both_keys_verified` (line 42);
  `SETUP.md:94` says that both keys are verified.

## Proofs

Every theorem holds for all values of the constants that the named assumptions
of the modules allow. Each module defines an inductive invariant as a
conjunction of named parts, proves `Init` and one lemma per part, with a step
per action or per kind of action, and draws the properties from it. Where many
actions do the same to the state a property is about, a lemma first sorts the
actions into *kinds* (`StepKinds`, `PinKinds`, `UsbKinds`, `SessionKinds`, ...),
and the lemmas of the parts go through the kinds. TLC checked the invariants
on the bounds of the runs before they were proved.

### The tile: `CredentialProofs`

- `TypeCorrect`, `TileInvariantHolds`: types, and the inductive invariant.
- `SpentOnce`: one touch, at most one credential.
- `OneRequest`: at most one request per tile.
- `NothingFromCanceled`: the action property `NeverFromCanceled`.
- `TouchStatusIsTruthful`, `AutomaticIsHonoured`: what the tile shows, and what
  LogonUI is told, agree with what the tile then does.
- `ReferencesAreExact`: the count of every tile is that of its holders.
- `TilesImplementAuthority`: `Spec => Authority!Spec`, the refinement.

"Spent once" is not inductive. The strengthening says where the secret of an
attempt can be: with its worker while that runs, in `readyPassword_`, or in the
call, in one of them only, and unspent wherever it is (`SecretInOnePlace`).
That needs the stored proof to be of the current generation
(`ProofIsCurrent`), the call to carry the secret of the generation it read
(`CallCoherent`), numbers beyond the current generation to be unused and
voided ones to lie in the past (`AttemptsInOrder`), and at most one running
worker (`OneRequestPerTile`). `NeverFromCanceled` follows: a credential leaves
only when `generation_` is still the one the call read, and voided attempts are
strictly older.

`AutomaticHonoured` rests on `AutomaticHasProof`: until the clock moves, a tile
that was announced and not yet submitted has a fresh proof, and no call of it
is about to ask for a new one. `ReferencesExact` needs that whoever is inside a call holds the
tile (`CallerIsHeld`); the rest is counting the workers that have not released.

The refinement maps an attempt to a phase (`PhaseOf`). Its proof says for every
step what it does to the phases: it voids some that were pending (`Voids`),
moves one attempt on (`Changes`), starts one and voids what it replaces
(`Replaces`), or nothing (`SamePhase`); each is a step of `TouchAuthority` or a
stutter. The tile's invariant enters where an attempt other than the current
one must have nothing pending (`PendingIsCurrent`).

### The provider: `ProviderProofs`

- `ProviderImplementsTiles`: `PSpec => Spec`. Every method of the provider is
  one of the steps that `Credential` allows its environment, so each theorem
  of `CredentialProofs` holds of the tiles of a provider as well.
- `ListsMatchConfiguration`, `TilesAlwaysFollowSink`, `NoThreadIsUnmapped`, from
  `ProviderInvariantHolds`.

`SinkFirst` says that a tile without a sink never started a request, which is
why the destructor has nothing to cancel; `SinkShared` that the tiles of the list have the provider's sink.
`ModuleHeld` says that the provider, every live tile and the pin each keep the
module mapped, and that no worker was ever started in an unpinned module. The
pin is what covers a worker's epilogue: after its `Release` no object is left
that would.

### The bridge and the filters: `PinProofs`

- `NothingIsLeftBehind`, `PinsOfferedOnce`, `BridgesOutliveCalls`,
  `BridgesKeptForResult`, `StuckIsAlwaysCanceled`, from `PinInvariantHolds`.
- `FiltersGiveNothingBack`: the action property `FilterOnlyHides`.

The core is `BridgesUndoable`: whatever a bridge did that has to be undone, the
members `~Impl` tests show it, after every stock call that succeeded or threw.
`BridgesOwned` (a live bridge belongs to the running call or to the tile) with
`KeptInOrder` (the tile's own bridge is not the one of the running call, until
the fixture makes it so) excludes that a re-entrant call destroys the running
one; `NewPins` says that a PIN that can still be supplied was not yet.
`StuckInOrder` carries `StuckIsAlwaysCanceled`: a thread that gets on has a PIN
in every call, and no call is of a later generation than the tile, so that a
deselection around which a thread is held up has canceled it. None of these
theorems assumes anything about which stock calls re-enter the tile.

### Pairing, activation and recovery: `RecoveryProofs`

- `VerifierAlwaysHasCredential`, `ReportedPairingsAreDurable`,
  `NoPairingReplaced`: pairing.
- `RestrictedAlwaysRecoverable`, `RegisteredFilterAlwaysHides`: activation.
- `RemovalSuccessIsDurable`, `TargetOnlyTouchedAuthorized`: recovery.

Two exclusions carry the pairing. `CREATE_NEW` makes a stick that is being
written the stick of one pairing, with an incomplete file (`WritesOwnFile`), so a
complete credential is never overwritten (`WrittenIsOnStick`). `RegCreateKeyEx`
lets one pairing create the record (`OneRegisters`), so the verifier stays that
pairing's. Between memory and file, a verifier that reached the file is the one
in memory (`FileFollowsMemory`), and only the running system can have one that
did not (`OthersAreWritten`): that is what a power failure may undo. The script
is at its registration only with verifier, mode and class in place
(`ScriptInOrder`), hence in a hive that has the registration the rest is there too, in memory and
in the file (`RegisteredIsWhole`): the hive is written back as a whole.
`ToolInOrder` carries the credential that was read past the steps between
reading and use.

### The recovery screen: `RecoveryScreenProofs`

- `CompleteIsAlwaysTrue`, `RestoresAreChecked`, `LeavesOnlyIdle`, from
  `ScreenInvariantHolds`.

The steps of the tool on the screen are steps of `FilterRecovery`
(`ScreenStepsRecover`), so `ToolInOrder` and `SuccessIsDurable` are reused.
`ThreadAndTool` ties the result the thread posts to the run it was started for,
`OneThread` excludes a second run, and `CompleteStays` holds what was restored
in memory as well, since a hive in memory may be written back later.

### Enrollment and installation: `EnrollmentProofs`

- `SavesAreAtomic`, `EitherKeyAlwaysUnlocks`, `ReceiptsDescribeProfile`,
  `ProfilesStay`, `RegisteredAlwaysSignsIn`, from `InstallInvariantHolds`.

`SessionInOrder` says which records a session has sealed at which step, each
under the key it is about; `TemporaryInOrder` that a file is renamed only
flushed; `ProfileInOrder` that the profile is that of one session, whole and on
the disk; `ToldInOrder` that whoever was told of a saved profile was told of
that one. For the scripts, `ScriptInOrder` and `RegistryInOrder` order files,
class and registration, in the registry and in what a power failure falls back
to. A profile, once there, stays, so the receipt the installer read remains
true while it runs.

### The file format: `ProfileCodecProofs`

- `AcceptedAlwaysCanonical`: for every sequence of numbers as the file, what is
  accepted is the one encoding of what it is read as.
- `SavedSingleKeyLoads`: a profile of a single key is read back as it was
  saved, whatever the lengths of its texts, for limits that fit together as the
  code's do.

Both compute where each part of a record lies: `RecordCells` and `BindingCells`
for the writer, `FieldPlace` and `AcceptedRecord` for the reader. The limits
enter through `LimitsAssumption`. A file of several keys is accepted only when
encoding the result gives the file again, so the first theorem needs no
induction there.

### Key requests: `KeyTouchProofs`

- `DeadlineKept`: `Spec => []WithinDeadline`.
- `ProofCorrect`: `Spec => []ProofIsOfSelectedProfile`.

Two facts make them inductive together: a device being opened has at most the
probe's second (`BudgetBounded`), so the call that follows overruns by no more
than that; and only enrolled credentials are ever asked for
(`SelectedEnrolled`).

### Only model-checked

Liveness is out of the prover's reach: `RequestEnds`, `ProofAnnounced`,
`OrphanDestroyed`, `CallEnds` and `ScreenComesBack`. `SavedProfileLoads` for
several keys needs induction over the records, since their encoding and decoding
are recursive functions, and stays with TLC as well. The four findings
are counterexamples of TLC.

## Plan

The safety properties of all runs are proved. What is left:

1. `KeyTouch` composed with `Credential`: two tiles, one of them canceled,
   waiting for the same key (the hazard at `provider.cpp:116`).
2. The two hazards without a property: a pairing that fails half way on a
   legacy installation, and unregistering the provider under an active filter.

## Not modelled

Windows itself (LogonUI, COM, LSA, registry internals) appears only as the
calls it makes and the effects the code relies on. Cryptography is perfect:
digests are injective, secrets unguessable. Buffer layouts, path syntax,
texts and tracing are left out. The class factories and object counts of the
filters and of the VM fixture have no effect the properties see; those of the
provider are in `Provider`. `trustedPath` and the other checks of paths and
permissions are steps that may fail. The helpers `install-touch-handoff.ps1`,
`update-provider-display.ps1` and `update-provider-refresh.ps1` are historical by
`SETUP.md:120` and are left out with the preferences they save. `windows_auth.cpp`,
`current_user.cpp`, the inspection programs, tests (`filter_lab.cpp`,
`provider_host.cpp` and `unavailable_provider_fixture.cpp` among them) and build
scripts keep no state the properties could relate.

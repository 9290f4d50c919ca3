----------------------------- MODULE WindowsPin -------------------------------
(***************************************************************************)
(* The bridge to the stock Windows PIN provider, src/src/windows_pin.cpp: a *)
(* WindowsPin object opens the provider, connects its event sinks, selects *)
(* the enrolled user's credential, puts the PIN in its field, asks it for  *)
(* the serialized credential and takes the PIN back.  Every call to the    *)
(* stock provider is a step of its own, since LogonUI may call the sign-in *)
(* tile while it runs; every call may fail.                                *)
(*                                                                         *)
(* The stock provider is not part of the repository.  It is assumed to     *)
(* accept the empty string, SetDeselected and UnAdvise (their results are  *)
(* ignored by the code); a SetStringValue that fails may or may not have   *)
(* stored the PIN.  A PIN is the number of the key proof, or of the typing, *)
(* it came from.                                                           *)
(***************************************************************************)
EXTENDS Integers, FiniteSets

\* A definition marked as a mutant is a deliberately wrong variant of the one
\* that follows it, used by no specification.

CONSTANTS
    MaxBridges,     \* bound: WindowsPin objects ever constructed
    MaxPins,        \* bound: PINs ever obtained
    Pumps           \* the stock calls in which LogonUI may call the tile

Bridges == 1 .. MaxBridges
Pins    == 1 .. MaxPins

\* The stock calls of initialize(), each with the one after it.  The owners
\* call serialize() as soon as the constructor returns: it begins at "set".
After == [create |-> "scenario", scenario |-> "advise", advise |-> "users",
          users |-> "enumerate", enumerate |-> "connect",
          connect |-> "select", select |-> "fields", fields |-> "set"]

\* What a call that succeeds adds: members of Impl ("provider", "credential",
\* "hasPinField") and what the stock objects then hold.
Gains == [create |-> {"provider"}, scenario |-> {}, advise |-> {"sink"},
          users |-> {}, enumerate |-> {"credential"},
          connect |-> {"credentialSink"}, select |-> {"selected"},
          fields |-> {"hasPinField"}]

StockState == {"sink", "credentialSink", "selected"}
StockCalls == DOMAIN After \cup {"set", "get", "clear", "clearFailed",
                                 "teardown"}

ASSUME BridgeAssumption ==
    MaxBridges \in Nat /\ MaxPins \in Nat /\ Pumps \subseteq StockCalls

VARIABLES
    bridge,     \* per object: the stock call it is in, what it has, and the
                \* content of the stock credential's PIN field (0: empty)
    offered     \* history: how often each PIN was put in a stock field

bridgeVars == <<bridge, offered>>

NoBridge == [pc |-> "unborn", has |-> {}, field |-> 0]

BridgeInit ==
    /\ bridge = [b \in Bridges |-> NoBridge]
    /\ offered = [p \in Pins |-> 0]

Fresh(b) == bridge[b].pc = "unborn" /\ \A c \in 1 .. b - 1 :
                                          bridge[c].pc # "unborn"

\* What an initialize() that throws at a stage has already set: the first of
\* two matching credentials, or a selection the stock provider answered with
\* automatic submission.
LeftBehind(stage) ==
    {{}} \cup (IF stage \in {"enumerate", "select"} THEN {Gains[stage]}
                                                    ELSE {})

\* initialize(), one stock call with the checks on its results.
initialize(b) ==
    LET r == bridge[b] IN
    /\ r.pc \in DOMAIN After
    /\ \/ bridge' = [bridge EXCEPT ![b].pc = After[r.pc],
                                   ![b].has = @ \cup Gains[r.pc]]
       \/ \E left \in LeftBehind(r.pc) :
             bridge' = [bridge EXCEPT ![b].pc = "thrown",
                                      ![b].has = @ \cup left]
    /\ UNCHANGED offered

\* serialize(): the PIN is supplied.  used is set first, so that no bridge
\* supplies twice: it is at "set" only once.
Supply(b, p) ==
    /\ bridge[b].pc = "set"
    /\ offered' = [offered EXCEPT ![p] = @ + 1]
    /\ \/ bridge' = [bridge EXCEPT ![b].pc = "get", ![b].field = p]
       \/ \E f \in {0, p} :
             bridge' = [bridge EXCEPT ![b].pc = "thrown", ![b].field = f]

\* The stock GetSerialization returns; its result is looked at only after
\* the field was cleared.
GetStock(b) ==
    /\ bridge[b].pc = "get"
    /\ \E pc \in {"clear", "clearFailed"} :
          bridge' = [bridge EXCEPT ![b].pc = pc]
    /\ UNCHANGED offered

Clear(b) ==
    /\ bridge[b].pc \in {"clear", "clearFailed"}
    /\ bridge' = [bridge EXCEPT ![b].field = 0,
                                ![b].pc = IF @ = "clear" THEN "served"
                                                         ELSE "thrown"]
    /\ UNCHANGED offered

StockStep(b, p) == initialize(b) \/ Supply(b, p) \/ GetStock(b) \/ Clear(b)

\* Mutant of Destroyed: undoes only a bridge that was initialized completely.
DestroyedIfComplete(r) ==
    IF "hasPinField" \in r.has THEN [pc |-> "dead", has |-> {}, field |-> 0]
    ELSE [r EXCEPT !.pc = "dead", !.has = @ \cap StockState]

\* ~Impl(): with a credential, empty the field if it is known, deselect and
\* disconnect; with a provider, disconnect.
Destroyed(r) ==
    LET undone == (IF "credential" \in r.has THEN {"selected", "credentialSink"}
                                             ELSE {})
                  \cup (IF "provider" \in r.has THEN {"sink"} ELSE {})
    IN  [pc |-> "dead",
         has |-> (r.has \cap StockState) \ undone,
         field |-> IF {"credential", "hasPinField"} \subseteq r.has
                   THEN 0 ELSE r.field]

\* Where ~Impl() of an initialized bridge is when one of its stock calls does
\* not return: the calls before that one were made, in this order.
TornAt(r) ==
    {[r EXCEPT !.pc = "teardown", !.field = 0, !.has = @ \ undone] :
        undone \in {{}, {"selected"}, {"selected", "credentialSink"},
                    StockState}}

\* The bridges once the ones in S have been destroyed.
Without(S) ==
    [b \in Bridges |-> IF b \in S THEN Destroyed(bridge[b]) ELSE bridge[b]]

===============================================================================

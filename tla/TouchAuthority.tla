---------------------------- MODULE TouchAuthority ----------------------------
(***************************************************************************)
(* What the sign-in tiles promise, without threads, locks, generations or  *)
(* objects: the touch of a key is a one-time authority.  Every request is  *)
(* made once, is answered at most once, and an answer can be claimed and   *)
(* turned into one Windows credential as long as nothing voided it.  A     *)
(* voided or used authority never comes back, and a tile never has two.    *)
(***************************************************************************)
CONSTANTS Tiles, Attempts

VARIABLE phase  \* phase[t][a]: what became of attempt a of tile t

Pending == {"requested", "proved", "claimed"}
Phases  == Pending \cup {"idle", "void", "signed"}

Init == phase = [t \in Tiles |-> [a \in Attempts |-> "idle"]]

\* A new request replaces whatever was pending for the tile.
Request(t, a) ==
    /\ phase[t][a] = "idle"
    /\ phase' = [phase EXCEPT ![t] =
                    [b \in Attempts |->
                        IF b = a THEN "requested"
                        ELSE IF phase[t][b] \in Pending THEN "void"
                        ELSE phase[t][b]]]

Advance(t, a, from, to) ==
    /\ phase[t][a] = from
    /\ phase' = [phase EXCEPT ![t][a] = to]

Prove(t, a) == Advance(t, a, "requested", "proved")
Claim(t, a) == Advance(t, a, "proved", "claimed")
Sign(t, a)  == Advance(t, a, "claimed", "signed")

\* Everything pending for the tiles of T is voided: a failed or expired
\* request, a deselection, a reconfiguration of the provider.
Void(T) ==
    phase' = [t \in Tiles |->
                [a \in Attempts |->
                    IF t \in T /\ phase[t][a] \in Pending THEN "void"
                                                          ELSE phase[t][a]]]

Next ==
    \/ \E t \in Tiles, a \in Attempts :
          Request(t, a) \/ Prove(t, a) \/ Claim(t, a) \/ Sign(t, a)
    \/ \E T \in SUBSET Tiles : Void(T)

Spec == Init /\ [][Next]_phase

\* A tile never has two pending authorities.
OnePending ==
    \A t \in Tiles : \A a, b \in Attempts :
        phase[t][a] \in Pending /\ phase[t][b] \in Pending => a = b

===============================================================================

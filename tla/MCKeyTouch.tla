------------------------------ MODULE MCKeyTouch ------------------------------
(***************************************************************************)
(* Two calls, for two accounts that share key "b"; a device per key, one   *)
(* of which also holds a foreign credential and answers with it, and one   *)
(* of another vendor.                                                      *)
(***************************************************************************)
EXTENDS KeyTouch, TLC

MCHolds    == "k1" :> {"a"} @@ "k2" :> {"b", "x"} @@ "other" :> {"a"}
MCEnrolled == "r1" :> {"a", "b"} @@ "r2" :> {"b"}

\* One call alone, for the runs about its progress.
MCEnrolledOne == "r1" :> {"a", "b"}

===============================================================================

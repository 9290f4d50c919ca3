--------------------------- MODULE EnrollmentProofs ---------------------------
(***************************************************************************)
(* Proofs about Enrollment.tla and Installation.tla: for any number of     *)
(* sessions, keys and credentials, saving a profile is all or nothing, the *)
(* saved one is opened by each of its keys, and a provider that Windows    *)
(* loads can sign in with it.                                              *)
(***************************************************************************)
EXTENDS Installation, FiniteSetTheorems, SequenceTheorems, TLAPS

ScriptStates == {"idle", "copy", "class", "server", "register", "report",
                 "remove registration", "remove class"}
Registries   == [class : {"none", "bare", "complete"}, registered : BOOLEAN]

EnrollTypeOK ==
    /\ pin \in Pins
    /\ pc \in [Sessions -> PCs]
    /\ keys \in [Sessions -> Arguments \cup {<<>>}]
    /\ password \in [Sessions -> Pins \cup {None}]
    /\ records \in [Sessions -> Seq(Record)]
    /\ temporary \in [Sessions -> Contents]
    /\ profile # None => profile \in [records : Seq(Record), content : Contents]
    /\ receipt \in Sessions \cup {None}

InstallTypeOK ==
    /\ EnrollTypeOK
    /\ script \in ScriptStates
    /\ files \in {"none", "verified", "unverified", "unflushed"}
    /\ registry \in Registries /\ saved \in Registries

-------------------------------------------------------------------------------
(* The inductive invariant. *)

\* The record of key k, and what a session has when both of its keys, or its
\* only one, have answered.
Sealed(k, p) == [key |-> k, box |-> seal(k, p, k)]

OneKey(s, k)     == keys[s] = <<k>> /\ records[s] = <<Sealed(k, password[s])>>
TwoKeys(s, k, l) == /\ k # l /\ keys[s] = <<k, l>>
                    /\ records[s] = <<Sealed(k, password[s]),
                                      Sealed(l, password[s])>>

Whole(s) == /\ password[s] \in Pins
            /\ \/ \E k \in Keys : OneKey(s, k)
               \/ \E k, l \in Keys : TwoKeys(s, k, l)

Saving  == {"save", "write", "flush", "install", "reload"}
Told    == {"enrolled", "verified"} \cup Checks
Past    == Saving \cup Told \cup {"failed", "killed"}

\* How far a session's records are.
InOrder(s) ==
    /\ pc[s] \in {"idle", "start", "prompt", "first"} => records[s] = <<>>
    /\ pc[s] \in {"start", "prompt", "first"} =>
          \/ \E k \in Keys : keys[s] = <<k>>
          \/ \E k, l \in Keys : k # l /\ keys[s] = <<k, l>>
    /\ pc[s] = "first" => password[s] \in Pins
    /\ pc[s] = "second" =>
          /\ password[s] \in Pins
          /\ \E k, l \in Keys :
                /\ k # l /\ keys[s] = <<k, l>>
                /\ records[s] = <<Sealed(k, password[s])>>
    /\ pc[s] \in Saving \cup Told => Whole(s)

SessionInOrder == \A s \in Sessions : InOrder(s)

\* A temporary file exists only while its session saves, or was killed there,
\* and has reached the disk when the session gives it the profile's name.
TemporaryInOrder ==
    \A s \in Sessions :
        /\ temporary[s] # "none" =>
              pc[s] \in {"write", "flush", "install", "killed"}
        /\ pc[s] = "install" => temporary[s] = "flushed"

\* The profile is that of a session, whole and on the disk.
ProfileInOrder ==
    profile # None =>
        /\ profile.content = "flushed"
        /\ \E s \in Sessions : /\ pc[s] \in Past /\ Whole(s)
                               /\ profile.records = records[s]

\* Who was told about a saved profile, and the receipt, are about this one;
\* the script only verifies profiles of two keys.
ToldInOrder ==
    /\ \A s \in Sessions : pc[s] \in Told =>
          profile # None /\ profile.records = records[s]
    /\ \A s \in Sessions : pc[s] \in Checks \cup {"verified"} =>
          Len(keys[s]) = 2
    /\ receipt # None => pc[receipt] = "verified"

EnrollInvariant ==
    SessionInOrder /\ TemporaryInOrder /\ ProfileInOrder /\ ToldInOrder

\* The profile that an installation begins with.
TwoKeyProfile ==
    /\ profile # None
    /\ \E s \in Sessions : /\ pc[s] \in Past /\ password[s] \in Pins
                           /\ \E k, l \in Keys : TwoKeys(s, k, l)
                           /\ profile.records = records[s]

\* The order of the two scripts: files, class and registration appear in this
\* order, and the registration goes first.
ScriptInOrder ==
    /\ script \in {"copy", "class", "server", "register", "report"} =>
          TwoKeyProfile
    /\ script = "copy" => files = "none"
    /\ script \in {"class", "server", "register", "report"} =>
          files = "verified"
    /\ script \in {"copy", "class", "server", "register", "remove class"} =>
          ~registry.registered
    /\ script \in {"register", "report"} => registry.class = "complete"

RegistryInOrder ==
    \A r \in {registry, saved} : r.registered =>
        /\ r.class = "complete" /\ files \in {"verified", "unflushed"}
        /\ TwoKeyProfile

InstallInvariant == EnrollInvariant /\ ScriptInOrder /\ RegistryInOrder

-------------------------------------------------------------------------------
(* Operators. *)

\* The public profiles of a session, as they can be.
LEMMA ArgumentShape ==
  ASSUME NEW ks \in Arguments
  PROVE  \/ \E k \in Keys : ks = <<k>> /\ Len(ks) = 1
         \/ \E k, l \in Keys : ks = <<k, l>> /\ Len(ks) = 2
  BY DEF Arguments

\* A key whose turn it is: its index and the step of the session.
LEMMA KeyTurn ==
  ASSUME EnrollTypeOK, NEW s \in Sessions, NEW i \in 1 .. Len(keys[s]),
         pc[s] = KeyStep[i]
  PROVE  /\ (i = 1 /\ pc[s] = "first") \/ (i = 2 /\ pc[s] = "second")
         /\ Len(keys[s]) \in 1 .. 2
         /\ i < Len(keys[s]) => KeyStep[i + 1] = "second"
<1>1. keys[s] \in Arguments \cup {<<>>} /\ Len(<<>>) = 0
  BY DEF EnrollTypeOK
<1>2. Len(keys[s]) \in 0 .. 2
  BY <1>1, ArgumentShape
<1>3. KeyStep[1] = "first" /\ KeyStep[2] = "second"
  BY DEF KeyStep
<1>4. \A n \in 0 .. 2 : \A j \in 1 .. n :
         /\ j \in {1, 2} /\ n \in 1 .. 2
         /\ j < n => j = 1
  OBVIOUS
<1>5. i \in {1, 2} /\ Len(keys[s]) \in 1 .. 2 /\ (i < Len(keys[s]) => i = 1)
  BY <1>2, <1>4, Zenon
<1>6. (i = 1 /\ pc[s] = "first") \/ (i = 2 /\ pc[s] = "second")
  BY <1>3, <1>5
<1>7. ASSUME i < Len(keys[s]) PROVE KeyStep[i + 1] = "second"
  <2>1. i = 1
    BY <1>5, <1>7
  <2>2. i + 1 = 2
    BY <2>1
  <2> QED
    BY <1>3, <2>2, Zenon
<1> QED
  BY <1>5, <1>6, <1>7, Zenon

\* Two profiles of the same key are noticed.
LEMMA DistinctKeys ==
  ASSUME NEW k \in Keys, NEW l \in Keys,
         Cardinality(Range(<<k, l>>)) = Len(<<k, l>>)
  PROVE  k # l
<1> SUFFICES ASSUME k = l PROVE FALSE
  OBVIOUS
<1>1. Range(<<k, l>>) = {k}
  BY DEF Range
<1>2. Cardinality({k}) = 1
  BY FS_Singleton
<1> QED
  BY <1>1, <1>2

\* Records are appended in the order of the keys.
LEMMA AppendRecord ==
  ASSUME NEW a \in Record, NEW b \in Record
  PROVE  Append(<<>>, a) = <<a>> /\ Append(<<a>>, b) = <<a, b>>
<1>1. /\ <<>> \in Seq(Record) /\ <<a>> \in Seq(Record)
      /\ <<a, b>> \in Seq(Record)
  OBVIOUS
<1>2. /\ Len(<<>>) = 0 /\ Len(<<a>>) = 1 /\ <<a>>[1] = a
      /\ Len(<<a, b>>) = 2 /\ <<a, b>>[1] = a /\ <<a, b>>[2] = b
  OBVIOUS
<1>3. Append(<<>>, a) = <<a>>
  <2>1. /\ Append(<<>>, a) \in Seq(Record) /\ Len(Append(<<>>, a)) = 1
        /\ Append(<<>>, a)[1] = a
    BY <1>1, <1>2, AppendProperties
  <2> QED
    BY <1>1, <1>2, <2>1, SeqEqual
<1>4. Append(<<a>>, b) = <<a, b>>
  <2>1. /\ Append(<<a>>, b) \in Seq(Record) /\ Len(Append(<<a>>, b)) = 2
        /\ Append(<<a>>, b)[1] = a /\ Append(<<a>>, b)[2] = b
    BY <1>1, <1>2, AppendProperties
  <2>2. \A i \in 1 .. Len(Append(<<a>>, b)) : Append(<<a>>, b)[i] = <<a, b>>[i]
    BY <1>2, <2>1
  <2>3. Len(Append(<<a>>, b)) = Len(<<a, b>>)
    BY <1>2, <2>1
  <2> QED
    BY <1>1, <2>1, <2>2, <2>3, SeqEqual, Zenon
<1> QED
  BY <1>3, <1>4

\* The record of a key is a record, and opens with the secret of that key.
LEMMA SealedRecord ==
  ASSUME NEW k \in Keys, NEW p \in Pins
  PROVE  /\ Sealed(k, p) \in Record /\ Sealed(k, p).key = k
         /\ unseal(k, Sealed(k, p).box, k) = p
  BY DEF Sealed, seal, unseal, Record, Box

\* unlockAccount takes the record of the key that answered, at whichever index
\* it is, and opens it.
LEMMA UnlockOne ==
  ASSUME NEW k \in Keys, NEW p \in Pins
  PROVE  unlockAccount(<<Sealed(k, p)>>, k) = p
<1> DEFINE rs == <<Sealed(k, p)>>
           index == CHOOSE i \in 1 .. Len(rs) : rs[i].key = k
<1>1. Len(rs) = 1 /\ rs[1] = Sealed(k, p)
  OBVIOUS
<1>2. index \in 1 .. Len(rs) /\ rs[index].key = k
  <2>1. \E i \in 1 .. Len(rs) : rs[i].key = k
    BY <1>1, SealedRecord
  <2> QED
    BY <2>1, Zenon
<1> HIDE DEF index
<1>3. rs[index] = Sealed(k, p)
  BY <1>1, <1>2
<1> QED
  BY <1>3, SealedRecord DEF unlockAccount, profileForKey, index

\* A profile of two keys: each of them selects its own record and opens it.
LEMMA UnlockTwo ==
  ASSUME NEW k \in Keys, NEW l \in Keys, NEW p \in Pins, k # l
  PROVE  /\ unlockAccount(<<Sealed(k, p), Sealed(l, p)>>, k) = p
         /\ unlockAccount(<<Sealed(k, p), Sealed(l, p)>>, l) = p
<1> DEFINE rs == <<Sealed(k, p), Sealed(l, p)>>
<1>1. Len(rs) = 2 /\ rs[1] = Sealed(k, p) /\ rs[2] = Sealed(l, p)
  OBVIOUS
<1>2. ASSUME NEW m \in {k, l} PROVE unlockAccount(rs, m) = p
  <2> DEFINE index == CHOOSE i \in 1 .. Len(rs) : rs[i].key = m
  <2>1. index \in 1 .. Len(rs) /\ rs[index].key = m
    <3>1. \E i \in 1 .. Len(rs) : rs[i].key = m
      BY <1>1, SealedRecord
    <3> QED
      BY <3>1, Zenon
  <2> HIDE DEF index
  <2>2. rs[index] = Sealed(m, p)
    BY <1>1, <2>1, SealedRecord
  <2> QED
    BY <2>2, SealedRecord DEF unlockAccount, profileForKey, index
<1> QED
  BY <1>2

-------------------------------------------------------------------------------
(* The steps of a session, by what they do to what the invariant is about.  *)

\* A session fails, or is killed; short of being killed it leaves nothing.
GivesUp(s) ==
    /\ pc[s] \notin Over \cup {"idle"}
    /\ \/ /\ pc' = [pc EXCEPT ![s] = "failed"]
          /\ temporary' = [temporary EXCEPT ![s] = "none"]
       \/ /\ pc' = [pc EXCEPT ![s] = "failed"] /\ UNCHANGED temporary
          /\ pc[s] \notin {"write", "flush", "install"}
       \/ pc' = [pc EXCEPT ![s] = "killed"] /\ UNCHANGED temporary
    /\ UNCHANGED <<keys, password, records, profile, receipt>>

\* A check is passed.
Passes(s, to) ==
    /\ \/ pc[s] = "start" /\ to = "prompt"
       \/ /\ pc[s] = "reload" /\ to = "enrolled"
          /\ profile # None /\ profile.records = records[s]
       \/ pc[s] \in Told \ {"verified"} /\ to \in Checks /\ Len(keys[s]) = 2
    /\ pc' = [pc EXCEPT ![s] = to]
    /\ UNCHANGED <<keys, password, records, temporary, profile, receipt>>

\* Windows accepts the credential.
Accepts(s) ==
    /\ pc[s] = "prompt" /\ pc' = [pc EXCEPT ![s] = "first"]
    /\ password' = [password EXCEPT ![s] = pin]
    /\ UNCHANGED <<keys, records, temporary, profile, receipt>>

\* A key answers and its record is sealed.
Seals(s, i) ==
    /\ i \in 1 .. Len(keys[s]) /\ pc[s] = KeyStep[i]
    /\ records' = [records EXCEPT ![s] =
                      Append(@, Sealed(keys[s][i], password[s]))]
    /\ pc' = [pc EXCEPT ![s] = IF i < Len(keys[s]) THEN KeyStep[i + 1]
                                                    ELSE "save"]
    /\ UNCHANGED <<keys, password, temporary, profile, receipt>>

\* The temporary file comes a step further.
Writes(s, to, content) ==
    /\ \/ pc[s] = "save" /\ to = "write" /\ content = "empty"
       \/ pc[s] = "write" /\ to = "flush" /\ content = "written"
       \/ pc[s] = "flush" /\ to = "install" /\ content = "flushed"
    /\ pc' = [pc EXCEPT ![s] = to]
    /\ temporary' = [temporary EXCEPT ![s] = content]
    /\ UNCHANGED <<keys, password, records, profile, receipt>>

\* It becomes the profile.
Installs(s) ==
    /\ pc[s] = "install" /\ pc' = [pc EXCEPT ![s] = "reload"]
    /\ profile = None
    /\ profile' = [records |-> records[s], content |-> temporary[s]]
    /\ temporary' = [temporary EXCEPT ![s] = "none"]
    /\ UNCHANGED <<keys, password, records, receipt>>

Receives(s) ==
    /\ pc[s] = "first_provider" /\ pc' = [pc EXCEPT ![s] = "verified"]
    /\ receipt' = s
    /\ UNCHANGED <<keys, password, records, temporary, profile>>

\* Every step of a session is of one of these kinds.
LEMMA SessionKinds ==
  ASSUME EnrollTypeOK, NEW s \in Sessions, SessionStep(s)
  PROVE  \/ \E ks \in Arguments : Start(s, ks)
         \/ GivesUp(s) \/ (\E to \in PCs : Passes(s, to)) \/ Accepts(s)
         \/ \E i \in 1 .. Len(keys[s]) : Seals(s, i)
         \/ \E to \in PCs, c \in Contents : Writes(s, to, c)
         \/ Installs(s) \/ Receives(s)
<1> USE DEF Goto, Stop, StopAndDelete
<1>1. CASE CheckExists(s)
  BY <1>1 DEF CheckExists, GivesUp, Passes, Over, PCs
<1>2. CASE Prompt(s)
  BY <1>2 DEF Prompt, GivesUp, Accepts, Over
<1>3. ASSUME NEW i \in 1 .. Len(keys[s]), EnrollKey(s, i)
      PROVE  Seals(s, i) \/ GivesUp(s)
  <2>1. CASE Stop(s)
    <3>1. pc[s] = KeyStep[i]
      BY <1>3 DEF EnrollKey
    <3>2. pc[s] \in {"first", "second"}
      BY <3>1, KeyTurn
    <3> QED
      BY <2>1, <3>2 DEF GivesUp, Over
  <2>2. CASE ~Stop(s)
    BY <1>3, <2>2 DEF EnrollKey, Seals, Sealed
  <2> QED
    BY <2>1, <2>2
<1>4. CASE CreateTemporary(s) \/ WriteTemporary(s) \/ FlushTemporary(s)
  BY <1>4 DEF CreateTemporary, WriteTemporary, FlushTemporary, GivesUp, Writes,
              Over, PCs, Contents
<1>5. CASE Install(s)
  BY <1>5 DEF Install, GivesUp, Installs, Over
<1>6. CASE Reload(s)
  BY <1>6 DEF Reload, Loadable, GivesUp, Passes, Over, PCs
<1>7. ASSUME NEW k \in Keys, Check(s, k)
      PROVE  GivesUp(s) \/ \E to \in PCs : Passes(s, to)
  BY <1>7 DEF Check, NextCheck, GivesUp, Passes, Over, PCs, Told, Checks
<1>8. CASE WriteReceipt(s)
  BY <1>8 DEF WriteReceipt, NextCheck, GivesUp, Receives, Over
<1>9. CASE Kill(s)
  BY <1>9 DEF Kill, GivesUp
<1> QED
  BY <1>1, <1>2, <1>3, <1>4, <1>5, <1>6, <1>7, <1>8, <1>9 DEF SessionStep

\* The other steps: nothing happens to the sessions, or the power fails.
Rests == UNCHANGED <<pc, keys, password, records, temporary, profile, receipt>>

EnrollStep == (\E s \in Sessions : SessionStep(s)) \/ PowerLoss \/ Rests

\* A session that came to save its profile, or ended, keeps what it has.
LEMMA PastStays ==
  ASSUME EnrollTypeOK, EnrollStep, NEW t \in Sessions, pc[t] \in Past
  PROVE  /\ pc'[t] \in Past
         /\ UNCHANGED <<keys[t], password[t], records[t]>>
<1> USE DEF Past, Saving, Told, Checks
<1>0. /\ pc \in [Sessions -> PCs] /\ DOMAIN keys = Sessions
      /\ DOMAIN password = Sessions /\ DOMAIN records = Sessions
  BY DEF EnrollTypeOK
<1>1. ASSUME NEW s \in Sessions, SessionStep(s)
      PROVE  /\ pc'[t] \in Past
             /\ UNCHANGED <<keys[t], password[t], records[t]>>
  <2>1. ASSUME NEW ks \in Arguments, Start(s, ks) PROVE t # s
    BY <2>1 DEF Start
  <2>2. ASSUME NEW i \in 1 .. Len(keys[s]), Seals(s, i) PROVE t # s
    BY <2>2, KeyTurn DEF Seals
  <2>3. Accepts(s) => t # s
    BY DEF Accepts
  <2> QED
    BY <1>0, <1>1, <2>1, <2>2, <2>3, SessionKinds
    DEF Start, Goto, GivesUp, Passes, Accepts, Seals, Writes, Installs,
        Receives
<1>2. CASE PowerLoss
  BY <1>0, <1>2 DEF PowerLoss
<1>3. CASE Rests
  BY <1>3 DEF Rests
<1> QED
  BY <1>1, <1>2, <1>3 DEF EnrollStep

\* The steps keep the types.
LEMMA EnrollTypeStep ==
  ASSUME EnrollTypeOK, SessionInOrder, EnrollStep, pin' \in Pins
  PROVE  EnrollTypeOK'
<1> USE DEF EnrollTypeOK
<1>1. ASSUME NEW s \in Sessions, SessionStep(s) PROVE EnrollTypeOK'
  <2>1. ASSUME NEW ks \in Arguments, Start(s, ks) PROVE EnrollTypeOK'
    BY <2>1 DEF Start, Goto, PCs
  <2>2. CASE GivesUp(s)
    BY <2>2 DEF GivesUp, PCs, Contents
  <2>3. ASSUME NEW to \in PCs, Passes(s, to) PROVE EnrollTypeOK'
    BY <2>3 DEF Passes
  <2>4. CASE Accepts(s)
    BY <2>4 DEF Accepts, PCs
  <2>5. ASSUME NEW i \in 1 .. Len(keys[s]), Seals(s, i) PROVE EnrollTypeOK'
    <3>1. /\ (i = 1 /\ pc[s] = "first") \/ (i = 2 /\ pc[s] = "second")
          /\ Len(keys[s]) \in 1 .. 2
          /\ i < Len(keys[s]) => KeyStep[i + 1] = "second"
      BY <2>5, KeyTurn DEF Seals
    <3>2. password[s] \in Pins
      BY <3>1 DEF SessionInOrder, InOrder
    <3>3. keys[s][i] \in Keys
      BY <3>1 DEF SessionInOrder, InOrder
    <3>4. records' \in [Sessions -> Seq(Record)]
      BY <2>5, <3>2, <3>3, SealedRecord, AppendProperties DEF Seals
    <3>5. pc' \in [Sessions -> PCs]
      <4>1. (IF i < Len(keys[s]) THEN KeyStep[i + 1] ELSE "save") \in PCs
        BY <3>1 DEF PCs
      <4> QED
        BY <2>5, <4>1 DEF Seals
    <3> QED
      BY <2>5, <3>4, <3>5 DEF Seals
  <2>6. ASSUME NEW to \in PCs, NEW c \in Contents, Writes(s, to, c)
        PROVE  EnrollTypeOK'
    BY <2>6 DEF Writes
  <2>7. CASE Installs(s)
    BY <2>7 DEF Installs, PCs, Contents
  <2>8. CASE Receives(s)
    BY <2>8 DEF Receives, PCs
  <2> QED
    BY <1>1, <2>1, <2>2, <2>3, <2>4, <2>5, <2>6, <2>7, <2>8, SessionKinds
<1>2. CASE PowerLoss
  <2>1. \A c \in Contents : Lost(c) \in Contents
    BY DEF Lost, Contents
  <2>2. /\ pc' \in [Sessions -> PCs] /\ temporary' \in [Sessions -> Contents]
    BY <1>2, <2>1 DEF PowerLoss, PCs
  <2>3. profile' # None =>
           profile' \in [records : Seq(Record), content : Contents]
    BY <1>2, <2>1 DEF PowerLoss
  <2> QED
    BY <1>2, <2>2, <2>3 DEF PowerLoss
<1>3. CASE Rests
  BY <1>3 DEF Rests
<1> QED
  BY <1>1, <1>2, <1>3 DEF EnrollStep

-------------------------------------------------------------------------------
(* Every step keeps the invariant. *)

\* A step of one session leaves the others alone.
LEMMA OtherSessions ==
  ASSUME EnrollTypeOK, NEW s \in Sessions, SessionStep(s),
         NEW t \in Sessions, t # s
  PROVE  /\ pc'[t] = pc[t] /\ keys'[t] = keys[t] /\ records'[t] = records[t]
         /\ password'[t] = password[t] /\ temporary'[t] = temporary[t]
<1>1. /\ pc \in [Sessions -> PCs] /\ DOMAIN keys = Sessions
      /\ DOMAIN password = Sessions /\ DOMAIN records = Sessions
      /\ DOMAIN temporary = Sessions
  BY DEF EnrollTypeOK
<1> QED
  BY <1>1, SessionKinds
  DEF Start, Goto, GivesUp, Passes, Accepts, Seals, Writes, Installs, Receives

\* The records of a session grow key by key.
LEMMA SealsInOrder ==
  ASSUME EnrollTypeOK, NEW s \in Sessions, InOrder(s),
         NEW i \in 1 .. Len(keys[s]), Seals(s, i)
  PROVE  InOrder(s)'
<1>0. /\ (i = 1 /\ pc[s] = "first") \/ (i = 2 /\ pc[s] = "second")
      /\ i < Len(keys[s]) => KeyStep[i + 1] = "second"
  BY KeyTurn DEF Seals
<1>1. /\ UNCHANGED <<keys, password>>
      /\ records'[s] = Append(records[s], Sealed(keys[s][i], password[s]))
      /\ pc'[s] = IF i < Len(keys[s]) THEN KeyStep[i + 1] ELSE "save"
  BY DEF Seals, EnrollTypeOK
<1>2. CASE i = 1 /\ pc[s] = "first"
  <2>0. records[s] = <<>> /\ password[s] \in Pins
    BY <1>2 DEF InOrder
  <2>1. ASSUME NEW k \in Keys, keys[s] = <<k>> PROVE InOrder(s)'
    <3>1. /\ keys[s][1] = k /\ Len(keys[s]) = 1
      BY <2>1
    <3>2. records'[s] = <<Sealed(k, password[s])>> /\ pc'[s] = "save"
      BY <1>1, <1>2, <2>0, <3>1, SealedRecord, AppendRecord
    <3>3. Whole(s)'
      BY <1>1, <2>0, <2>1, <3>2 DEF Whole, OneKey
    <3> QED
      BY <3>2, <3>3 DEF InOrder
  <2>2. ASSUME NEW k \in Keys, NEW l \in Keys, k # l, keys[s] = <<k, l>>
        PROVE  InOrder(s)'
    <3>1. /\ keys[s][1] = k /\ Len(keys[s]) = 2
      BY <2>2
    <3>2. records'[s] = <<Sealed(k, password[s])>> /\ pc'[s] = "second"
      BY <1>0, <1>1, <1>2, <2>0, <3>1, SealedRecord, AppendRecord
    <3> QED
      BY <1>1, <2>0, <2>2, <3>2 DEF InOrder, Saving, Told, Checks
  <2> QED
    BY <1>2, <2>1, <2>2 DEF InOrder
<1>3. CASE i = 2 /\ pc[s] = "second"
  <2>1. PICK k \in Keys, l \in Keys :
           /\ k # l /\ keys[s] = <<k, l>>
           /\ records[s] = <<Sealed(k, password[s])>>
    BY <1>3 DEF InOrder
  <2>2. /\ keys[s][2] = l /\ Len(keys[s]) = 2 /\ password[s] \in Pins
    BY <1>3, <2>1 DEF InOrder
  <2>3. /\ records'[s] = <<Sealed(k, password[s]), Sealed(l, password[s])>>
        /\ pc'[s] = "save"
    BY <1>1, <1>3, <2>1, <2>2, SealedRecord, AppendRecord
  <2>4. Whole(s)'
    BY <1>1, <2>1, <2>2, <2>3 DEF Whole, TwoKeys
  <2> QED
    BY <2>3, <2>4 DEF InOrder
<1> QED
  BY <1>0, <1>2, <1>3

\* Every session stays in order.
LEMMA SessionInOrderStep ==
  ASSUME EnrollTypeOK, SessionInOrder, EnrollStep
  PROVE  SessionInOrder'
<1> SUFFICES ASSUME NEW t \in Sessions PROVE InOrder(t)'
  BY DEF SessionInOrder
<1>0. InOrder(t)
  BY DEF SessionInOrder
<1>1. ASSUME UNCHANGED <<pc[t], keys[t], records[t], password[t]>>
      PROVE  InOrder(t)'
  BY <1>0, <1>1 DEF InOrder, Whole, OneKey, TwoKeys
<1>2. ASSUME pc'[t] \in Saving \cup Told \cup {"failed", "killed"},
             pc'[t] \in Saving \cup Told => pc[t] \in Saving \cup Told,
             UNCHANGED <<keys[t], records[t], password[t]>>
      PROVE  InOrder(t)'
  BY <1>0, <1>2 DEF InOrder, Whole, OneKey, TwoKeys, Saving, Told, Checks
<1>3. ASSUME SessionStep(t) PROVE InOrder(t)'
  <2> USE DEF EnrollTypeOK
  <2>1. ASSUME NEW ks \in Arguments, Start(t, ks) PROVE InOrder(t)'
    <3>1. /\ records'[t] = <<>> /\ keys'[t] = ks
          /\ pc'[t] = IF Cardinality(Range(ks)) = Len(ks) THEN "start"
                                                        ELSE "failed"
      BY <1>0, <2>1 DEF Start, Goto, InOrder
    <3>2. CASE pc'[t] = "failed"
      BY <3>2 DEF InOrder, Saving, Told, Checks
    <3>3. CASE pc'[t] = "start"
      <4>1. Cardinality(Range(ks)) = Len(ks)
        BY <3>1, <3>3
      <4>2. \/ \E k \in Keys : ks = <<k>>
            \/ \E k, l \in Keys : k # l /\ ks = <<k, l>>
        <5>1. ASSUME NEW k \in Keys, NEW l \in Keys, ks = <<k, l>>
              PROVE  k # l
          BY <4>1, <5>1, DistinctKeys, Zenon
        <5> QED
          BY <5>1, ArgumentShape
      <4> QED
        BY <3>1, <3>3, <4>2 DEF InOrder, Saving, Told, Checks
    <3> QED
      BY <3>1, <3>2, <3>3
  <2>2. CASE GivesUp(t)
    BY <1>2, <2>2 DEF GivesUp, Saving, Told, Checks
  <2>3. ASSUME NEW to \in PCs, Passes(t, to) PROVE InOrder(t)'
    <3>1. pc'[t] = to /\ UNCHANGED <<keys[t], records[t], password[t]>>
      BY <2>3 DEF Passes
    <3>2. CASE pc[t] = "start"
      BY <1>0, <2>3, <3>1, <3>2
      DEF Passes, InOrder, Saving, Told, Checks
    <3>3. CASE pc[t] # "start"
      BY <1>2, <2>3, <3>1, <3>3 DEF Passes, Saving, Told, Checks
    <3> QED
      BY <3>2, <3>3
  <2>4. CASE Accepts(t)
    BY <1>0, <2>4 DEF Accepts, InOrder, Saving, Told, Checks
  <2>5. ASSUME NEW i \in 1 .. Len(keys[t]), Seals(t, i) PROVE InOrder(t)'
    BY <1>0, <2>5, SealsInOrder
  <2>6. ASSUME NEW to \in PCs, NEW c \in Contents, Writes(t, to, c)
        PROVE  InOrder(t)'
    BY <1>2, <2>6 DEF Writes, Saving
  <2>7. CASE Installs(t)
    BY <1>2, <2>7 DEF Installs, Saving
  <2>8. CASE Receives(t)
    BY <1>2, <2>8 DEF Receives, Told, Checks
  <2> QED
    BY <1>3, <2>1, <2>2, <2>3, <2>4, <2>5, <2>6, <2>7, <2>8, SessionKinds
<1>4. ASSUME NEW s \in Sessions, SessionStep(s) PROVE InOrder(t)'
  BY <1>1, <1>3, <1>4, OtherSessions
<1>5. CASE PowerLoss
  <2>1. /\ pc'[t] = pc[t] \/ pc'[t] = "killed"
        /\ UNCHANGED <<keys[t], records[t], password[t]>>
    BY <1>5 DEF PowerLoss
  <2>2. CASE pc'[t] = "killed"
    BY <1>2, <2>1, <2>2 DEF Saving, Told, Checks
  <2> QED
    BY <1>1, <2>1, <2>2
<1> QED
  BY <1>1, <1>4, <1>5 DEF EnrollStep, Rests

\* A temporary file goes with the exception that ends its session.
LEMMA TemporaryInOrderStep ==
  ASSUME EnrollTypeOK, TemporaryInOrder, EnrollStep
  PROVE  TemporaryInOrder'
<1> USE DEF TemporaryInOrder
<1>0. pc \in [Sessions -> PCs] /\ temporary \in [Sessions -> Contents]
  BY DEF EnrollTypeOK
<1>1. ASSUME NEW s \in Sessions, SessionStep(s) PROVE TemporaryInOrder'
  <2>1. ASSUME NEW ks \in Arguments, Start(s, ks) PROVE TemporaryInOrder'
    BY <1>0, <2>1 DEF Start, Goto
  <2>2. CASE GivesUp(s)
    BY <1>0, <2>2 DEF GivesUp, Over
  <2>3. ASSUME NEW to \in PCs, Passes(s, to) PROVE TemporaryInOrder'
    BY <1>0, <2>3 DEF Passes, Told, Checks
  <2>4. CASE Accepts(s)
    BY <1>0, <2>4 DEF Accepts
  <2>5. ASSUME NEW i \in 1 .. Len(keys[s]), Seals(s, i)
        PROVE  TemporaryInOrder'
    <3>1. pc[s] \in {"first", "second"} /\ pc'[s] \in {"second", "save"}
      BY <1>0, <2>5, KeyTurn DEF Seals
    <3> QED
      BY <1>0, <2>5, <3>1 DEF Seals
  <2>6. ASSUME NEW to \in PCs, NEW c \in Contents, Writes(s, to, c)
        PROVE  TemporaryInOrder'
    BY <1>0, <2>6 DEF Writes
  <2>7. CASE Installs(s)
    BY <1>0, <2>7 DEF Installs
  <2>8. CASE Receives(s)
    BY <1>0, <2>8 DEF Receives
  <2> QED
    BY <1>1, <2>1, <2>2, <2>3, <2>4, <2>5, <2>6, <2>7, <2>8, SessionKinds
<1>2. CASE PowerLoss
  <2>1. \A t \in Sessions : /\ pc'[t] = pc[t] \/ pc'[t] = "killed"
                            /\ pc'[t] \notin {"write", "flush", "install"}
                            /\ temporary'[t] = Lost(temporary[t])
    BY <1>2 DEF PowerLoss, Over
  <2> QED
    BY <2>1 DEF Lost
<1>3. CASE Rests
  BY <1>3 DEF Rests
<1> QED
  BY <1>1, <1>2, <1>3 DEF EnrollStep

\* Only an installation changes the profile: a power failure finds it whole.
LEMMA ProfileChanges ==
  ASSUME EnrollTypeOK, ProfileInOrder, EnrollStep
  PROVE  \/ UNCHANGED profile
         \/ \E s \in Sessions : Installs(s)
<1>1. ASSUME NEW s \in Sessions, SessionStep(s)
      PROVE  UNCHANGED profile \/ Installs(s)
  BY <1>1, SessionKinds DEF Start, GivesUp, Passes, Accepts, Seals, Writes,
                            Receives
<1>2. CASE PowerLoss
  <2>1. CASE profile # None
    <3>1. /\ profile \in [records : Seq(Record), content : Contents]
          /\ profile.content = "flushed"
      BY <2>1 DEF EnrollTypeOK, ProfileInOrder
    <3>2. [profile EXCEPT !.content = Lost(@)] = profile
      BY <3>1 DEF Lost
    <3> QED
      BY <1>2, <2>1, <3>2 DEF PowerLoss
  <2> QED
    BY <1>2, <2>1 DEF PowerLoss
<1> QED
  BY <1>1, <1>2 DEF EnrollStep, Rests

\* The installed profile stays that of its session.
LEMMA ProfileInOrderStep ==
  ASSUME EnrollTypeOK, SessionInOrder, TemporaryInOrder, ProfileInOrder,
         EnrollStep
  PROVE  ProfileInOrder'
<1>0. ASSUME NEW s \in Sessions, pc[s] \in Past, Whole(s)
      PROVE  pc'[s] \in Past /\ Whole(s)' /\ records'[s] = records[s]
  <2>1. pc'[s] \in Past /\ UNCHANGED <<keys[s], password[s], records[s]>>
    BY <1>0, PastStays
  <2> QED
    BY <1>0, <2>1 DEF Whole, OneKey, TwoKeys
<1>1. CASE UNCHANGED profile
  BY <1>0, <1>1 DEF ProfileInOrder
<1>2. ASSUME NEW s \in Sessions, Installs(s) PROVE ProfileInOrder'
  <2>1. /\ profile'.content = "flushed" /\ profile'.records = records[s]
    BY <1>2 DEF Installs, TemporaryInOrder
  <2>2. pc[s] \in Past /\ Whole(s)
    BY <1>2 DEF Installs, SessionInOrder, InOrder, Past, Saving
  <2> QED
    BY <1>0, <2>1, <2>2 DEF ProfileInOrder
<1> QED
  BY <1>1, <1>2, ProfileChanges

\* Who was told about a profile was told about the one that stays.
LEMMA ToldInOrderStep ==
  ASSUME EnrollTypeOK, ProfileInOrder, ToldInOrder, EnrollStep
  PROVE  ToldInOrder'
<1> USE DEF Told, Checks
<1>0. /\ pc \in [Sessions -> PCs] /\ receipt \in Sessions \cup {None}
  BY DEF EnrollTypeOK
<1>1. profile # None => UNCHANGED profile
  BY ProfileChanges DEF Installs
<1>2. ASSUME NEW t \in Sessions, pc'[t] \in Told, pc[t] \in Told,
             pc'[t] \in Checks \cup {"verified"} => Len(keys[t]) = 2
      PROVE  /\ profile' # None /\ profile'.records = records'[t]
             /\ pc'[t] \in Checks \cup {"verified"} => Len(keys'[t]) = 2
  <2>1. UNCHANGED <<keys[t], records[t]>>
    BY <1>2, PastStays DEF Past
  <2> QED
    BY <1>1, <1>2, <2>1 DEF ToldInOrder
<1>3. ASSUME NEW t \in Sessions, pc'[t] = pc[t], pc[t] \in Told
      PROVE  /\ profile' # None /\ profile'.records = records'[t]
             /\ pc'[t] \in Checks \cup {"verified"} => Len(keys'[t]) = 2
  BY <1>2, <1>3 DEF ToldInOrder
<1>4. ASSUME NEW s \in Sessions, SessionStep(s), pc'[s] \in Told
      PROVE  /\ profile' # None /\ profile'.records = records'[s]
             /\ pc'[s] \in Checks \cup {"verified"} => Len(keys'[s]) = 2
  <2>1. ~GivesUp(s) /\ ~Accepts(s) /\ ~Installs(s)
    BY <1>0, <1>4 DEF GivesUp, Accepts, Installs
  <2>2. ASSUME NEW ks \in Arguments, Start(s, ks) PROVE FALSE
    BY <1>0, <1>4, <2>2 DEF Start, Goto
  <2>3. ASSUME NEW i \in 1 .. Len(keys[s]), Seals(s, i) PROVE FALSE
    <3>1. pc'[s] \in {"second", "save"}
      BY <1>0, <2>3, KeyTurn DEF Seals
    <3> QED
      BY <1>4, <3>1
  <2>4. ASSUME NEW to \in PCs, NEW c \in Contents, Writes(s, to, c)
        PROVE  FALSE
    BY <1>0, <1>4, <2>4 DEF Writes
  <2>5. ASSUME NEW to \in PCs, Passes(s, to)
        PROVE  /\ profile' # None /\ profile'.records = records'[s]
               /\ pc'[s] \in Checks \cup {"verified"} => Len(keys'[s]) = 2
    <3>1. /\ pc'[s] = to /\ UNCHANGED <<keys, records, profile>>
      BY <1>0, <2>5 DEF Passes
    <3> QED
      BY <1>4, <2>5, <3>1 DEF Passes, ToldInOrder
  <2>6. ASSUME Receives(s)
        PROVE  /\ profile' # None /\ profile'.records = records'[s]
               /\ pc'[s] \in Checks \cup {"verified"} => Len(keys'[s]) = 2
    BY <2>6 DEF Receives, ToldInOrder
  <2> QED
    BY <1>4, <2>1, <2>2, <2>3, <2>4, <2>5, <2>6, SessionKinds
<1>5. \A t \in Sessions : pc'[t] \in Told =>
         /\ profile' # None /\ profile'.records = records'[t]
         /\ pc'[t] \in Checks \cup {"verified"} => Len(keys'[t]) = 2
  <2>1. CASE PowerLoss
    <3>1. \A t \in Sessions : pc'[t] = pc[t] \/ pc'[t] = "killed"
      BY <2>1 DEF PowerLoss
    <3> QED
      BY <1>3, <3>1
  <2>2. CASE Rests
    BY <1>3, <2>2 DEF Rests
  <2>3. ASSUME NEW s \in Sessions, SessionStep(s), NEW t \in Sessions,
               pc'[t] \in Told
        PROVE  /\ profile' # None /\ profile'.records = records'[t]
               /\ pc'[t] \in Checks \cup {"verified"} => Len(keys'[t]) = 2
    BY <1>3, <1>4, <2>3, OtherSessions
  <2> QED
    BY <2>1, <2>2, <2>3 DEF EnrollStep
<1>6. receipt' # None => pc'[receipt'] = "verified"
  <2>1. ASSUME NEW s \in Sessions, SessionStep(s), UNCHANGED receipt,
               receipt # None
        PROVE  pc'[receipt] = "verified"
    <3>0. receipt \in Sessions /\ pc[receipt] = "verified"
      BY <1>0, <2>1 DEF ToldInOrder
    <3>1. pc[s] # "verified"
      <4>1. ASSUME NEW i \in 1 .. Len(keys[s]), Seals(s, i)
            PROVE  pc[s] # "verified"
        BY <4>1, KeyTurn DEF Seals
      <4> QED
        BY <2>1, <4>1, SessionKinds
        DEF Start, GivesUp, Passes, Accepts, Writes, Installs, Receives, Over
    <3> QED
      BY <2>1, <3>0, <3>1, OtherSessions
  <2>2. ASSUME NEW s \in Sessions, SessionStep(s)
        PROVE  UNCHANGED receipt \/ Receives(s)
    BY <2>2, SessionKinds
    DEF Start, GivesUp, Passes, Accepts, Seals, Writes, Installs
  <2>3. ASSUME NEW s \in Sessions, Receives(s)
        PROVE  receipt' = s /\ pc'[s] = "verified"
    BY <1>0, <2>3 DEF Receives
  <2>4. ASSUME PowerLoss, receipt' # None PROVE pc'[receipt'] = "verified"
    BY <1>0, <2>4 DEF PowerLoss, ToldInOrder, Over
  <2>5. ASSUME Rests, receipt' # None PROVE pc'[receipt'] = "verified"
    BY <2>5 DEF Rests, ToldInOrder
  <2> QED
    BY <2>1, <2>2, <2>3, <2>4, <2>5 DEF EnrollStep
<1> QED
  BY <1>5, <1>6 DEF ToldInOrder

-------------------------------------------------------------------------------
(* The scripts. *)

\* What the steps of the whole system are for the sessions.
LEMMA StepsOfSessions ==
  ASSUME EnrollTypeOK, [InstallNext]_<<vars, installVars>>
  PROVE  EnrollStep /\ pin' \in Pins
<1> USE DEF EnrollTypeOK
<1>1. ASSUME NEW s \in Sessions, SessionStep(s) PROVE UNCHANGED pin
  BY <1>1 DEF SessionStep, Start, CheckExists, Prompt, EnrollKey,
              CreateTemporary, WriteTemporary, FlushTemporary, Install, Reload,
              Check, WriteReceipt, Kill, Stop, StopAndDelete
<1>2. CASE ChangePin
  BY <1>2 DEF ChangePin, sessionVars, EnrollStep, Rests
<1>3. CASE UNCHANGED vars
  BY <1>3 DEF vars, sessionVars, EnrollStep, Rests
<1>4. CASE LosePower
  BY <1>4 DEF LosePower, PowerLoss, EnrollStep
<1> QED
  BY <1>1, <1>2, <1>3, <1>4 DEF InstallNext, EnrollStep

\* A profile of two keys is never replaced by anything else.
LEMMA TwoKeyProfileStays ==
  ASSUME EnrollTypeOK, ProfileInOrder, EnrollStep, TwoKeyProfile
  PROVE  TwoKeyProfile'
<1>1. UNCHANGED profile
  BY ProfileChanges DEF TwoKeyProfile, Installs
<1>2. PICK s \in Sessions : /\ pc[s] \in Past /\ password[s] \in Pins
                            /\ \E k, l \in Keys : TwoKeys(s, k, l)
                            /\ profile.records = records[s]
  BY DEF TwoKeyProfile
<1>3. pc'[s] \in Past /\ UNCHANGED <<keys[s], password[s], records[s]>>
  BY <1>2, PastStays
<1>4. \E k, l \in Keys : TwoKeys(s, k, l)'
  BY <1>2, <1>3 DEF TwoKeys
<1> QED
  BY <1>1, <1>2, <1>3, <1>4 DEF TwoKeyProfile

\* The receipt that the installer asks for is about a profile of two keys.
LEMMA ReceiptOfTwoKeys ==
  ASSUME EnrollTypeOK, SessionInOrder, ToldInOrder, receipt # None
  PROVE  TwoKeyProfile
<1>1. receipt \in Sessions /\ pc[receipt] = "verified"
  BY DEF EnrollTypeOK, ToldInOrder
<1>2. /\ profile # None /\ profile.records = records[receipt]
      /\ Len(keys[receipt]) = 2
  BY <1>1 DEF ToldInOrder, Told
<1>3. Whole(receipt)
  BY <1>1 DEF SessionInOrder, InOrder, Told
<1>4. ASSUME NEW k \in Keys, OneKey(receipt, k) PROVE FALSE
  BY <1>2, <1>4 DEF OneKey
<1>5. \E k, l \in Keys : TwoKeys(receipt, k, l)
  BY <1>3, <1>4 DEF Whole
<1> QED
  BY <1>1, <1>2, <1>3, <1>5 DEF TwoKeyProfile, Whole, Past, Told

\* What a command does to the registry: nothing, or one key of it.
SetsClass(c)      == registry' = [registry EXCEPT !.class = c]
SetsRegistered(b) == registry' = [registry EXCEPT !.registered = b]

\* A script's command changes one of the two registry keys.
LEMMA RegistryChanges ==
  ASSUME registry \in Registries
  PROVE  /\ \A c \in {"none", "bare", "complete"} : SetsClass(c) =>
               /\ registry' \in Registries /\ registry'.class = c
               /\ registry'.registered = registry.registered
         /\ \A b \in BOOLEAN : SetsRegistered(b) =>
               /\ registry' \in Registries /\ registry'.registered = b
               /\ registry'.class = registry.class
  BY DEF Registries, SetsClass, SetsRegistered

ScriptTypeOK ==
    /\ script \in ScriptStates
    /\ files \in {"none", "verified", "unverified", "unflushed"}
    /\ registry \in Registries /\ saved \in Registries

\* Each command of the scripts keeps their order.
LEMMA ScriptInOrderStep ==
  ASSUME InstallTypeOK, InstallInvariant, TwoKeyProfile => TwoKeyProfile',
         ScriptStep \/ LosePower \/ UNCHANGED installVars
  PROVE  ScriptTypeOK' /\ ScriptInOrder' /\ RegistryInOrder'
<1>0. /\ script \in ScriptStates /\ registry \in Registries
      /\ saved \in Registries
      /\ files \in {"none", "verified", "unverified", "unflushed"}
      /\ EnrollTypeOK /\ SessionInOrder /\ ToldInOrder
      /\ ScriptInOrder /\ RegistryInOrder
  BY DEF InstallTypeOK, InstallInvariant, EnrollInvariant
<1> USE <1>0 DEF ScriptTypeOK, ScriptStates, ScriptInOrder, RegistryInOrder,
                 From
<1>1. CASE InstallStart
  <2>1. TwoKeyProfile
    BY <1>1, ReceiptOfTwoKeys DEF InstallStart
  <2>2. ~registry.registered /\ ~saved.registered
    BY <1>1 DEF InstallStart
  <2> QED
    BY <1>1, <2>1, <2>2 DEF InstallStart
<1>2. CASE CopyFiles
  <2>1. ~registry.registered /\ ~saved.registered
    BY <1>2 DEF CopyFiles
  <2> QED
    BY <1>2, <2>1 DEF CopyFiles
<1>3. CASE CreateClass
  <2>1. UNCHANGED registry \/ SetsClass("bare")
    BY <1>3 DEF CreateClass, SetsClass
  <2>2. \/ UNCHANGED registry
        \/ /\ registry' \in Registries /\ registry'.class = "bare"
           /\ registry'.registered = registry.registered
    BY <2>1, RegistryChanges
  <2> QED
    BY <1>3, <2>2 DEF CreateClass
<1>4. CASE CreateServer
  <2>1. \/ script' = "register" /\ SetsClass("complete")
        \/ script' = "remove class" /\ UNCHANGED registry
    BY <1>4 DEF CreateServer, SetsClass
  <2>2. \/ UNCHANGED registry /\ script' = "remove class"
        \/ /\ script' = "register" /\ registry' \in Registries
           /\ registry'.class = "complete"
           /\ registry'.registered = registry.registered
    BY <2>1, RegistryChanges
  <2> QED
    BY <1>4, <2>2 DEF CreateServer
<1>5. CASE Register
  <2>1. \/ script' = "report" /\ SetsRegistered(TRUE)
        \/ script' = "remove class" /\ UNCHANGED registry
    BY <1>5 DEF Register, SetsRegistered
  <2>2. \/ UNCHANGED registry /\ script' = "remove class"
        \/ /\ script' = "report" /\ registry' \in Registries
           /\ registry'.registered = TRUE
           /\ registry'.class = registry.class
    BY <2>1, RegistryChanges
  <2> QED
    BY <1>5, <2>2 DEF Register
<1>6. CASE Report
  BY <1>6 DEF Report
<1>7. CASE UnregisterStart
  BY <1>7 DEF UnregisterStart
<1>8. CASE RemoveRegistration
  <2>1. \/ script' = "remove class" /\ SetsRegistered(FALSE)
        \/ script' = "idle" /\ UNCHANGED registry
    BY <1>8 DEF RemoveRegistration, SetsRegistered
  <2>2. \/ UNCHANGED registry /\ script' = "idle"
        \/ /\ script' = "remove class" /\ registry' \in Registries
           /\ registry'.registered = FALSE
           /\ registry'.class = registry.class
    BY <2>1, RegistryChanges
  <2> QED
    BY <1>8, <2>2 DEF RemoveRegistration
<1>9. CASE RemoveClass
  <2>1. UNCHANGED registry \/ SetsClass("none")
    BY <1>9 DEF RemoveClass, SetsClass
  <2>2. \/ UNCHANGED registry
        \/ /\ registry' \in Registries /\ registry'.class = "none"
           /\ registry'.registered = registry.registered
    BY <2>1, RegistryChanges
  <2> QED
    BY <1>9, <2>2 DEF RemoveClass
<1>10. CASE KillScript
  BY <1>10 DEF KillScript
<1>11. CASE WriteBack
  BY <1>11 DEF WriteBack
<1>12. CASE LosePower
  BY <1>12 DEF LosePower
<1>13. CASE UNCHANGED installVars
  BY <1>13 DEF installVars
<1> QED
  BY <1>1, <1>2, <1>3, <1>4, <1>5, <1>6, <1>7, <1>8, <1>9, <1>10, <1>11,
     <1>12, <1>13 DEF ScriptStep

-------------------------------------------------------------------------------
(* The theorems. *)

\* The invariant holds at the start.
LEMMA InstallInvariantInit ==
  ASSUME InstallInit
  PROVE  InstallTypeOK /\ InstallInvariant
<1> USE EnrollmentAssumption DEF InstallInit, Init, Empty
<1>1. InstallTypeOK
  BY DEF InstallTypeOK, EnrollTypeOK, PCs, Contents, ScriptStates, Registries
<1>2. EnrollInvariant
  BY DEF EnrollInvariant, SessionInOrder, InOrder, TemporaryInOrder,
         ProfileInOrder, ToldInOrder, Saving, Told, Checks
<1>3. ScriptInOrder /\ RegistryInOrder
  BY DEF ScriptInOrder, RegistryInOrder
<1> QED
  BY <1>1, <1>2, <1>3 DEF InstallInvariant

\* Every step of the sessions, the scripts and the environment keeps it.
LEMMA InstallInvariantStep ==
  ASSUME InstallTypeOK, InstallInvariant, [InstallNext]_<<vars, installVars>>
  PROVE  InstallTypeOK' /\ InstallInvariant'
<1>0. /\ EnrollTypeOK /\ SessionInOrder /\ TemporaryInOrder
      /\ ProfileInOrder /\ ToldInOrder
  BY DEF InstallTypeOK, InstallInvariant, EnrollInvariant
<1>1. EnrollStep /\ pin' \in Pins
  BY <1>0, StepsOfSessions
<1>2. EnrollTypeOK'
  BY <1>0, <1>1, EnrollTypeStep
<1>3. EnrollInvariant'
  BY <1>0, <1>1, SessionInOrderStep, TemporaryInOrderStep, ProfileInOrderStep,
     ToldInOrderStep DEF EnrollInvariant
<1>4. TwoKeyProfile => TwoKeyProfile'
  BY <1>0, <1>1, TwoKeyProfileStays
<1>5. ScriptStep \/ LosePower \/ UNCHANGED installVars
  BY DEF InstallNext
<1>6. ScriptTypeOK' /\ ScriptInOrder' /\ RegistryInOrder'
  BY <1>4, <1>5, ScriptInOrderStep
<1> QED
  BY <1>2, <1>3, <1>6 DEF InstallTypeOK, ScriptTypeOK, InstallInvariant

\* The inductive invariant holds of every enrolment and installation, however
\* the sessions and scripts interleave, fail, are killed or lose power.
THEOREM InstallInvariantHolds ==
  InstallSpec => [](InstallTypeOK /\ InstallInvariant)
<1>1. InstallInit => InstallTypeOK /\ InstallInvariant
  BY InstallInvariantInit
<1>2. InstallTypeOK /\ InstallInvariant /\ [InstallNext]_<<vars, installVars>>
      => InstallTypeOK' /\ InstallInvariant'
  BY InstallInvariantStep
<1> QED
  BY <1>1, <1>2, PTL DEF InstallSpec

\* Saving is all or nothing: the installed profile is never torn, and a
\* session that stopped by an exception has left no temporary file.
THEOREM SavesAreAtomic == InstallSpec => []SaveIsAtomic
<1>1. InstallTypeOK /\ InstallInvariant => SaveIsAtomic
  BY DEF InstallInvariant, EnrollInvariant, ProfileInOrder, TemporaryInOrder,
         SaveIsAtomic
<1> QED
  BY <1>1, InstallInvariantHolds, PTL

\* Each key of a saved profile opens it, alone, to the credential that Windows
\* accepted in the session that saved it.
THEOREM EitherKeyAlwaysUnlocks == InstallSpec => []EitherKeyUnlocks
<1>1. ASSUME ProfileInOrder, profile # None PROVE EitherKeyUnlocks
  <2>1. PICK s \in Sessions : Whole(s) /\ profile.records = records[s]
    BY <1>1 DEF ProfileInOrder
  <2>2. password[s] \in Pins
    BY <2>1 DEF Whole
  <2>3. ASSUME NEW k \in Keys, OneKey(s, k)
        PROVE  /\ Len(records[s]) = Len(keys[s])
               /\ \A m \in Range(keys[s]) :
                     unlockAccount(profile.records, m) = password[s]
    <3>1. /\ profile.records = <<Sealed(k, password[s])>>
          /\ records[s] = <<Sealed(k, password[s])>> /\ keys[s] = <<k>>
      BY <2>1, <2>3 DEF OneKey
    <3>2. Len(records[s]) = Len(keys[s]) /\ Range(keys[s]) = {k}
      BY <3>1 DEF Range
    <3>3. unlockAccount(profile.records, k) = password[s]
      BY <2>2, <3>1, UnlockOne
    <3> QED
      BY <3>2, <3>3
  <2>4. ASSUME NEW k \in Keys, NEW l \in Keys, TwoKeys(s, k, l)
        PROVE  /\ Len(records[s]) = Len(keys[s])
               /\ \A m \in Range(keys[s]) :
                     unlockAccount(profile.records, m) = password[s]
    <3>1. /\ profile.records = <<Sealed(k, password[s]), Sealed(l, password[s])>>
          /\ records[s] = <<Sealed(k, password[s]), Sealed(l, password[s])>>
          /\ keys[s] = <<k, l>> /\ k # l
      BY <2>1, <2>4 DEF TwoKeys
    <3>2. Len(records[s]) = Len(keys[s]) /\ Range(keys[s]) = {k, l}
      BY <3>1 DEF Range
    <3>3. /\ unlockAccount(profile.records, k) = password[s]
          /\ unlockAccount(profile.records, l) = password[s]
      BY <2>2, <3>1, UnlockTwo
    <3> QED
      BY <3>2, <3>3
  <2>5. /\ Len(records[s]) = Len(keys[s])
        /\ \A m \in Range(keys[s]) :
              unlockAccount(profile.records, m) = password[s]
    BY <2>1, <2>3, <2>4 DEF Whole
  <2> QED
    BY <2>1, <2>5 DEF EitherKeyUnlocks
<1>2. InstallTypeOK /\ InstallInvariant => EitherKeyUnlocks
  <2>1. profile = None => EitherKeyUnlocks
    BY DEF EitherKeyUnlocks
  <2> QED
    BY <1>1, <2>1 DEF InstallInvariant, EnrollInvariant
<1> QED
  BY <1>2, InstallInvariantHolds, PTL

\* Whoever was told that the profile is saved, and the receipt, are about the
\* profile that is on the disk.
THEOREM ReceiptsDescribeProfile == InstallSpec => []ReceiptDescribesProfile
<1>1. ASSUME EnrollTypeOK, ToldInOrder, ProfileInOrder
      PROVE  ReceiptDescribesProfile
  <2> SUFFICES ASSUME NEW s \in Sessions,
                      pc[s] \in Told \/ receipt = s
               PROVE  Loadable /\ profile.records = records[s]
    BY DEF ReceiptDescribesProfile, Told
  <2>1. pc[s] \in Told
    BY <1>1, EnrollmentAssumption DEF ToldInOrder, Told
  <2> QED
    BY <1>1, <2>1 DEF ToldInOrder, ProfileInOrder, Loadable
<1>2. InstallTypeOK /\ InstallInvariant => ReceiptDescribesProfile
  BY <1>1 DEF InstallTypeOK, InstallInvariant, EnrollInvariant
<1> QED
  BY <1>2, InstallInvariantHolds, PTL

\* A provider that Windows loads, now or after a power failure, can be loaded
\* and signs in with either of two keys.
THEOREM RegisteredAlwaysSignsIn == InstallSpec => []RegisteredCanSignIn
<1>1. ASSUME TwoKeyProfile, ProfileInOrder
      PROVE  /\ Loadable
             /\ \E k, l \in Keys :
                   /\ k # l
                   /\ {k, l} = {rec.key : rec \in Range(profile.records)}
                   /\ unlockAccount(profile.records, k) # None
                   /\ unlockAccount(profile.records, l) # None
  <2>1. PICK s \in Sessions : /\ password[s] \in Pins
                              /\ \E k, l \in Keys : TwoKeys(s, k, l)
                              /\ profile.records = records[s]
    BY <1>1 DEF TwoKeyProfile
  <2>2. PICK k \in Keys, l \in Keys : TwoKeys(s, k, l)
    BY <2>1
  <2>3. /\ k # l
        /\ profile.records = <<Sealed(k, password[s]), Sealed(l, password[s])>>
    BY <2>1, <2>2 DEF TwoKeys
  <2>4. Range(profile.records) = {Sealed(k, password[s]), Sealed(l, password[s])}
    BY <2>3 DEF Range
  <2>5. {k, l} = {rec.key : rec \in Range(profile.records)}
    BY <2>1, <2>4, SealedRecord
  <2>6. /\ unlockAccount(profile.records, k) = password[s]
        /\ unlockAccount(profile.records, l) = password[s]
    BY <2>1, <2>3, UnlockTwo
  <2>7. password[s] # None
    BY <2>1, EnrollmentAssumption
  <2>8. Loadable
    BY <1>1 DEF TwoKeyProfile, ProfileInOrder, Loadable
  <2> QED
    BY <2>3, <2>5, <2>6, <2>7, <2>8
<1>2. InstallTypeOK /\ InstallInvariant => RegisteredCanSignIn
  BY <1>1 DEF InstallInvariant, EnrollInvariant, RegistryInOrder,
              RegisteredCanSignIn
<1> QED
  BY <1>2, InstallInvariantHolds, PTL

\* No step replaces or removes an installed profile.
THEOREM ProfilesStay == InstallSpec => FirstProfileStays
<1>1. InstallTypeOK /\ InstallInvariant /\ [InstallNext]_<<vars, installVars>>
      => [profile # None => /\ profile' # None
                            /\ profile'.records = profile.records]_vars
  <2> SUFFICES ASSUME InstallTypeOK, InstallInvariant,
                      [InstallNext]_<<vars, installVars>>, profile # None
               PROVE  UNCHANGED profile
    OBVIOUS
  <2>1. EnrollTypeOK /\ ProfileInOrder
    BY DEF InstallTypeOK, InstallInvariant, EnrollInvariant
  <2> QED
    BY <2>1, StepsOfSessions, ProfileChanges DEF Installs
<1> QED
  BY <1>1, InstallInvariantHolds, PTL DEF InstallSpec, FirstProfileStays

===============================================================================

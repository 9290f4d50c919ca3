----------------------------- MODULE ProfileCodec -----------------------------
(***************************************************************************)
(* The format of an enrolled account's profile: encodeProfile and          *)
(* decodeProfile of src/src/profile.cpp, a record per enrolled key and an  *)
(* outer frame when there are several.  A file is a sequence of cells: one *)
(* for a 32-bit number, for a magic, and for each fixed array (they hold   *)
(* any value), one per unit of a counted text or byte string.  The limits  *)
(* are constants, scaled down for TLC; what has to hold between them is    *)
(* LimitsFit, which the code's own limits meet.                            *)
(*                                                                         *)
(* A throw is the empty set: encodeProfile gives the set of its file, and  *)
(* decodeProfile the set of its profile.                                   *)
(***************************************************************************)
EXTENDS Integers, Sequences, FiniteSets

\* A definition marked as a mutant is a deliberately wrong variant of the one
\* that follows it, used by no specification.

CONSTANTS
    StringLimit,     \* 512 characters of a SID or account name
    CredentialMin,   \* 16 ...
    CredentialLimit, \* ... to 2048 bytes of a credential identifier
    CipherLimit,     \* 8192 bytes of ciphertext
    BindingLimit,    \* 8192
    RecordLimit,     \* 16384
    MultiLimit,      \* 60000
    KeyLimit,        \* 8 enrolled keys
    Sids, Accounts,  \* the texts that pass validateSid, and the prefix test
    Cells,           \* values of the units
    Profiles,        \* the profiles to be saved
    MaxEdits         \* bound: changes to the file

\* The magics as the numbers their four bytes make, the first one lowest.
Multi    == 38623059                        \* 'S','W','M',2
Magic(k) == 4282195 + 16777216 * k          \* 'S','W','A',kind
Kinds    == {1, 2}
KindOf(magic) == CHOOSE k \in Kinds : Magic(k) = magic

\* The largest binding and record encodeProfile can make fit the limits of
\* decodeProfile, and no binding it reads is so large that its length is the
\* magic of the outer frame.
LimitsFit(string, credential, cipher, binding, record) ==
    /\ 6 + 2 * string + credential <= binding
    /\ 10 + 2 * string + credential + cipher <= record
    /\ binding < Multi

ASSUME LimitsAssumption ==
    /\ {StringLimit, CredentialMin, CredentialLimit, CipherLimit, BindingLimit,
        RecordLimit, MultiLimit, KeyLimit} \subseteq Nat
    /\ LimitsFit(StringLimit, CredentialLimit, CipherLimit, BindingLimit,
                 RecordLimit)

\* The limits the code has, counted in cells; in bytes the largest binding has
\* 4208 of 8192, and the largest record 12436 of 16384.
ASSUME CodeLimitsAssumption == LimitsFit(512, 2048, 8192, 8192, 16384)

VARIABLES
    saved,      \* the profile that was saved
    file,       \* the clear content of its file
    edits       \* how often it was changed since

vars == <<saved, file, edits>>

-------------------------------------------------------------------------------
(* Encoding. *)

Counted(s) == <<Len(s)>> \o s

PlainText(s) == Len(s) \in 1 .. StringLimit /\ \A i \in DOMAIN s : s[i] # 0

\* profileBinding() of the record of one key.
profileBinding(p, k) ==
    IF /\ p.sid \in Sids /\ p.account \in Accounts
       /\ Len(k.credential) \in CredentialMin .. CredentialLimit
       /\ p.kind \in Kinds
       /\ PlainText(p.sid) /\ PlainText(p.account)
    THEN {<<Magic(p.kind)>> \o Counted(p.sid) \o Counted(p.account)
             \o Counted(k.credential) \o <<k.publicKey, k.salt>>}
    ELSE {}

encodeRecord(p, k) ==
    {Counted(binding) \o <<k.nonce, k.tag>> \o Counted(k.ciphertext) :
        binding \in {b \in profileBinding(p, k) :
                        Len(k.ciphertext) \in 1 .. CipherLimit}}

\* The records of the keys i .. Len(p.keys) one after the other, each with
\* its length; empty if one of them cannot be encoded.
Frames(p) ==
    LET from[i \in 1 .. Len(p.keys) + 1] ==
          IF i > Len(p.keys) THEN {<<>>}
          ELSE {Counted(r) \o rest : r \in encodeRecord(p, p.keys[i]),
                                     rest \in from[i + 1]}
    IN  from[1]

Duplicates(p) == \E i, j \in DOMAIN p.keys :
                    i < j /\ p.keys[i].credential = p.keys[j].credential

\* Mutant of encodeProfile: only decodeProfile knows the size limit.
EncodeUnlimited(p) ==
    IF Len(p.keys) = 1 THEN encodeRecord(p, p.keys[1])
    ELSE IF Len(p.keys) > KeyLimit \/ Duplicates(p) THEN {}
    ELSE {<<Multi, Len(p.keys)>> \o frames : frames \in Frames(p)}

encodeProfile(p) ==
    IF Len(p.keys) = 1 THEN encodeRecord(p, p.keys[1])
    ELSE IF Len(p.keys) > KeyLimit \/ Duplicates(p) THEN {}
    ELSE {f \in {<<Multi, Len(p.keys)>> \o frames : frames \in Frames(p)} :
             Len(f) <= MultiLimit}

-------------------------------------------------------------------------------
(* Decoding.  A Reader at position i of data: the next n cells, if there are *)
(* so many, and the next number, -1 standing for the throw of take().        *)

CanTake(data, i, n) == n \in 0 .. Len(data) - i
Number(data, i)     == IF CanTake(data, i, 1) THEN data[i + 1] ELSE -1
Take(data, i, n)    == SubSeq(data, i + 1, i + n)

\* A counted field that begins at i and has an admissible length.
HasField(data, i, lengths) ==
    /\ Number(data, i) \in lengths
    /\ CanTake(data, i + 1, Number(data, i))
Field(data, i)   == Take(data, i + 1, Number(data, i))
FieldEnd(data, i) == i + 1 + Number(data, i)

\* Mutant of decodeRecord's end: data after the ciphertext is ignored.
EndsAnywhere(data, i) == i <= Len(data)

EndsAt(data, i) == i = Len(data)

\* decodeProfile() of a single record.
decodeRecord(f) ==
    LET b  == Field(f, 0)                   \* the binding
        i1 == FieldEnd(b, 1)                \* after the SID,
        i2 == FieldEnd(b, i1)               \* the account
        i3 == FieldEnd(b, i2)               \* and the credential
        o  == FieldEnd(f, 0) + 2            \* after nonce and tag
        p  == [kind |-> KindOf(b[1]), sid |-> Field(b, 1),
               account |-> Field(b, i1),
               keys |-> <<[credential |-> Field(b, i2), publicKey |-> b[i3 + 1],
                           salt |-> b[i3 + 2], nonce |-> f[o - 1],
                           tag |-> f[o], ciphertext |-> Field(f, o)]>>]
    IN  IF /\ Len(f) <= RecordLimit
           /\ HasField(f, 0, 0 .. BindingLimit)
           /\ Number(b, 0) \in {Magic(k) : k \in Kinds}
           /\ HasField(b, 1, 1 .. StringLimit) /\ PlainText(Field(b, 1))
           /\ HasField(b, i1, 1 .. StringLimit) /\ PlainText(Field(b, i1))
           /\ HasField(b, i2, CredentialMin .. CredentialLimit)
           /\ i3 + 2 = Len(b)
           /\ CanTake(f, o - 2, 2)
           /\ HasField(f, o, 1 .. CipherLimit)
           /\ EndsAt(f, FieldEnd(f, o))
           /\ profileBinding(p, p.keys[1]) = {b}
        THEN {p} ELSE {}

SameIdentity(p, q) ==
    p.sid = q.sid /\ p.account = q.account /\ p.kind = q.kind

\* The loop over the records of the outer frame: after i of them, the
\* position and the set of the profile so far.
Records(f, count) ==
    LET read[i \in 0 .. count] ==
          IF i = 0 THEN [at |-> 2, got |-> {}]
          ELSE LET was == read[i - 1]
                   r   == Field(f, was.at)
               IN  IF /\ i > 1 => was.got # {}
                      /\ HasField(f, was.at, 2 .. RecordLimit)
                      /\ r[1] # Multi
                   THEN [at  |-> FieldEnd(f, was.at),
                         got |-> IF i = 1 THEN decodeRecord(r)
                                 ELSE {[p EXCEPT !.keys = @ \o q.keys] :
                                          p \in was.got, q \in
                                          {s \in decodeRecord(r) :
                                             \A p \in was.got :
                                                SameIdentity(s, p)}}]
                   ELSE [at |-> 0, got |-> {}]
    IN  read[count]

decodeProfile(f) ==
    IF Number(f, 0) = Multi
    THEN IF Len(f) <= MultiLimit /\ Number(f, 1) \in 2 .. KeyLimit
         THEN LET all == Records(f, Number(f, 1))
              IN  {p \in all.got : EndsAt(f, all.at) /\ encodeProfile(p) = {f}}
         ELSE {}
    ELSE decodeRecord(f)

-------------------------------------------------------------------------------
(* The file after saveProfile, and what may become of it before loadProfile. *)

Init ==
    /\ saved \in Profiles
    /\ file \in encodeProfile(saved)
    /\ edits = 0

Edit(f) ==
    /\ edits < MaxEdits
    /\ edits' = edits + 1
    /\ file' = f
    /\ UNCHANGED saved

Truncate  == \E n \in 0 .. Len(file) - 1 : Edit(SubSeq(file, 1, n))
Extend    == \E c \in Cells : Edit(Append(file, c))
Overwrite == \E i \in DOMAIN file, c \in Cells :
                file[i] # c /\ Edit([file EXCEPT ![i] = c])
\* A record of this or of another profile is appended and counted.
AllRecords == UNION {UNION {encodeRecord(p, p.keys[i]) : i \in DOMAIN p.keys} :
                        p \in Profiles}
Splice    == /\ Number(file, 0) = Multi /\ Len(file) > 1
             /\ \E r \in AllRecords :
                   Edit([file EXCEPT ![2] = @ + 1] \o Counted(r))

Next == Truncate \/ Extend \/ Overwrite \/ Splice

Spec == Init /\ [][Next]_vars

-------------------------------------------------------------------------------
\* Every profile encodeProfile accepts is one decodeProfile gives back: no
\* enrolment that was saved is refused at the sign-in screen for a length, a
\* count or a size that only the reader limits.
SavedProfileLoads == edits = 0 => decodeProfile(file) = {saved}

\* Whatever happened to the file: if it is accepted, it is the one encoding of
\* the profile it is read as.  No cell is ignored, no record is read twice,
\* no key enrolled twice, and all records are of one identity and kind.
AcceptedIsCanonical ==
    \A p \in decodeProfile(file) : encodeProfile(p) = {file}

===============================================================================

-------------------------- MODULE ProfileCodecProofs --------------------------
(***************************************************************************)
(* What encodeProfile and decodeProfile do, for every content of the file  *)
(* and every value of the limits: all that decodeProfile accepts is        *)
(* canonical, and the record of a single key is read back as it was        *)
(* written.                                                                *)
(***************************************************************************)
EXTENDS ProfileCodec, SequenceTheorems, TLAPS

-------------------------------------------------------------------------------
(* Where the parts of a record and of a binding are. *)

\* The cells of a counted field: the length, then the units.
LEMMA CountedCells ==
  ASSUME NEW s \in Seq(Int)
  PROVE  /\ Counted(s) \in Seq(Int) /\ Len(Counted(s)) = Len(s) + 1
         /\ Counted(s)[1] = Len(s)
         /\ \A i \in 1 .. Len(s) : Counted(s)[i + 1] = s[i]
<1>1. /\ <<Len(s)>> \in Seq(Int) /\ Len(<<Len(s)>>) = 1
      /\ <<Len(s)>>[1] = Len(s) /\ Len(s) \in Nat
  OBVIOUS
<1>2. /\ Counted(s) \in Seq(Int) /\ Len(Counted(s)) = Len(s) + 1
      /\ \A i \in 1 .. Len(s) + 1 :
            Counted(s)[i] = IF i <= 1 THEN <<Len(s)>>[i] ELSE s[i - 1]
  BY <1>1, ConcatProperties DEF Counted
<1> QED
  BY <1>1, <1>2

\* Two sequences one after the other.
LEMMA ConcatCells ==
  ASSUME NEW s \in Seq(Int), NEW t \in Seq(Int)
  PROVE  /\ s \o t \in Seq(Int) /\ Len(s \o t) = Len(s) + Len(t)
         /\ \A i \in 1 .. Len(s) : (s \o t)[i] = s[i]
         /\ \A i \in 1 .. Len(t) : (s \o t)[Len(s) + i] = t[i]
<1>1. /\ s \o t \in Seq(Int) /\ Len(s \o t) = Len(s) + Len(t)
      /\ \A i \in 1 .. Len(s) + Len(t) :
            (s \o t)[i] = IF i <= Len(s) THEN s[i] ELSE t[i - Len(s)]
  BY ConcatProperties
<1>2. Len(s) \in Nat /\ Len(t) \in Nat
  OBVIOUS
<1> QED
  BY <1>1, <1>2

\* The same, with a name for the whole.
LEMMA Concatenated ==
  ASSUME NEW s \in Seq(Int), NEW t \in Seq(Int)
  PROVE  \E r \in Seq(Int) :
            /\ r = s \o t /\ Len(r) = Len(s) + Len(t)
            /\ \A i \in 1 .. Len(s) : r[i] = s[i]
            /\ \A i \in 1 .. Len(t) : r[Len(s) + i] = t[i]
<1>1. s \o t \in Seq(Int)
  BY ConcatCells
<1> WITNESS s \o t \in Seq(Int)
<1> QED
  BY ConcatCells, Zenon

\* A part that is cut out of a sequence at its place.
LEMMA Cut ==
  ASSUME NEW f \in Seq(Int), NEW s \in Seq(Int), NEW at \in Nat,
         at + Len(s) <= Len(f), \A i \in 1 .. Len(s) : f[at + i] = s[i]
  PROVE  SubSeq(f, at + 1, at + Len(s)) = s
<1> DEFINE n == Len(s)
           c == SubSeq(f, at + 1, at + n)
<1>1. n \in Nat /\ Len(f) \in Nat
  OBVIOUS
<1>2. \A i \in at + 1 .. at + n : f[i] \in Int
  <2> SUFFICES ASSUME NEW i \in at + 1 .. at + n PROVE f[i] \in Int
    OBVIOUS
  <2>1. i \in 1 .. Len(f)
    BY <1>1
  <2> QED
    BY <2>1, ElementOfSeq
<1>3. /\ c \in Seq(Int)
      /\ Len(c) = IF at + 1 <= at + n THEN at + n - (at + 1) + 1 ELSE 0
      /\ \A i \in 1 .. at + n - (at + 1) + 1 : c[i] = f[at + 1 + i - 1]
  <2> HIDE DEF n
  <2> QED
    BY <1>1, <1>2, SubSeqProperties
<1>4. Len(c) = Len(s)
  BY <1>1, <1>3
<1>5. \A i \in 1 .. Len(c) : c[i] = s[i]
  <2> SUFFICES ASSUME NEW i \in 1 .. n PROVE c[i] = s[i]
    BY <1>4
  <2>1. c[i] = f[at + 1 + i - 1] /\ at + 1 + i - 1 = at + i
    BY <1>1, <1>3
  <2> QED
    BY <2>1
<1> QED
  BY <1>3, <1>4, <1>5, SeqEqual

\* encodeRecord of a binding, nonce, tag and ciphertext.
RecordOf(b, x, y, c) == Counted(b) \o <<x, y>> \o Counted(c)

\* The cells of such a record, with n cells of binding and m of ciphertext.
RecordLayout(r, n, b, x, y, m, c) ==
    /\ r \in Seq(Int) /\ Len(r) = n + m + 4
    /\ r[1] = n /\ \A i \in 1 .. n : r[1 + i] = b[i]
    /\ r[n + 2] = x /\ r[n + 3] = y
    /\ r[n + 4] = m /\ \A i \in 1 .. m : r[n + 4 + i] = c[i]

\* Where encodeProfile puts the parts of a record.
LEMMA RecordCells ==
  ASSUME NEW b \in Seq(Int), NEW c \in Seq(Int), NEW x \in Int, NEW y \in Int,
         NEW n \in Nat, NEW m \in Nat, Len(b) = n, Len(c) = m
  PROVE  RecordLayout(RecordOf(b, x, y, c), n, b, x, y, m, c)
<1>2. <<x, y>> \in Seq(Int) /\ Len(<<x, y>>) = 2
      /\ <<x, y>>[1] = x /\ <<x, y>>[2] = y
  OBVIOUS
<1>3. PICK t \in Seq(Int) : t = Counted(b)
  BY CountedCells
<1>4. Len(t) = n + 1 /\ t[1] = n /\ \A i \in 1 .. n : t[i + 1] = b[i]
  BY <1>3, CountedCells
<1>5. PICK u \in Seq(Int) : u = Counted(c)
  BY CountedCells
<1>6. Len(u) = m + 1 /\ u[1] = m /\ \A i \in 1 .. m : u[i + 1] = c[i]
  BY <1>5, CountedCells
<1>7. PICK s \in Seq(Int) : s = t \o <<x, y>>
  BY <1>2, ConcatCells
<1>8. /\ Len(s) = n + 3
      /\ \A i \in 1 .. n + 1 : s[i] = t[i]
      /\ \A i \in 1 .. 2 : s[n + 1 + i] = <<x, y>>[i]
  BY <1>2, <1>4, <1>7, ConcatCells
<1>9. s[1] = n /\ s[n + 2] = x /\ s[n + 3] = y
      /\ \A i \in 1 .. n : s[1 + i] = b[i]
  BY <1>2, <1>4, <1>8
<1>10. PICK r \in Seq(Int) :
          /\ r = s \o u /\ Len(r) = Len(s) + Len(u)
          /\ \A i \in 1 .. Len(s) : r[i] = s[i]
          /\ \A i \in 1 .. Len(u) : r[Len(s) + i] = u[i]
  BY Concatenated, Zenon
<1>11. /\ Len(r) = n + m + 4
       /\ \A i \in 1 .. n + 3 : r[i] = s[i]
       /\ \A i \in 1 .. m + 1 : r[n + 3 + i] = u[i]
  <2>2. Len(r) = (n + 3) + (m + 1)
    BY <1>6, <1>8, <1>10, Zenon
  <2>3. (n + 3) + (m + 1) = n + m + 4
    OBVIOUS
  <2> QED
    BY <1>6, <1>8, <1>10, <2>2, <2>3, Zenon
<1>12. r[1] = n /\ r[n + 2] = x /\ r[n + 3] = y
       /\ \A i \in 1 .. n : r[1 + i] = b[i]
  <2>1. {1, n + 2, n + 3} \subseteq 1 .. n + 3
    OBVIOUS
  <2>2. \A i \in 1 .. n : 1 + i \in 1 .. n + 3
    OBVIOUS
  <2> QED
    BY <1>9, <1>11, <2>1, <2>2, Zenon
<1>13. r[n + 4] = m /\ \A i \in 1 .. m : r[n + 4 + i] = c[i]
  <2>1. r[n + 3 + 1] = u[1] /\ n + 3 + 1 = n + 4
    BY <1>11
  <2>2. ASSUME NEW i \in 1 .. m PROVE r[n + 4 + i] = c[i]
    <3>1. i + 1 \in 1 .. m + 1 /\ n + 3 + (i + 1) = n + 4 + i
      OBVIOUS
    <3>2. r[n + 3 + (i + 1)] = u[i + 1]
      BY <1>11, <3>1
    <3> QED
      BY <1>6, <3>1, <3>2
  <2> QED
    BY <1>6, <2>1, <2>2
<1>14. r = RecordOf(b, x, y, c)
  BY <1>3, <1>5, <1>7, <1>10, Zenon DEF RecordOf
<1>15. RecordLayout(r, n, b, x, y, m, c)
  BY <1>11, <1>12, <1>13, Zenon DEF RecordLayout
<1> QED
  BY <1>14, <1>15, Zenon

\* A sequence that is divided like a record is the record of its parts.
LEMMA RecordIsItsParts ==
  ASSUME NEW f \in Seq(Int), NEW n \in Nat, NEW m \in Nat,
         Len(f) = n + m + 4, f[1] = n, f[n + 4] = m
  PROVE  LET b == SubSeq(f, 2, n + 1)
             c == SubSeq(f, n + 5, n + 4 + m)
         IN  /\ Len(b) = n /\ Len(c) = m
             /\ RecordOf(b, f[n + 2], f[n + 3], c) = f
<1> DEFINE b == SubSeq(f, 2, n + 1)
           c == SubSeq(f, n + 5, n + 4 + m)
<1>1. \A i \in 1 .. n + m + 4 : f[i] \in Int
  BY ElementOfSeq
<1>2. b \in Seq(Int) /\ Len(b) = n /\ \A i \in 1 .. n : b[i] = f[1 + i]
  <2>1. \A i \in 2 .. n + 1 : f[i] \in Int
    BY <1>1
  <2>2. /\ b \in Seq(Int) /\ Len(b) = IF 2 <= n + 1 THEN n + 1 - 2 + 1 ELSE 0
        /\ \A i \in 1 .. n + 1 - 2 + 1 : b[i] = f[2 + i - 1]
    BY <2>1, SubSeqProperties
  <2> QED
    BY <2>2
<1>3. c \in Seq(Int) /\ Len(c) = m /\ \A i \in 1 .. m : c[i] = f[n + 4 + i]
  <2>1. \A i \in n + 5 .. n + 4 + m : f[i] \in Int
    BY <1>1
  <2>2. /\ c \in Seq(Int)
        /\ Len(c) = IF n + 5 <= n + 4 + m THEN n + 4 + m - (n + 5) + 1 ELSE 0
        /\ \A i \in 1 .. n + 4 + m - (n + 5) + 1 : c[i] = f[n + 5 + i - 1]
    BY <2>1, SubSeqProperties
  <2> QED
    BY <2>2
<1> HIDE DEF b, c
<1>4. f[n + 2] \in Int /\ f[n + 3] \in Int
  BY <1>1
<1> DEFINE r == RecordOf(b, f[n + 2], f[n + 3], c)
<1>5. RecordLayout(r, n, b, f[n + 2], f[n + 3], m, c)
  BY <1>2, <1>3, <1>4, RecordCells, Zenon
<1> HIDE DEF r
<1> USE DEF RecordLayout
<1>6. ASSUME NEW i \in 1 .. n + m + 4 PROVE r[i] = f[i]
  <2>1. CASE i \in 2 .. n + 1
    <3>1. i - 1 \in 1 .. n /\ 1 + (i - 1) = i
      BY <2>1
    <3>2. r[1 + (i - 1)] = b[i - 1] /\ b[i - 1] = f[1 + (i - 1)]
      BY <1>2, <1>5, <3>1, Zenon
    <3> QED
      BY <3>1, <3>2, Zenon
  <2>2. CASE i \in n + 5 .. n + 4 + m
    <3>1. i - (n + 4) \in 1 .. m /\ n + 4 + (i - (n + 4)) = i
      BY <2>2
    <3>2. /\ r[n + 4 + (i - (n + 4))] = c[i - (n + 4)]
          /\ c[i - (n + 4)] = f[n + 4 + (i - (n + 4))]
      BY <1>3, <1>5, <3>1, Zenon
    <3> QED
      BY <3>1, <3>2, Zenon
  <2>3. CASE i \in {1, n + 2, n + 3, n + 4}
    BY <1>5, <2>3
  <2> QED
    BY <2>1, <2>2, <2>3
<1>7. r = f
  BY <1>5, <1>6, SeqEqual
<1> QED
  BY <1>2, <1>3, <1>7, Zenon DEF r, b, c

-------------------------------------------------------------------------------
(* Whatever is accepted is canonical. *)

\* A counted field that can be read.
LEMMA FieldPlace ==
  ASSUME NEW f \in Seq(Int), NEW at \in Nat, NEW lengths \in SUBSET Nat,
         HasField(f, at, lengths)
  PROVE  \E n \in lengths : /\ Number(f, at) = n /\ f[at + 1] = n
                            /\ at + 1 + n <= Len(f)
                            /\ Field(f, at) = SubSeq(f, at + 2, at + 1 + n)
                            /\ FieldEnd(f, at) = at + 1 + n
<1>1. Len(f) \in Nat
  OBVIOUS
<1>2. PICK n \in lengths : n = Number(f, at)
  BY DEF HasField
<1>3. n \in Nat /\ n # -1
  OBVIOUS
<1>4. f[at + 1] = n
  BY <1>2, <1>3 DEF Number
<1>5. n \in 0 .. Len(f) - (at + 1)
  BY <1>2 DEF HasField, CanTake
<1>6. at + 1 + n <= Len(f)
  BY <1>1, <1>3, <1>5
<1>7. at + 1 + 1 = at + 2
  OBVIOUS
<1>8. Field(f, at) = SubSeq(f, at + 2, at + 1 + n)
  BY <1>2, <1>7, Zenon DEF Field, Take
<1> QED
  BY <1>2, <1>4, <1>6, <1>8, Zenon DEF FieldEnd

\* The profile decodeRecord reads, and its conditions, as functions of the
\* places of the parts.
LEMMA AcceptedRecord ==
  ASSUME NEW f \in Seq(Int), NEW p \in decodeRecord(f)
  PROVE  encodeProfile(p) = {f}
<1> DEFINE b  == Field(f, 0)
           i1 == FieldEnd(b, 1)
           i2 == FieldEnd(b, i1)
           i3 == FieldEnd(b, i2)
           o  == FieldEnd(f, 0) + 2
           c  == Field(f, o)
           k  == [credential |-> Field(b, i2), publicKey |-> b[i3 + 1],
                  salt |-> b[i3 + 2], nonce |-> f[o - 1],
                  tag |-> f[o], ciphertext |-> c]
           q  == [kind |-> KindOf(b[1]), sid |-> Field(b, 1),
                  account |-> Field(b, i1), keys |-> <<k>>]
<1>1. /\ HasField(f, 0, 0 .. BindingLimit)
      /\ CanTake(f, o - 2, 2)
      /\ HasField(f, o, 1 .. CipherLimit)
      /\ EndsAt(f, FieldEnd(f, o))
      /\ profileBinding(q, q.keys[1]) = {b}
      /\ p = q
  BY Zenon DEF decodeRecord
<1>2. q.keys = <<k>> /\ q.keys[1] = k /\ Len(q.keys) = 1
  <2> HIDE DEF k
  <2> QED
    OBVIOUS
<1>3. k.nonce = f[o - 1] /\ k.tag = f[o] /\ k.ciphertext = c
  <2> HIDE DEF b, c, o, i2, i3
  <2> QED
    OBVIOUS
<1> HIDE DEF q, k
<1>4. Len(f) \in Nat /\ CipherLimit \in Nat /\ BindingLimit \in Nat
  BY LimitsAssumption
<1>5. PICK n \in Nat : /\ f[1] = n /\ 1 + n <= Len(f)
                       /\ b = SubSeq(f, 2, n + 1) /\ FieldEnd(f, 0) = n + 1
  <2>1. 0 .. BindingLimit \in SUBSET Nat
    BY <1>4
  <2>2. PICK n \in 0 .. BindingLimit :
           /\ f[0 + 1] = n /\ 0 + 1 + n <= Len(f)
           /\ Field(f, 0) = SubSeq(f, 0 + 2, 0 + 1 + n)
           /\ FieldEnd(f, 0) = 0 + 1 + n
    BY <1>1, <2>1, FieldPlace
  <2>3. n \in Nat /\ 0 + 1 = 1 /\ 0 + 2 = 2 /\ 0 + 1 + n = n + 1
        /\ 1 + n = n + 1
    BY <1>4
  <2> QED
    BY <2>2, <2>3, Zenon
<1> HIDE DEF b
<1>o. o = n + 3 /\ o \in Nat /\ o - 1 = n + 2
  BY <1>5
<1> HIDE DEF o
<1>6. PICK m \in Nat : /\ f[n + 4] = m /\ m \in 1 .. CipherLimit
                       /\ Len(f) = n + m + 4
                       /\ c = SubSeq(f, n + 5, n + 4 + m)
  <2>1. 1 .. CipherLimit \in SUBSET Nat
    BY <1>4
  <2>2. PICK m \in 1 .. CipherLimit :
           /\ f[o + 1] = m /\ o + 1 + m <= Len(f)
           /\ c = SubSeq(f, o + 2, o + 1 + m)
           /\ FieldEnd(f, o) = o + 1 + m
    BY <1>1, <1>o, <2>1, FieldPlace
  <2>3. Len(f) = o + 1 + m
    BY <1>1, <2>2 DEF EndsAt
  <2>4. m \in Nat /\ o + 1 = n + 4 /\ o + 2 = n + 5 /\ o + 1 + m = n + 4 + m
        /\ n + 4 + m = n + m + 4
    BY <1>4, <1>o
  <2> QED
    BY <2>2, <2>3, <2>4, Zenon
<1> HIDE DEF c
<1>7. Len(b) = n /\ Len(c) = m /\ RecordOf(b, f[n + 2], f[n + 3], c) = f
  <2>1. LET d == SubSeq(f, 2, n + 1)
            e == SubSeq(f, n + 5, n + 4 + m)
        IN  Len(d) = n /\ Len(e) = m /\ RecordOf(d, f[n + 2], f[n + 3], e) = f
    BY <1>5, <1>6, RecordIsItsParts
  <2> QED
    BY <1>5, <1>6, <2>1, Zenon
<1>8. f[o - 1] = f[n + 2] /\ f[o] = f[n + 3]
  BY <1>o
<1>9. encodeProfile(p) = encodeRecord(q, k)
  BY <1>1, <1>2 DEF encodeProfile
<1>10. encodeRecord(q, k) = {RecordOf(b, f[n + 2], f[n + 3], c)}
  <2>1. {d \in profileBinding(q, k) : Len(k.ciphertext) \in 1 .. CipherLimit}
           = {b}
    BY <1>1, <1>2, <1>3, <1>6, <1>7
  <2>2. encodeRecord(q, k)
           = {Counted(d) \o <<k.nonce, k.tag>> \o Counted(k.ciphertext) :
                 d \in {b}}
    BY <2>1, Zenon DEF encodeRecord
  <2>3. encodeRecord(q, k) = {Counted(d) \o <<f[n + 2], f[n + 3]>> \o Counted(c) :
                                 d \in {b}}
    BY <1>3, <1>8, <2>2, Zenon
  <2> QED
    BY <2>3, Zenon DEF RecordOf
<1> QED
  BY <1>7, <1>9, <1>10, Zenon

\* Whatever cells the file holds: if decodeProfile accepts it, it is the one
\* encoding of the profile it is read as.
THEOREM AcceptedAlwaysCanonical == file \in Seq(Int) => AcceptedIsCanonical
<1> SUFFICES ASSUME file \in Seq(Int), NEW p \in decodeProfile(file)
             PROVE  encodeProfile(p) = {file}
  BY DEF AcceptedIsCanonical
<1>1. CASE Number(file, 0) = Multi
  BY <1>1, Zenon DEF decodeProfile
<1>2. CASE Number(file, 0) # Multi
  <2>1. p \in decodeRecord(file)
    BY <1>2, Zenon DEF decodeProfile
  <2> QED
    BY <2>1, AcceptedRecord
<1> QED
  BY <1>1, <1>2

-------------------------------------------------------------------------------
(* The record of a single key is read back as it was written. *)

\* decodeProfile reads the kind that profileBinding put into the magic.
LEMMA KindOfMagic == \A k \in Kinds : KindOf(Magic(k)) = k
<1> SUFFICES ASSUME NEW k \in Kinds PROVE KindOf(Magic(k)) = k
  OBVIOUS
<1>1. \A j \in Kinds : Magic(j) = Magic(k) => j = k
  BY DEF Kinds, Magic
<1> QED
  BY <1>1, Zenon DEF KindOf

Written(f, at, s, n) ==
    f[at + 1] = n /\ \A i \in 1 .. n : f[at + 1 + i] = s[i]

Reads(f, at, s, n, end) ==
    /\ Number(f, at) = n /\ CanTake(f, at + 1, n)
    /\ Field(f, at) = s /\ FieldEnd(f, at) = end

\* A counted field that was written at its place is read as what it was.
LEMMA FieldRead ==
  ASSUME NEW f \in Seq(Int), NEW s \in Seq(Int), NEW at \in Nat, NEW n \in Nat,
         NEW end, Len(s) = n, at + 1 + n <= Len(f), at + 1 + n = end,
         Written(f, at, s, n)
  PROVE  Reads(f, at, s, n, end)
<1> USE DEF Written, Reads
<1>1. Len(f) \in Nat
  OBVIOUS
<1>2. Number(f, at) = n
  BY <1>1 DEF Number, CanTake
<1>3. CanTake(f, at + 1, n)
  BY <1>1 DEF CanTake
<1>4. SubSeq(f, (at + 1) + 1, (at + 1) + n) = s
  <2>1. at + 1 \in Nat
    OBVIOUS
  <2> QED
    BY <2>1, Cut
<1>5. Field(f, at) = s
  BY <1>2, <1>4, Zenon DEF Field, Take
<1> QED
  BY <1>2, <1>3, <1>5 DEF FieldEnd

\* t is r with one more counted field, s, at the end.
Adds(t, r, l, s, n) ==
    /\ t \in Seq(Int) /\ Len(t) = l + 1 + n
    /\ \A i \in 1 .. l : t[i] = r[i]
    /\ t[l + 1] = n /\ \A i \in 1 .. n : t[l + 1 + i] = s[i]

\* Where a counted field stands behind what was written before.
LEMMA CountedAdded ==
  ASSUME NEW r \in Seq(Int), NEW s \in Seq(Int), NEW n \in Nat, NEW l \in Nat,
         Len(r) = l, Len(s) = n
  PROVE  Adds(r \o Counted(s), r, l, s, n)
<1>1. PICK u \in Seq(Int) : u = Counted(s)
  BY CountedCells
<1>2. Len(u) = n + 1 /\ u[1] = n /\ \A i \in 1 .. n : u[i + 1] = s[i]
  BY <1>1, CountedCells
<1>3. PICK t \in Seq(Int) :
         /\ t = r \o u /\ Len(t) = Len(r) + Len(u)
         /\ \A i \in 1 .. Len(r) : t[i] = r[i]
         /\ \A i \in 1 .. Len(u) : t[Len(r) + i] = u[i]
  BY Concatenated, Zenon
<1>4. Len(t) = l + 1 + n
  <2>1. Len(t) = l + (n + 1)
    BY <1>2, <1>3, Zenon
  <2>2. l + (n + 1) = l + 1 + n
    OBVIOUS
  <2> QED
    BY <2>1, <2>2, Zenon
<1>5. \A i \in 1 .. n + 1 : t[l + i] = u[i]
  BY <1>2, <1>3, Zenon
<1>6. t[l + 1] = n
  <2>1. 1 \in 1 .. n + 1
    OBVIOUS
  <2> QED
    BY <1>2, <1>5, <2>1, Zenon
<1>7. ASSUME NEW i \in 1 .. n PROVE t[l + 1 + i] = s[i]
  <2>1. i + 1 \in 1 .. n + 1 /\ l + (i + 1) = l + 1 + i
    OBVIOUS
  <2>2. t[l + (i + 1)] = u[i + 1] /\ u[i + 1] = s[i]
    BY <1>2, <1>5, <2>1, Zenon
  <2> QED
    BY <2>1, <2>2, Zenon
<1>8. \A i \in 1 .. l : t[i] = r[i]
  BY <1>3, Zenon
<1>9. t = r \o Counted(s)
  BY <1>1, <1>3, Zenon
<1> QED
  BY <1>4, <1>6, <1>7, <1>8, <1>9, Zenon DEF Adds

\* profileBinding of the parts, and its cells.
BindingOf(g, s, a, k, x, y) ==
    <<g>> \o Counted(s) \o Counted(a) \o Counted(k) \o <<x, y>>

BindingLayout(b, g, s, n, a, m, k, l, x, y) ==
    /\ b \in Seq(Int) /\ Len(b) = n + m + l + 6
    /\ b[1] = g
    /\ b[1 + 1] = n /\ \A i \in 1 .. n : b[1 + 1 + i] = s[i]
    /\ b[(n + 2) + 1] = m /\ \A i \in 1 .. m : b[(n + 2) + 1 + i] = a[i]
    /\ b[(n + m + 3) + 1] = l /\ \A i \in 1 .. l : b[(n + m + 3) + 1 + i] = k[i]
    /\ b[(n + m + l + 4) + 1] = x /\ b[(n + m + l + 4) + 2] = y

\* Where profileBinding puts its parts.
LEMMA BindingCells ==
  ASSUME NEW s \in Seq(Int), NEW a \in Seq(Int), NEW k \in Seq(Int),
         NEW n \in Nat, NEW m \in Nat, NEW l \in Nat,
         Len(s) = n, Len(a) = m, Len(k) = l,
         NEW g \in Int, NEW x \in Int, NEW y \in Int
  PROVE  BindingLayout(BindingOf(g, s, a, k, x, y), g, s, n, a, m, k, l, x, y)
<1>1. PICK r1 \in Seq(Int) : r1 = <<g>> /\ Len(r1) = 1 /\ r1[1] = g
  <2>1. <<g>> \in Seq(Int) /\ Len(<<g>>) = 1 /\ <<g>>[1] = g
    OBVIOUS
  <2> QED
    BY <2>1, Zenon
<1>2. PICK r2 : r2 = r1 \o Counted(s) /\ Adds(r2, r1, 1, s, n)
  BY <1>1, CountedAdded
<1>3. n + 2 \in Nat /\ 1 + 1 + n = n + 2
  OBVIOUS
<1>4. PICK r3 : r3 = r2 \o Counted(a) /\ Adds(r3, r2, n + 2, a, m)
  <2>1. r2 \in Seq(Int) /\ Len(r2) = n + 2
    BY <1>2, <1>3, Zenon DEF Adds
  <2> QED
    BY <1>3, <2>1, CountedAdded
<1>5. n + m + 3 \in Nat /\ (n + 2) + 1 + m = n + m + 3
  OBVIOUS
<1>6. PICK r4 : r4 = r3 \o Counted(k) /\ Adds(r4, r3, n + m + 3, k, l)
  <2>1. r3 \in Seq(Int) /\ Len(r3) = n + m + 3
    BY <1>4, <1>5, Zenon DEF Adds
  <2> QED
    BY <1>5, <2>1, CountedAdded
<1>7. PICK e \in Seq(Int) : e = <<x, y>> /\ Len(e) = 2 /\ e[1] = x /\ e[2] = y
  <2>1. <<x, y>> \in Seq(Int) /\ Len(<<x, y>>) = 2 /\ <<x, y>>[1] = x
        /\ <<x, y>>[2] = y
    OBVIOUS
  <2> QED
    BY <2>1, Zenon
<1>8. n + m + l + 4 \in Nat /\ (n + m + 3) + 1 + l = n + m + l + 4
  OBVIOUS
<1>9. PICK b \in Seq(Int) :
         /\ b = r4 \o e /\ Len(b) = (n + m + l + 4) + 2
         /\ \A i \in 1 .. n + m + l + 4 : b[i] = r4[i]
         /\ \A i \in 1 .. 2 : b[(n + m + l + 4) + i] = e[i]
  <2>1. r4 \in Seq(Int) /\ Len(r4) = n + m + l + 4
    BY <1>6, <1>8, Zenon DEF Adds
  <2>2. PICK b \in Seq(Int) :
           /\ b = r4 \o e /\ Len(b) = Len(r4) + Len(e)
           /\ \A i \in 1 .. Len(r4) : b[i] = r4[i]
           /\ \A i \in 1 .. Len(e) : b[Len(r4) + i] = e[i]
    BY <2>1, Concatenated, Zenon
  <2>3. /\ Len(b) = (n + m + l + 4) + 2
        /\ \A i \in 1 .. n + m + l + 4 : b[i] = r4[i]
        /\ \A i \in 1 .. 2 : b[(n + m + l + 4) + i] = e[i]
    BY <1>7, <2>1, <2>2, Zenon
  <2> QED
    BY <2>2, <2>3, Zenon
<1>10. b = BindingOf(g, s, a, k, x, y)
  BY <1>1, <1>2, <1>4, <1>6, <1>7, <1>9, Zenon DEF BindingOf
<1>11. b[(n + m + l + 4) + 1] = x /\ b[(n + m + l + 4) + 2] = y
  <2>1. 1 \in 1 .. 2 /\ 2 \in 1 .. 2
    OBVIOUS
  <2> QED
    BY <1>7, <1>9, <2>1, Zenon
<1>12. \A i \in 1 .. n + m + 3 : b[i] = r3[i]
  <2>1. \A i \in 1 .. n + m + 3 : i \in 1 .. n + m + l + 4
    OBVIOUS
  <2> QED
    BY <1>6, <1>9, <2>1, Zenon DEF Adds
<1>13. \A i \in 1 .. n + 2 : b[i] = r2[i]
  <2>1. \A i \in 1 .. n + 2 : i \in 1 .. n + m + 3
    OBVIOUS
  <2> QED
    BY <1>4, <1>12, <2>1, Zenon DEF Adds
<1>14. b[1] = g
  <2>1. 1 \in 1 .. n + 2 /\ 1 \in 1 .. 1
    OBVIOUS
  <2> QED
    BY <1>1, <1>2, <1>13, <2>1, Zenon DEF Adds
<1>15. b[1 + 1] = n /\ \A i \in 1 .. n : b[1 + 1 + i] = s[i]
  <2>1. 1 + 1 \in 1 .. n + 2 /\ \A i \in 1 .. n : 1 + 1 + i \in 1 .. n + 2
    OBVIOUS
  <2> QED
    BY <1>2, <1>13, <2>1, Zenon DEF Adds
<1>16. b[(n + 2) + 1] = m /\ \A i \in 1 .. m : b[(n + 2) + 1 + i] = a[i]
  <2>1. /\ (n + 2) + 1 \in 1 .. n + m + 3
        /\ \A i \in 1 .. m : (n + 2) + 1 + i \in 1 .. n + m + 3
    OBVIOUS
  <2> QED
    BY <1>4, <1>12, <2>1, Zenon DEF Adds
<1>17. /\ b[(n + m + 3) + 1] = l
       /\ \A i \in 1 .. l : b[(n + m + 3) + 1 + i] = k[i]
  <2>1. /\ (n + m + 3) + 1 \in 1 .. n + m + l + 4
        /\ \A i \in 1 .. l : (n + m + 3) + 1 + i \in 1 .. n + m + l + 4
    OBVIOUS
  <2> QED
    BY <1>6, <1>9, <2>1, Zenon DEF Adds
<1>18. Len(b) = n + m + l + 6
  <2>1. (n + m + l + 4) + 2 = n + m + l + 6
    OBVIOUS
  <2> QED
    BY <1>9, <2>1, Zenon
<1>19. BindingLayout(b, g, s, n, a, m, k, l, x, y)
  BY <1>11, <1>14, <1>15, <1>16, <1>17, <1>18, Zenon DEF BindingLayout
<1> QED
  BY <1>10, <1>19, Zenon

\* The profiles saveProfile is given: texts, byte strings and fixed arrays.
KeyRecord == [credential : Seq(Int), publicKey : Int, salt : Int, nonce : Int,
              tag : Int, ciphertext : Seq(Int)]
ProfileRecord == [kind : Int, sid : Seq(Int), account : Seq(Int),
                  keys : Seq(KeyRecord)]

\* decodeProfile finds every part of a record where encodeProfile put it.
LEMMA RecordLoads ==
  ASSUME NEW p \in ProfileRecord, Len(p.keys) = 1,
         NEW f \in encodeRecord(p, p.keys[1])
  PROVE  decodeProfile(f) = {p}
<1>1. PICK k \in KeyRecord : k = p.keys[1]
  BY DEF ProfileRecord
<1>2. /\ k.credential \in Seq(Int) /\ k.ciphertext \in Seq(Int)
      /\ k.publicKey \in Int /\ k.salt \in Int /\ k.nonce \in Int /\ k.tag \in Int
  BY DEF KeyRecord
<1>3. p.kind \in Int /\ p.sid \in Seq(Int) /\ p.account \in Seq(Int)
  BY DEF ProfileRecord
<1>4. PICK B : /\ B \in profileBinding(p, k)
               /\ Len(k.ciphertext) \in 1 .. CipherLimit
               /\ f = RecordOf(B, k.nonce, k.tag, k.ciphertext)
  BY <1>1, Zenon DEF encodeRecord, RecordOf
<1>5. /\ Len(k.credential) \in CredentialMin .. CredentialLimit
      /\ p.kind \in Kinds /\ PlainText(p.sid) /\ PlainText(p.account)
      /\ profileBinding(p, k) = {B}
      /\ B = BindingOf(Magic(p.kind), p.sid, p.account, k.credential,
                       k.publicKey, k.salt)
  BY <1>4, Zenon DEF profileBinding, BindingOf
<1>6. PICK n \in Nat, m \in Nat, l \in Nat, j \in Nat :
         /\ Len(p.sid) = n /\ Len(p.account) = m /\ Len(k.credential) = l
         /\ Len(k.ciphertext) = j
  BY <1>2, <1>3
<1>7. /\ n \in 1 .. StringLimit /\ m \in 1 .. StringLimit
      /\ l \in CredentialMin .. CredentialLimit /\ j \in 1 .. CipherLimit
  BY <1>4, <1>5, <1>6, Zenon DEF PlainText
<1>8. BindingLayout(B, Magic(p.kind), p.sid, n, p.account, m, k.credential, l,
                    k.publicKey, k.salt)
  <2>1. Magic(p.kind) \in Int
    BY <1>3 DEF Magic
  <2> QED
    BY <1>2, <1>3, <1>5, <1>6, <2>1, BindingCells, Zenon
<1>9. PICK N \in Nat : N = n + m + l + 6
  OBVIOUS
<1>10. B \in Seq(Int) /\ Len(B) = N
  BY <1>8, <1>9, Zenon DEF BindingLayout
<1>11. RecordLayout(f, N, B, k.nonce, k.tag, j, k.ciphertext)
  BY <1>2, <1>4, <1>6, <1>10, RecordCells, Zenon
<1>12. f \in Seq(Int) /\ Len(f) = N + j + 4
  BY <1>11, Zenon DEF RecordLayout
<1>13. /\ N \in 0 .. BindingLimit /\ N # Multi /\ N + j + 4 <= RecordLimit
       /\ j \in Nat /\ N + 3 \in Nat
  <2>1. /\ StringLimit \in Nat /\ CredentialMin \in Nat /\ CredentialLimit \in Nat
        /\ CipherLimit \in Nat /\ BindingLimit \in Nat /\ RecordLimit \in Nat
        /\ BindingLimit < 38623059
    BY LimitsAssumption DEF LimitsFit, Multi
  <2>2. n <= StringLimit /\ m <= StringLimit /\ l <= CredentialLimit
        /\ j <= CipherLimit
    BY <1>7, <2>1
  <2>3. /\ 6 + 2 * StringLimit + CredentialLimit <= BindingLimit
        /\ 10 + 2 * StringLimit + CredentialLimit + CipherLimit <= RecordLimit
    BY LimitsAssumption DEF LimitsFit
  <2>4. N <= 6 + 2 * StringLimit + CredentialLimit
    BY <1>9, <2>1, <2>2
  <2> QED
    BY <1>9, <2>1, <2>2, <2>3, <2>4 DEF Multi
\* The fields of the file ...
<1>14. Reads(f, 0, B, N, N + 1)
  <2>1. Written(f, 0, B, N)
    BY <1>11 DEF RecordLayout, Written
  <2>2. 0 \in Nat /\ 0 + 1 + N <= Len(f) /\ 0 + 1 + N = N + 1
    BY <1>12, <1>13
  <2> QED
    BY <1>10, <1>12, <2>1, <2>2, FieldRead, Zenon
<1>15. Reads(f, N + 3, k.ciphertext, j, N + j + 4)
  <2>1. Written(f, N + 3, k.ciphertext, j)
    <3>1. N + 3 + 1 = N + 4
      OBVIOUS
    <3> QED
      BY <1>11, <3>1, Zenon DEF RecordLayout, Written
  <2>2. N + 3 + 1 + j <= Len(f) /\ N + 3 + 1 + j = N + j + 4
    BY <1>12, <1>13
  <2> QED
    BY <1>2, <1>6, <1>12, <1>13, <2>1, <2>2, FieldRead, Zenon
<1>16. /\ f[N + 3 - 1] = k.nonce /\ f[N + 3] = k.tag
       /\ CanTake(f, N + 3 - 2, 2) /\ N + 1 + 2 = N + 3
       /\ N + 3 + 1 + j = Len(f)
  <2>1. N + 3 - 1 = N + 2 /\ N + 1 + 2 = N + 3 /\ N + 3 + 1 + j = N + j + 4
    BY <1>13
  <2>2. 2 \in 0 .. Len(f) - (N + 3 - 2)
    BY <1>12, <1>13
  <2> QED
    BY <1>11, <1>12, <2>1, <2>2, Zenon DEF RecordLayout, CanTake
\* ... and of the binding.
<1>17. /\ Number(B, 0) = Magic(p.kind) /\ B[1] = Magic(p.kind)
  <2>1. B[0 + 1] = Magic(p.kind) /\ 1 \in 0 .. Len(B) - 0
    BY <1>8, <1>9, <1>10 DEF BindingLayout
  <2> QED
    BY <2>1 DEF Number, CanTake
<1>18. Reads(B, 1, p.sid, n, n + 2)
  <2>1. 1 \in Nat /\ 1 + 1 + n <= Len(B) /\ 1 + 1 + n = n + 2
    BY <1>9, <1>10
  <2>2. Written(B, 1, p.sid, n)
    BY <1>8, Zenon DEF BindingLayout, Written
  <2> QED
    BY <1>3, <1>6, <1>10, <2>1, <2>2, FieldRead, Zenon
<1>19. Reads(B, n + 2, p.account, m, n + m + 3)
  <2>1. /\ n + 2 \in Nat /\ (n + 2) + 1 + m <= Len(B)
        /\ (n + 2) + 1 + m = n + m + 3
    BY <1>9, <1>10
  <2>2. Written(B, n + 2, p.account, m)
    BY <1>8, Zenon DEF BindingLayout, Written
  <2> QED
    BY <1>3, <1>6, <1>10, <2>1, <2>2, FieldRead, Zenon
<1>20. Reads(B, n + m + 3, k.credential, l, n + m + l + 4)
  <2>1. /\ n + m + 3 \in Nat /\ (n + m + 3) + 1 + l <= Len(B)
        /\ (n + m + 3) + 1 + l = n + m + l + 4
    BY <1>9, <1>10
  <2>2. Written(B, n + m + 3, k.credential, l)
    BY <1>8, Zenon DEF BindingLayout, Written
  <2> QED
    BY <1>2, <1>6, <1>10, <2>1, <2>2, FieldRead, Zenon
<1>21. /\ B[(n + m + l + 4) + 1] = k.publicKey /\ B[(n + m + l + 4) + 2] = k.salt
       /\ n + m + l + 4 + 2 = Len(B)
  BY <1>8, <1>9, <1>10 DEF BindingLayout
\* What decodeRecord puts together is the profile.
<1>22. [kind |-> KindOf(Magic(p.kind)), sid |-> p.sid, account |-> p.account,
        keys |-> <<[credential |-> k.credential, publicKey |-> k.publicKey,
                    salt |-> k.salt, nonce |-> k.nonce, tag |-> k.tag,
                    ciphertext |-> k.ciphertext]>>] = p
  <2>1. [credential |-> k.credential, publicKey |-> k.publicKey,
         salt |-> k.salt, nonce |-> k.nonce, tag |-> k.tag,
         ciphertext |-> k.ciphertext] = k
    BY DEF KeyRecord
  <2>2. <<k>> = p.keys
    <3>1. p.keys \in Seq(KeyRecord) /\ <<k>> \in Seq(KeyRecord)
      BY DEF ProfileRecord
    <3>2. Len(<<k>>) = 1 /\ <<k>>[1] = k
      OBVIOUS
    <3>3. \A i \in 1 .. Len(<<k>>) : <<k>>[i] = p.keys[i]
      BY <1>1, <3>2
    <3> QED
      BY <3>1, <3>2, <3>3, SeqEqual
  <2>3. KindOf(Magic(p.kind)) = p.kind
    BY <1>5, KindOfMagic
  <2>4. [kind |-> p.kind, sid |-> p.sid, account |-> p.account,
         keys |-> p.keys] = p
    BY DEF ProfileRecord
  <2> QED
    BY <2>1, <2>2, <2>3, <2>4, Zenon
<1>23. decodeRecord(f) = {p}
  <2> DEFINE b  == Field(f, 0)
             i1 == FieldEnd(b, 1)
             i2 == FieldEnd(b, i1)
             i3 == FieldEnd(b, i2)
             o  == FieldEnd(f, 0) + 2
             q  == [kind |-> KindOf(b[1]), sid |-> Field(b, 1),
                    account |-> Field(b, i1),
                    keys |-> <<[credential |-> Field(b, i2),
                                publicKey |-> b[i3 + 1],
                                salt |-> b[i3 + 2], nonce |-> f[o - 1],
                                tag |-> f[o], ciphertext |-> Field(f, o)]>>]
             C  == /\ Len(f) <= RecordLimit
                   /\ HasField(f, 0, 0 .. BindingLimit)
                   /\ Number(b, 0) \in {Magic(v) : v \in Kinds}
                   /\ HasField(b, 1, 1 .. StringLimit) /\ PlainText(Field(b, 1))
                   /\ HasField(b, i1, 1 .. StringLimit)
                   /\ PlainText(Field(b, i1))
                   /\ HasField(b, i2, CredentialMin .. CredentialLimit)
                   /\ i3 + 2 = Len(b)
                   /\ CanTake(f, o - 2, 2)
                   /\ HasField(f, o, 1 .. CipherLimit)
                   /\ EndsAt(f, FieldEnd(f, o))
                   /\ profileBinding(q, q.keys[1]) = {b}
  <2>1. decodeRecord(f) = IF C THEN {q} ELSE {}
    BY Zenon DEF decodeRecord
  <2>2. b = B
    BY <1>14, Zenon DEF Reads
  <2>3. i1 = n + 2
    BY <1>18, <2>2, Zenon DEF Reads
  <2>4. i2 = n + m + 3
    BY <1>19, <2>2, <2>3, Zenon DEF Reads
  <2>5. i3 = n + m + l + 4
    BY <1>20, <2>2, <2>4, Zenon DEF Reads
  <2>6. o = N + 3
    BY <1>14, <1>16, Zenon DEF Reads
  <2> HIDE DEF b, i1, i2, i3, o
  <2>7. q = [kind |-> KindOf(Magic(p.kind)), sid |-> p.sid, account |-> p.account,
             keys |-> <<[credential |-> k.credential,
                         publicKey |-> k.publicKey, salt |-> k.salt,
                         nonce |-> k.nonce, tag |-> k.tag,
                         ciphertext |-> k.ciphertext]>>]
    <3>1. b[1] = Magic(p.kind) /\ Field(b, 1) = p.sid /\ Field(b, i1) = p.account
      BY <1>17, <1>18, <1>19, <2>2, <2>3, Zenon DEF Reads
    <3>2. /\ Field(b, i2) = k.credential /\ b[i3 + 1] = k.publicKey
          /\ b[i3 + 2] = k.salt
      BY <1>20, <1>21, <2>2, <2>4, <2>5, Zenon DEF Reads
    <3>3. f[o - 1] = k.nonce /\ f[o] = k.tag /\ Field(f, o) = k.ciphertext
      BY <1>15, <1>16, <2>6 DEF Reads
    <3> QED
      BY <3>1, <3>2, <3>3, Zenon
  <2>8. q = p
    BY <1>22, <2>7, Zenon
  <2> HIDE DEF q
  <2>9. /\ HasField(f, 0, 0 .. BindingLimit) /\ HasField(f, o, 1 .. CipherLimit)
        /\ CanTake(f, o - 2, 2) /\ EndsAt(f, FieldEnd(f, o))
    <3>1. HasField(f, 0, 0 .. BindingLimit)
      BY <1>13, <1>14, Zenon DEF HasField, Reads
    <3>2. HasField(f, o, 1 .. CipherLimit)
      BY <1>7, <1>15, <2>6, Zenon DEF HasField, Reads
    <3>3. CanTake(f, o - 2, 2)
      BY <1>16, <2>6
    <3>4. EndsAt(f, FieldEnd(f, o))
      <4>1. FieldEnd(f, o) = N + j + 4
        BY <1>15, <2>6, Zenon DEF Reads
      <4> QED
        BY <1>12, <4>1, Zenon DEF EndsAt
    <3> QED
      BY <3>1, <3>2, <3>3, <3>4
  <2>10. /\ HasField(b, 1, 1 .. StringLimit) /\ PlainText(Field(b, 1))
         /\ HasField(b, i1, 1 .. StringLimit) /\ PlainText(Field(b, i1))
         /\ HasField(b, i2, CredentialMin .. CredentialLimit)
    BY <1>5, <1>7, <1>18, <1>19, <1>20, <2>2, <2>3, <2>4, Zenon
    DEF HasField, Reads
  <2>11. i3 + 2 = Len(b) /\ Number(b, 0) \in {Magic(v) : v \in Kinds}
    BY <1>5, <1>17, <1>21, <2>2, <2>5, Zenon
  <2>12. profileBinding(q, q.keys[1]) = {b} /\ Len(f) <= RecordLimit
    BY <1>1, <1>5, <1>12, <1>13, <2>2, <2>8, Zenon
  <2> QED
    BY <2>1, <2>8, <2>9, <2>10, <2>11, <2>12, Zenon
<1> QED
  BY <1>13, <1>14, <1>23, Zenon DEF decodeProfile, Reads

\* An enrollment of a single key that saveProfile wrote is read back by
\* loadProfile: none of decodeProfile's limits refuses what encodeProfile
\* accepted, for any limits related as the code's are.
THEOREM SavedSingleKeyLoads ==
  Spec => []((saved \in ProfileRecord /\ Len(saved.keys) = 1)
             => SavedProfileLoads)
<1> DEFINE Inv == edits \in Nat /\ (edits = 0 => file \in encodeProfile(saved))
<1>1. Init => Inv
  BY DEF Init
<1>2. Inv /\ [Next]_vars => Inv'
  <2> SUFFICES ASSUME Inv, [Next]_vars PROVE Inv'
    OBVIOUS
  <2>1. CASE UNCHANGED vars
    BY <2>1 DEF vars
  <2>2. CASE \E f : Edit(f)
    BY <2>2 DEF Edit
  <2>3. Next => \E f : Edit(f)
    BY Zenon DEF Next, Truncate, Extend, Overwrite, Splice
  <2> QED
    BY <2>1, <2>2, <2>3
<1>3. Inv => ((saved \in ProfileRecord /\ Len(saved.keys) = 1)
              => SavedProfileLoads)
  <2> SUFFICES ASSUME Inv, saved \in ProfileRecord, Len(saved.keys) = 1,
                      edits = 0
               PROVE  decodeProfile(file) = {saved}
    BY DEF SavedProfileLoads
  <2>1. file \in encodeRecord(saved, saved.keys[1])
    BY DEF encodeProfile
  <2> QED
    BY <2>1, RecordLoads
<1> QED
  BY <1>1, <1>2, <1>3, PTL DEF Spec

===============================================================================

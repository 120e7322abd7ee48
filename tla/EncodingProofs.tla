--------------------------- MODULE EncodingProofs ---------------------------
(***************************************************************************)
(* Proofs about what ends up in octets: the fields of the packed types     *)
(* (EncodedTypes), the points that a station interrogation and a periodic  *)
(* transmission put into ASDUs (AsduPacking, MonolithPacking), and the     *)
(* information objects read back from them (InformationObjects).           *)
(***************************************************************************)
EXTENDS EncodedTypes, MonolithPacking, InformationObjects, FiniteSetTheorems,
        SequenceTheorems, WellFoundedInduction, TLAPS

\* A set of numbers with no least member is empty.
LEMMA NoLeast ==
  ASSUME NEW S, S \subseteq Nat, \A n \in S : \E m \in S : m < n
  PROVE  S = {}
<1> DEFINE R == OpToRel(<, Nat)
<1>1. IsWellFoundedOn(R, Nat)
  BY NatLessThanWellFounded
<1>2. ASSUME S # {} PROVE FALSE
  <2>1. PICK x \in S : \A y \in S : ~(<<y, x>> \in R)
    BY <1>1, <1>2, WFMin
  <2>2. PICK y \in S : y < x
    OBVIOUS
  <2>3. <<y, x>> \in R
    BY <2>2 DEF OpToRel
  <2> QED
    BY <2>1, <2>2, <2>3
<1> QED
  BY <1>2

(***************************************************************************)
(* Octets and the bits in them                                             *)
(***************************************************************************)
\* What an octet may be.
Octet == {b \in Nat : b < 256}

\* An octet some bits of which are set.
Changed(b, unit, count, value) == b - Bits(b, unit, count) * unit + (value % count) * unit

\* The other octets stay.
LEMMA OneOctet ==
  ASSUME NEW n \in Nat, NEW o \in [1..n -> Octet], NEW i \in 1..n, NEW unit, NEW count,
         NEW value, Changed(o[i], unit, count, value) \in Octet
  PROVE  /\ WithBits(o, i, unit, count, value) \in [1..n -> Octet]
         /\ WithBits(o, i, unit, count, value)[i] = Changed(o[i], unit, count, value)
         /\ \A j \in 1..n : j # i => WithBits(o, i, unit, count, value)[j] = o[j]
<1>1. WithBits(o, i, unit, count, value) = [o EXCEPT ![i] = Changed(o[i], unit, count, value)]
  BY DEF WithBits, Changed
<1> QED
  BY <1>1

\* The octet of the minute and two flags.
LEMMA MinuteBits ==
  ASSUME NEW b \in Octet, NEW v, NEW c
  PROVE  /\ Within(v, 0, 63) /\ c = Changed(b, 1, 64, v) =>
              /\ c \in Octet /\ Bits(c, 1, 64) = v /\ Bits(c, 64, 2) = Bits(b, 64, 2)
              /\ Bits(c, 128, 2) = Bits(b, 128, 2)
         /\ Within(v, 0, 1) /\ c = Changed(b, 64, 2, v) =>
              /\ c \in Octet /\ Bits(c, 1, 64) = Bits(b, 1, 64) /\ Bits(c, 64, 2) = v
              /\ Bits(c, 128, 2) = Bits(b, 128, 2)
         /\ Within(v, 0, 1) /\ c = Changed(b, 128, 2, v) =>
              /\ c \in Octet /\ Bits(c, 1, 64) = Bits(b, 1, 64) /\ Bits(c, 64, 2) = Bits(b, 64, 2)
              /\ Bits(c, 128, 2) = v
<1>1. ASSUME Within(v, 0, 63), c = Changed(b, 1, 64, v)
      PROVE  /\ c \in Octet /\ Bits(c, 1, 64) = v /\ Bits(c, 64, 2) = Bits(b, 64, 2)
             /\ Bits(c, 128, 2) = Bits(b, 128, 2)
  BY <1>1 DEF Changed, Bits, Octet, Within
<1>2. ASSUME Within(v, 0, 1), c = Changed(b, 64, 2, v)
      PROVE  /\ c \in Octet /\ Bits(c, 1, 64) = Bits(b, 1, 64) /\ Bits(c, 64, 2) = v
             /\ Bits(c, 128, 2) = Bits(b, 128, 2)
  BY <1>2 DEF Changed, Bits, Octet, Within
<1>3. ASSUME Within(v, 0, 1), c = Changed(b, 128, 2, v)
      PROVE  /\ c \in Octet /\ Bits(c, 1, 64) = Bits(b, 1, 64) /\ Bits(c, 64, 2) = Bits(b, 64, 2)
             /\ Bits(c, 128, 2) = v
  BY <1>3 DEF Changed, Bits, Octet, Within
<1> QED
  BY <1>1, <1>2, <1>3

\* The octet of the hour and the summer time.
LEMMA HourBits ==
  ASSUME NEW b \in Octet, NEW v, NEW c
  PROVE  /\ Within(v, 0, 31) /\ c = Changed(b, 1, 32, v) =>
              /\ c \in Octet /\ Bits(c, 1, 32) = v /\ Bits(c, 128, 2) = Bits(b, 128, 2)
         /\ Within(v, 0, 1) /\ c = Changed(b, 128, 2, v) =>
              /\ c \in Octet /\ Bits(c, 1, 32) = Bits(b, 1, 32) /\ Bits(c, 128, 2) = v
<1>1. ASSUME Within(v, 0, 31), c = Changed(b, 1, 32, v)
      PROVE  /\ c \in Octet /\ Bits(c, 1, 32) = v /\ Bits(c, 128, 2) = Bits(b, 128, 2)
  BY <1>1 DEF Changed, Bits, Octet, Within
<1>2. ASSUME Within(v, 0, 1), c = Changed(b, 128, 2, v)
      PROVE  /\ c \in Octet /\ Bits(c, 1, 32) = Bits(b, 1, 32) /\ Bits(c, 128, 2) = v
  BY <1>2 DEF Changed, Bits, Octet, Within
<1> QED
  BY <1>1, <1>2

\* The octets of the date.
LEMMA DateBits ==
  ASSUME NEW b \in Octet, NEW v, NEW c
  PROVE  /\ Within(v, 0, 31) /\ c = Changed(b, 1, 32, v) =>
              /\ c \in Octet /\ Bits(c, 1, 32) = v /\ Bits(c, 32, 8) = Bits(b, 32, 8)
         /\ Within(v, 0, 7) /\ c = Changed(b, 32, 8, v) =>
              /\ c \in Octet /\ Bits(c, 1, 32) = Bits(b, 1, 32) /\ Bits(c, 32, 8) = v
         /\ Within(v, 0, 15) /\ c = Changed(b, 1, 16, v) =>
              /\ c \in Octet /\ Bits(c, 1, 16) = v
         /\ Within(v, 0, 127) /\ c = Changed(b, 1, 128, v) =>
              /\ c \in Octet /\ Bits(c, 1, 128) = v
<1>1. ASSUME Within(v, 0, 31), c = Changed(b, 1, 32, v)
      PROVE  /\ c \in Octet /\ Bits(c, 1, 32) = v /\ Bits(c, 32, 8) = Bits(b, 32, 8)
  BY <1>1 DEF Changed, Bits, Octet, Within
<1>2. ASSUME Within(v, 0, 7), c = Changed(b, 32, 8, v)
      PROVE  /\ c \in Octet /\ Bits(c, 1, 32) = Bits(b, 1, 32) /\ Bits(c, 32, 8) = v
  BY <1>2 DEF Changed, Bits, Octet, Within
<1>3. ASSUME Within(v, 0, 15), c = Changed(b, 1, 16, v)
      PROVE  /\ c \in Octet /\ Bits(c, 1, 16) = v
  BY <1>3 DEF Changed, Bits, Octet, Within
<1>4. ASSUME Within(v, 0, 127), c = Changed(b, 1, 128, v)
      PROVE  /\ c \in Octet /\ Bits(c, 1, 128) = v
  BY <1>4 DEF Changed, Bits, Octet, Within
<1> QED
  BY <1>1, <1>2, <1>3, <1>4

\* The octet of the sequence number and three flags.
LEMMA CounterBits ==
  ASSUME NEW b \in Octet, NEW v, NEW c
  PROVE  /\ Within(v, 0, 31) /\ c = Changed(b, 1, 32, v) =>
              /\ c \in Octet /\ Bits(c, 1, 32) = v /\ Bits(c, 32, 2) = Bits(b, 32, 2)
              /\ Bits(c, 64, 2) = Bits(b, 64, 2) /\ Bits(c, 128, 2) = Bits(b, 128, 2)
         /\ Within(v, 0, 1) /\ c = Changed(b, 32, 2, v) =>
              /\ c \in Octet /\ Bits(c, 1, 32) = Bits(b, 1, 32) /\ Bits(c, 32, 2) = v
              /\ Bits(c, 64, 2) = Bits(b, 64, 2) /\ Bits(c, 128, 2) = Bits(b, 128, 2)
         /\ Within(v, 0, 1) /\ c = Changed(b, 64, 2, v) =>
              /\ c \in Octet /\ Bits(c, 1, 32) = Bits(b, 1, 32) /\ Bits(c, 32, 2) = Bits(b, 32, 2)
              /\ Bits(c, 64, 2) = v /\ Bits(c, 128, 2) = Bits(b, 128, 2)
         /\ Within(v, 0, 1) /\ c = Changed(b, 128, 2, v) =>
              /\ c \in Octet /\ Bits(c, 1, 32) = Bits(b, 1, 32) /\ Bits(c, 32, 2) = Bits(b, 32, 2)
              /\ Bits(c, 64, 2) = Bits(b, 64, 2) /\ Bits(c, 128, 2) = v
<1>1. ASSUME Within(v, 0, 31), c = Changed(b, 1, 32, v)
      PROVE  /\ c \in Octet /\ Bits(c, 1, 32) = v /\ Bits(c, 32, 2) = Bits(b, 32, 2)
             /\ Bits(c, 64, 2) = Bits(b, 64, 2) /\ Bits(c, 128, 2) = Bits(b, 128, 2)
  BY <1>1 DEF Changed, Bits, Octet, Within
<1>2. ASSUME Within(v, 0, 1), c = Changed(b, 32, 2, v)
      PROVE  /\ c \in Octet /\ Bits(c, 1, 32) = Bits(b, 1, 32) /\ Bits(c, 32, 2) = v
             /\ Bits(c, 64, 2) = Bits(b, 64, 2) /\ Bits(c, 128, 2) = Bits(b, 128, 2)
  BY <1>2 DEF Changed, Bits, Octet, Within
<1>3. ASSUME Within(v, 0, 1), c = Changed(b, 64, 2, v)
      PROVE  /\ c \in Octet /\ Bits(c, 1, 32) = Bits(b, 1, 32) /\ Bits(c, 32, 2) = Bits(b, 32, 2)
             /\ Bits(c, 64, 2) = v /\ Bits(c, 128, 2) = Bits(b, 128, 2)
  BY <1>3 DEF Changed, Bits, Octet, Within
<1>4. ASSUME Within(v, 0, 1), c = Changed(b, 128, 2, v)
      PROVE  /\ c \in Octet /\ Bits(c, 1, 32) = Bits(b, 1, 32) /\ Bits(c, 32, 2) = Bits(b, 32, 2)
             /\ Bits(c, 64, 2) = Bits(b, 64, 2) /\ Bits(c, 128, 2) = v
  BY <1>4 DEF Changed, Bits, Octet, Within
<1> QED
  BY <1>1, <1>2, <1>3, <1>4

\* A number of 16 bits is made of its two octets.
LEMMA TwoOctets ==
  ASSUME NEW n \in Nat, n < 65536
  PROVE  /\ n % 256 \in Octet /\ (n \div 256) % 256 \in Octet
         /\ (n % 256) + ((n \div 256) % 256) * 256 = n
<1>1. n \div 256 \in Nat /\ n \div 256 <= 255 /\ n % 256 \in Nat /\ n % 256 <= 255
  OBVIOUS
<1>2. (n \div 256) % 256 = n \div 256
  BY <1>1
<1> QED
  BY <1>1, <1>2 DEF Octet

\* Seconds and milliseconds are one number of 16 bits.
LEMMA Milliseconds ==
  ASSUME NEW m \in Nat, m < 65536, NEW v \in Nat
  PROVE  /\ m - (m % 1000) + v = (m \div 1000) * 1000 + v
         /\ (m \div 1000) * 1000 + v \in Nat /\ v * 1000 + (m % 1000) \in Nat
<1>1. m \div 1000 \in Nat /\ m % 1000 \in Nat /\ m = (m \div 1000) * 1000 + (m % 1000)
  OBVIOUS
<1> QED
  BY <1>1

\* Bits that are set to a number get its low bits.
LEMMA LowBits ==
  ASSUME NEW v \in Nat
  PROVE  /\ \A b, unit : Changed(b, unit, 64, v) = Changed(b, unit, 64, v % 64)
         /\ \A b, unit : Changed(b, unit, 32, v) = Changed(b, unit, 32, v % 32)
         /\ \A b, unit : Changed(b, unit, 8, v) = Changed(b, unit, 8, v % 8)
         /\ \A b, unit : Changed(b, unit, 16, v) = Changed(b, unit, 16, v % 16)
         /\ Within(v % 64, 0, 63) /\ Within(v % 32, 0, 31)
         /\ Within(v % 8, 0, 7) /\ Within(v % 16, 0, 15)
<1>1. /\ (v % 64) % 64 = v % 64 /\ (v % 32) % 32 = v % 32
      /\ (v % 8) % 8 = v % 8 /\ (v % 16) % 16 = v % 16
  OBVIOUS
<1>2. /\ Within(v % 64, 0, 63) /\ Within(v % 32, 0, 31)
      /\ Within(v % 8, 0, 7) /\ Within(v % 16, 0, 15)
  BY DEF Within
<1> QED
  BY <1>1, <1>2 DEF Changed

\* What is read after a field is set: itself and the other fields, ...
LEMMA ReadAsSet ==
  ASSUME NEW r, NEW f, f \notin Shared, NEW v
  PROVE  \A h : ReadAs(r, f, v, h) = IF h = f THEN Meaning(f, v) ELSE r[h]
BY DEF ReadAs

\* ... and the second and the millisecond together.
LEMMA ReadAsShared ==
  ASSUME NEW r, NEW f \in Shared, NEW v
  PROVE  /\ ReadAs(r, f, v, "second") = Carried(r, f, v) \div 1000
         /\ ReadAs(r, f, v, "millisecond") = Carried(r, f, v) % 1000
BY DEF ReadAs, Shared

\* A field that is not set, and shares no number, stays.
LEMMA ReadAsElse ==
  ASSUME NEW r, NEW f, NEW v, NEW h, h \notin Shared, h # f
  PROVE  ReadAs(r, f, v, h) = r[h]
<1>1. h # "second" /\ h # "millisecond"
  BY DEF Shared
<1> QED
  BY <1>1 DEF ReadAs

(***************************************************************************)
(* Getters and setters                                                     *)
(***************************************************************************)
\* What the values of a field are.
Booleans == {"invalid", "substituted", "summerTime", "carry", "adjusted"}
LEMMA Ranges ==
  ASSUME NEW f, NEW v, InRange(f, v)
  PROVE  /\ f = "value" => v \in Int /\ -2147483647 - 1 <= v /\ v <= 2147483647
         /\ f \in Booleans => Within(v, 0, 1)
         /\ f # "value" => v \in Nat
<1>1. f = "value" => v \in Int /\ -2147483647 - 1 <= v /\ v <= 2147483647
  BY SMT DEF InRange, Within
<1>2. f \in Booleans => Within(v, 0, 1)
  BY SMT DEF InRange, Within, Booleans
<1>3. f # "value" => v \in Nat
  BY SMT DEF InRange, Within
<1> QED
  BY <1>1, <1>2, <1>3

\* The milliseconds of the minute are set, and the other octets stay.
LEMMA MilliesSet ==
  ASSUME NEW n \in Nat, n >= 2, NEW o \in [1..n -> Octet], NEW m \in Nat
  PROVE  /\ WithMillies(o, m) \in [1..n -> Octet] /\ Millies(WithMillies(o, m)) = m % 65536
         /\ \A j \in 3..n : WithMillies(o, m)[j] = o[j]
<1> DEFINE k == m % 65536
<1>1. k \in Nat /\ k < 65536
  OBVIOUS
<1>2. m % 256 = k % 256 /\ (m \div 256) % 256 = (k \div 256) % 256
  OBVIOUS
<1> HIDE DEF k
<1>3. m % 256 \in Octet /\ (m \div 256) % 256 \in Octet
      /\ (m % 256) + ((m \div 256) % 256) * 256 = k
  BY <1>1, <1>2, TwoOctets
<1>4. 1 \in 1..n /\ 2 \in 1..n /\ \A j \in 3..n : j \in 1..n /\ j # 1 /\ j # 2
  OBVIOUS
<1>5. /\ WithMillies(o, m) \in [1..n -> Octet]
      /\ WithMillies(o, m)[1] = m % 256 /\ WithMillies(o, m)[2] = (m \div 256) % 256
      /\ \A j \in 3..n : WithMillies(o, m)[j] = o[j]
  BY <1>3, <1>4 DEF WithMillies
<1>6. Millies(WithMillies(o, m)) = k
  BY <1>3, <1>5 DEF Millies
<1> QED
  BY <1>5, <1>6 DEF k

\* Two octets hold a number of 16 bits.
LEMMA MilliesOf ==
  ASSUME NEW n \in Nat, n >= 2, NEW o \in [1..n -> Octet]
  PROVE  Millies(o) \in Nat /\ Millies(o) < 65536
<1>1. o[1] \in Octet /\ o[2] \in Octet
  OBVIOUS
<1> QED
  BY <1>1 DEF Millies, Octet

\* The number that the first two octets hold after the second or the millisecond is set.
LEMMA SetShared ==
  ASSUME NEW n \in Nat, n >= 3, NEW o \in [1..n -> Octet], NEW f \in Shared, NEW v \in Nat,
         NEW r, r["second"] = getSecond(o), r["millisecond"] = getMillisecond(o),
         NEW p, \/ f = "second" /\ p = setSecond(o, v)
                \/ f = "millisecond" /\ p = setMillisecond(o, v)
                \/ f = "millisecond" /\ p = WithMillies(o, getSecond(o) * 1000 + v)
  PROVE  /\ p \in [1..n -> Octet] /\ \A j \in 3..n : p[j] = o[j]
         /\ getSecond(p) = ReadAs(r, f, v, "second")
         /\ getMillisecond(p) = ReadAs(r, f, v, "millisecond")
<1> DEFINE m == Millies(o)
           k == IF f = "second" THEN v * 1000 + (m % 1000) ELSE (m \div 1000) * 1000 + v
<1>1. m \in Nat /\ m < 65536
  BY MilliesOf
<1>2. getSecond(o) = m \div 1000 /\ getMillisecond(o) = m % 1000
  BY DEF getSecond, getMillisecond
<1> HIDE DEF m
<1>3. k \in Nat /\ m - (m % 1000) + v = (m \div 1000) * 1000 + v
  BY <1>1, Milliseconds
<1>4. p = WithMillies(o, k)
  <2>1. CASE f = "second" /\ p = setSecond(o, v)
    BY <2>1 DEF setSecond, m
  <2>2. CASE f = "millisecond" /\ p = setMillisecond(o, v)
    <3>1. p = WithMillies(o, m - (m % 1000) + v)
      BY <2>2 DEF setMillisecond, m
    <3> QED
      BY <1>3, <2>2, <3>1
  <2>3. CASE f = "millisecond" /\ p = WithMillies(o, getSecond(o) * 1000 + v)
    BY <1>2, <2>3
  <2> QED
    BY <2>1, <2>2, <2>3
<1>5. Carried(r, f, v) = k % 65536
  BY <1>2 DEF Carried
<1> HIDE DEF k
<1>6. /\ p \in [1..n -> Octet] /\ Millies(p) = k % 65536 /\ \A j \in 3..n : p[j] = o[j]
  BY <1>3, <1>4, MilliesSet
<1> QED
  BY <1>5, <1>6, ReadAsShared DEF getSecond, getMillisecond

\* CP24Time2a: a field is read as it was set, and so are the others.
LEMMA Set24 ==
  ASSUME NEW n \in Nat, n >= 3, NEW o \in [1..n -> Octet], NEW f \in Fields24, NEW v,
         InRange(f, v), NEW r, \A g \in Fields24 : getCP24(o, g) = r[g],
         NEW p, p = setCP24(o, f, v)
  PROVE  /\ p \in [1..n -> Octet] /\ \A j \in 4..n : p[j] = o[j]
         /\ \A g \in Fields24 : getCP24(p, g) = ReadAs(r, f, v, g)
<1> DEFINE m == Millies(o)
           Others == \A g \in Fields24 : getCP24(p, g) = IF g = f THEN Meaning(f, v)
                                                        ELSE getCP24(o, g)
<1>1. /\ o[3] \in Octet /\ 3 \in 1..n /\ 3 \in 3..n /\ 1 \in 1..n /\ 2 \in 1..n
      /\ \A j \in 4..n : j \in 1..n /\ j \in 3..n /\ j # 3
  OBVIOUS
<1>2. ASSUME f \in Shared
      PROVE  /\ p \in [1..n -> Octet] /\ \A j \in 4..n : p[j] = o[j]
             /\ \A g \in Fields24 : getCP24(p, g) = ReadAs(r, f, v, g)
  <2>1. v \in Nat
    BY <1>2, Ranges DEF Shared
  <2>2. r["second"] = getSecond(o) /\ r["millisecond"] = getMillisecond(o)
    BY DEF Fields24, getCP24
  <2>3. \/ f = "second" /\ p = setSecond(o, v)
        \/ f = "millisecond" /\ p = setMillisecond(o, v)
    BY <1>2 DEF Shared, setCP24
  <2>4. /\ p \in [1..n -> Octet] /\ \A j \in 3..n : p[j] = o[j]
        /\ getSecond(p) = ReadAs(r, f, v, "second")
        /\ getMillisecond(p) = ReadAs(r, f, v, "millisecond")
    BY <1>2, <2>1, <2>2, <2>3, SetShared
  <2>5. p[3] = o[3] /\ \A j \in 4..n : p[j] = o[j]
    BY <1>1, <2>4
  <2>6. ASSUME NEW g \in Fields24, g \notin Shared
        PROVE  getCP24(p, g) = ReadAs(r, f, v, g)
    <3>1. getCP24(p, g) = getCP24(o, g)
      BY <2>5, <2>6 DEF Fields24, Shared, getCP24, getMinute, isInvalid, isSubstituted, IsSet
    <3>2. ReadAs(r, f, v, g) = r[g]
      BY <1>2, <2>6, ReadAsElse
    <3> QED
      BY <3>1, <3>2
  <2>7. getCP24(p, "second") = getSecond(p) /\ getCP24(p, "millisecond") = getMillisecond(p)
    BY DEF getCP24
  <2>8. \A g \in Shared : g = "second" \/ g = "millisecond"
    BY DEF Shared
  <2> QED
    BY <2>4, <2>5, <2>6, <2>7, <2>8
<1>3. ASSUME f \notin Shared, p \in [1..n -> Octet], \A j \in 4..n : p[j] = o[j], Others
      PROVE  /\ p \in [1..n -> Octet] /\ \A j \in 4..n : p[j] = o[j]
             /\ \A g \in Fields24 : getCP24(p, g) = ReadAs(r, f, v, g)
  <2>1. \A g : ReadAs(r, f, v, g) = IF g = f THEN Meaning(f, v) ELSE r[g]
    BY <1>3, ReadAsSet
  <2> QED
    BY <1>3, <2>1
<1>4. ASSUME NEW unit, NEW count, NEW value, Changed(o[3], unit, count, value) \in Octet,
             p = WithBits(o, 3, unit, count, value)
      PROVE  /\ p \in [1..n -> Octet] /\ \A j \in 4..n : p[j] = o[j]
             /\ p[3] = Changed(o[3], unit, count, value) /\ Millies(p) = m
  <2>1. /\ p \in [1..n -> Octet] /\ p[3] = Changed(o[3], unit, count, value)
        /\ \A j \in 1..n : j # 3 => p[j] = o[j]
    BY <1>1, <1>4, OneOctet
  <2>2. Millies(p) = m
    BY <1>1, <2>1 DEF Millies
  <2> QED
    BY <1>1, <2>1, <2>2
<1>5. CASE f = "minute"
  <2>1. v \in Nat /\ Meaning(f, v) = v % 64 /\ f \notin Shared
    BY <1>5, Ranges DEF Meaning, Shared
  <2>2. Within(v % 64, 0, 63) /\ Changed(o[3], 1, 64, v) = Changed(o[3], 1, 64, v % 64)
    BY <2>1, LowBits
  <2>3. p = WithBits(o, 3, 1, 64, v)
    BY <1>5 DEF setCP24, setMinute
  <2>4. Changed(o[3], 1, 64, v) \in Octet
    BY <1>1, <2>2, MinuteBits
  <2>5. /\ p \in [1..n -> Octet] /\ \A j \in 4..n : p[j] = o[j]
        /\ p[3] = Changed(o[3], 1, 64, v % 64) /\ Millies(p) = m
    BY <1>4, <2>2, <2>3, <2>4
  <2>6. Others
    BY <1>1, <1>5, <2>1, <2>2, <2>5, MinuteBits
       DEF getCP24, Fields24, getMillisecond, getSecond, getMinute, isInvalid, isSubstituted,
           IsSet
  <2> QED
    BY <1>3, <2>1, <2>5, <2>6
<1>6. CASE f = "invalid"
  <2>1. Within(v, 0, 1) /\ Meaning(f, v) = v /\ f \notin Shared
    BY <1>6, Ranges DEF Booleans, Meaning, Shared
  <2>2. p = WithBits(o, 3, 128, 2, v)
    BY <1>6 DEF setCP24, setInvalid, Flag
  <2>3. Changed(o[3], 128, 2, v) \in Octet
    BY <1>1, <2>1, MinuteBits
  <2>4. /\ p \in [1..n -> Octet] /\ \A j \in 4..n : p[j] = o[j]
        /\ p[3] = Changed(o[3], 128, 2, v) /\ Millies(p) = m
    BY <1>4, <2>2, <2>3
  <2>5. Others
    BY <1>1, <1>6, <2>1, <2>4, MinuteBits
       DEF getCP24, Fields24, getMillisecond, getSecond, getMinute, isInvalid, isSubstituted,
           IsSet
  <2> QED
    BY <1>3, <2>1, <2>4, <2>5
<1>7. CASE f = "substituted"
  <2>1. Within(v, 0, 1) /\ Meaning(f, v) = v /\ f \notin Shared
    BY <1>7, Ranges DEF Booleans, Meaning, Shared
  <2>2. p = WithBits(o, 3, 64, 2, v)
    BY <1>7 DEF setCP24, setSubstituted, Flag
  <2>3. Changed(o[3], 64, 2, v) \in Octet
    BY <1>1, <2>1, MinuteBits
  <2>4. /\ p \in [1..n -> Octet] /\ \A j \in 4..n : p[j] = o[j]
        /\ p[3] = Changed(o[3], 64, 2, v) /\ Millies(p) = m
    BY <1>4, <2>2, <2>3
  <2>5. Others
    BY <1>1, <1>7, <2>1, <2>4, MinuteBits
       DEF getCP24, Fields24, getMillisecond, getSecond, getMinute, isInvalid, isSubstituted,
           IsSet
  <2> QED
    BY <1>3, <2>1, <2>4, <2>5
<1> QED
  BY <1>2, <1>5, <1>6, <1>7 DEF Fields24, Shared

\* The first three octets are all that CP24Time2a reads.
LEMMA Same24 ==
  ASSUME NEW o, NEW p, p[1] = o[1], p[2] = o[2], p[3] = o[3]
  PROVE  Millies(p) = Millies(o) /\ \A g \in Fields24 : getCP24(p, g) = getCP24(o, g)
BY DEF Fields24, getCP24, getMillisecond, getSecond, getMinute, isInvalid, isSubstituted,
       IsSet, Millies

\* The fourth octet is all that CP32Time2a adds.
LEMMA Same32 ==
  ASSUME NEW o, NEW p, p[1] = o[1], p[2] = o[2], p[3] = o[3], p[4] = o[4]
  PROVE  Millies(p) = Millies(o) /\ \A g \in Fields32 : getCP32(p, g) = getCP32(o, g)
<1>1. Millies(p) = Millies(o) /\ \A g \in Fields24 : getCP24(p, g) = getCP24(o, g)
  BY Same24
<1> QED
  BY <1>1 DEF Fields32, getCP32, IsSet

\* CP32Time2a.
LEMMA Set32 ==
  ASSUME NEW n \in Nat, n >= 4, NEW o \in [1..n -> Octet], NEW f \in Fields32, NEW v,
         InRange(f, v), NEW r, \A g \in Fields32 : getCP32(o, g) = r[g],
         NEW p, p = setCP32(o, f, v)
  PROVE  /\ p \in [1..n -> Octet] /\ \A j \in 5..n : p[j] = o[j]
         /\ \A g \in Fields32 : getCP32(p, g) = ReadAs(r, f, v, g)
<1>1. /\ o[4] \in Octet
      /\ 1 \in 1..n /\ 2 \in 1..n /\ 3 \in 1..n /\ 4 \in 1..n /\ 4 \in 4..n /\ n >= 3
      /\ 3 \in 3..n /\ \A j \in 5..n : j \in 1..n /\ j # 4 /\ j \in 4..n
      /\ \A j \in 4..n : j \in 3..n
  OBVIOUS
<1>2. \A g \in Fields24 : g # "hour" /\ g # "summerTime"
  BY DEF Fields24
<1>3. \A g \in Fields24 : getCP24(o, g) = r[g]
  BY <1>2 DEF Fields32, getCP32
<1>4. ASSUME NEW unit, NEW count, NEW value, Changed(o[4], unit, count, value) \in Octet,
             p = WithBits(o, 4, unit, count, value)
      PROVE  /\ p \in [1..n -> Octet] /\ \A j \in 5..n : p[j] = o[j]
             /\ p[4] = Changed(o[4], unit, count, value)
             /\ \A g \in Fields24 : getCP24(p, g) = getCP24(o, g)
  <2>1. /\ p \in [1..n -> Octet] /\ p[4] = Changed(o[4], unit, count, value)
        /\ \A j \in 1..n : j # 4 => p[j] = o[j]
    BY <1>1, <1>4, OneOctet
  <2>2. \A g \in Fields24 : getCP24(p, g) = getCP24(o, g)
    BY <1>1, <2>1, Same24
  <2> QED
    BY <1>1, <2>1, <2>2
<1>5. ASSUME f \notin Shared,
             \A g \in Fields32 : getCP32(p, g) = IF g = f THEN Meaning(f, v)
                                                 ELSE getCP32(o, g)
      PROVE  \A g \in Fields32 : getCP32(p, g) = ReadAs(r, f, v, g)
  <2>1. \A g : ReadAs(r, f, v, g) = IF g = f THEN Meaning(f, v) ELSE r[g]
    BY <1>5, ReadAsSet
  <2> QED
    BY <1>5, <2>1
<1>6. CASE f = "hour"
  <2>1. v \in Nat /\ Meaning(f, v) = v % 32 /\ f \notin Shared
    BY <1>6, Ranges DEF Meaning, Shared
  <2>2. Within(v % 32, 0, 31) /\ Changed(o[4], 1, 32, v) = Changed(o[4], 1, 32, v % 32)
    BY <2>1, LowBits
  <2>3. p = WithBits(o, 4, 1, 32, v)
    BY <1>6 DEF setCP32
  <2>4. /\ Changed(o[4], 1, 32, v) \in Octet /\ Bits(Changed(o[4], 1, 32, v), 1, 32) = v % 32
        /\ Bits(Changed(o[4], 1, 32, v), 128, 2) = Bits(o[4], 128, 2)
    BY <1>1, <2>2, HourBits
  <2>5. \A g \in Fields32 : getCP32(p, g) = IF g = f THEN v % 32 ELSE getCP32(o, g)
    BY <1>2, <1>4, <1>6, <2>3, <2>4 DEF getCP32, Fields32, IsSet
  <2> QED
    BY <1>4, <1>5, <2>1, <2>3, <2>4, <2>5
<1>7. CASE f = "summerTime"
  <2>1. Within(v, 0, 1) /\ Meaning(f, v) = v /\ f \notin Shared
    BY <1>7, Ranges DEF Booleans, Meaning, Shared
  <2>2. p = WithBits(o, 4, 128, 2, v)
    BY <1>7 DEF setCP32, Flag
  <2>3. /\ Changed(o[4], 128, 2, v) \in Octet /\ Bits(Changed(o[4], 128, 2, v), 128, 2) = v
        /\ Bits(Changed(o[4], 128, 2, v), 1, 32) = Bits(o[4], 1, 32)
    BY <1>1, <2>1, HourBits
  <2>4. \A g \in Fields32 : getCP32(p, g) = IF g = f THEN v ELSE getCP32(o, g)
    BY <1>2, <1>4, <1>7, <2>2, <2>3 DEF getCP32, Fields32, IsSet
  <2> QED
    BY <1>4, <1>5, <2>1, <2>2, <2>3, <2>4
<1>8. ASSUME f \in Fields24, p \in [1..n -> Octet], \A j \in 4..n : p[j] = o[j],
             \A g \in Fields24 : getCP24(p, g) = ReadAs(r, f, v, g)
      PROVE  /\ p \in [1..n -> Octet] /\ \A j \in 5..n : p[j] = o[j]
             /\ \A g \in Fields32 : getCP32(p, g) = ReadAs(r, f, v, g)
  <2>1. p[4] = o[4] /\ \A j \in 5..n : p[j] = o[j]
    BY <1>1, <1>8
  <2>2. ASSUME NEW g \in {"hour", "summerTime"}
        PROVE  getCP32(p, g) = ReadAs(r, f, v, g)
    <3>1. g \notin Shared /\ g # f /\ g \in Fields32
      BY <1>2, <1>8 DEF Shared, Fields32
    <3>2. ReadAs(r, f, v, g) = r[g]
      BY <3>1, ReadAsElse
    <3>3. getCP32(p, g) = getCP32(o, g)
      BY <2>1 DEF getCP32, IsSet
    <3> QED
      BY <3>1, <3>2, <3>3
  <2>3. \A g \in Fields24 : getCP32(p, g) = getCP24(p, g)
    BY <1>2 DEF getCP32
  <2> QED
    BY <1>8, <2>1, <2>2, <2>3 DEF Fields32
<1>9. CASE f = "millisecond"
  <2>1. /\ v \in Nat /\ f \in Shared /\ f \in Fields24
        /\ p = WithMillies(o, getSecond(o) * 1000 + v)
    BY <1>9, Ranges DEF setCP32, Fields24, Shared
  <2>2. r["second"] = getSecond(o) /\ r["millisecond"] = getMillisecond(o)
    BY <1>3 DEF Fields24, getCP24
  <2>3. /\ p \in [1..n -> Octet] /\ \A j \in 3..n : p[j] = o[j]
        /\ getSecond(p) = ReadAs(r, f, v, "second")
        /\ getMillisecond(p) = ReadAs(r, f, v, "millisecond")
    BY <1>1, <1>9, <2>1, <2>2, SetShared
  <2>4. p[3] = o[3] /\ \A j \in 4..n : p[j] = o[j]
    BY <1>1, <2>3
  <2>5. ASSUME NEW g \in Fields24
        PROVE  getCP24(p, g) = ReadAs(r, f, v, g)
    <3>1. CASE g \in Shared
      BY <2>3, <3>1 DEF Shared, getCP24
    <3>2. CASE g \notin Shared
      <4>1. getCP24(p, g) = getCP24(o, g)
        BY <2>4, <3>2 DEF Fields24, Shared, getCP24, getMinute, isInvalid, isSubstituted, IsSet
      <4>2. ReadAs(r, f, v, g) = r[g]
        BY <2>1, <3>2, ReadAsElse
      <4> QED
        BY <1>3, <4>1, <4>2
    <3> QED
      BY <3>1, <3>2
  <2> QED
    BY <1>8, <2>1, <2>3, <2>4, <2>5
<1>10. CASE f \in Fields24 /\ f # "millisecond"
  <2>1. p = setCP24(o, f, v)
    BY <1>2, <1>10 DEF setCP32
  <2> QED
    BY <1>1, <1>3, <1>8, <1>10, <2>1, Set24
<1> QED
  BY <1>6, <1>7, <1>9, <1>10 DEF Fields32

\* CP56Time2a.
LEMMA Set56 ==
  ASSUME NEW n \in Nat, n >= 7, NEW o \in [1..n -> Octet], NEW f \in Fields56, NEW v,
         InRange(f, v), NEW r, \A g \in Fields56 : getCP56(o, g) = r[g],
         NEW p, p = setCP56(o, f, v)
  PROVE  /\ p \in [1..n -> Octet]
         /\ \A g \in Fields56 : getCP56(p, g) = ReadAs(r, f, v, g)
<1> DEFINE Right == /\ p \in [1..n -> Octet]
                    /\ \A g \in Fields56 : getCP56(p, g) = ReadAs(r, f, v, g)
<1>0. ASSUME f \notin Shared, p \in [1..n -> Octet],
             \A g \in Fields56 : getCP56(p, g) = IF g = f THEN Meaning(f, v)
                                                 ELSE getCP56(o, g)
      PROVE  Right
  <2>1. \A g : ReadAs(r, f, v, g) = IF g = f THEN Meaning(f, v) ELSE r[g]
    BY <1>0, ReadAsSet
  <2> QED
    BY <1>0, <2>1
<1>1. /\ o[5] \in Octet /\ o[6] \in Octet /\ o[7] \in Octet /\ n >= 3 /\ n >= 4
      /\ \A i \in {1, 2, 3, 4, 5, 6, 7} : i \in 1..n
  OBVIOUS
<1>2. \A g \in Fields32 : g \notin FieldsDate /\ getCP56(p, g) = getCP32(p, g)
                          /\ getCP56(o, g) = getCP32(o, g)
  BY DEF Fields32, Fields24, FieldsDate, getCP56
<1>3. \A g \in Fields56 : g \in Fields32 \/ g \in FieldsDate
  BY DEF Fields56
<1>4. ASSUME NEW i \in {5, 6, 7}, NEW unit, NEW count, NEW value,
             Changed(o[i], unit, count, value) \in Octet,
             p = WithBits(o, i, unit, count, value)
      PROVE  /\ p \in [1..n -> Octet] /\ p[i] = Changed(o[i], unit, count, value)
             /\ \A j \in {5, 6, 7} : j # i => p[j] = o[j]
             /\ \A g \in Fields32 : getCP56(p, g) = getCP56(o, g)
  <2>1. /\ p \in [1..n -> Octet] /\ p[i] = Changed(o[i], unit, count, value)
        /\ \A j \in 1..n : j # i => p[j] = o[j]
    BY <1>1, <1>4, OneOctet
  <2>2. p[1] = o[1] /\ p[2] = o[2] /\ p[3] = o[3] /\ p[4] = o[4]
    BY <1>1, <2>1
  <2>3. \A g \in Fields32 : getCP32(p, g) = getCP32(o, g)
    BY <2>2, Same32
  <2> QED
    BY <1>1, <1>2, <2>1, <2>3
<1>5. ASSUME f = "dayOfWeek"
      PROVE  Right
  <2>0. v \in Nat /\ Meaning(f, v) = v % 8 /\ f \in FieldsDate /\ f \notin Shared
    BY <1>5, Ranges DEF Meaning, FieldsDate, Shared
  <2>1. /\ p = WithBits(o, 5, 32, 8, v) /\ Within(v % 8, 0, 7)
        /\ Changed(o[5], 32, 8, v) = Changed(o[5], 32, 8, v % 8)
    <3>1. setDate(o, f, v) = WithBits(o, 5, 32, 8, v)
      BY <1>5 DEF setDate
    <3>2. p = setDate(o, f, v)
      BY <2>0 DEF setCP56
    <3>3. /\ Within(v % 8, 0, 7)
          /\ Changed(o[5], 32, 8, v) = Changed(o[5], 32, 8, v % 8)
      BY <2>0, LowBits
    <3> QED
      BY <3>1, <3>2, <3>3
  <2>2. /\ Changed(o[5], 32, 8, v) \in Octet /\ Bits(Changed(o[5], 32, 8, v), 32, 8) = v % 8
        /\ Bits(Changed(o[5], 32, 8, v), 1, 32) = Bits(o[5], 1, 32)
    BY <1>1, <2>1, DateBits
  <2>3. /\ p \in [1..n -> Octet] /\ p[5] = Changed(o[5], 32, 8, v) /\ p[6] = o[6] /\ p[7] = o[7]
        /\ \A g \in Fields32 : getCP56(p, g) = getCP56(o, g)
    BY <1>4, <2>1, <2>2
  <2>4. \A g \in FieldsDate : getCP56(p, g) = IF g = f THEN v % 8 ELSE getCP56(o, g)
    BY <1>5, <2>2, <2>3 DEF getCP56, getDate, FieldsDate
  <2>5. \A g \in Fields56 : getCP56(p, g) = IF g = f THEN v % 8 ELSE getCP56(o, g)
    BY <1>2, <1>3, <2>0, <2>3, <2>4
  <2> QED
    BY <1>0, <2>0, <2>3, <2>5
<1>6. ASSUME f = "dayOfMonth"
      PROVE  Right
  <2>0. v \in Nat /\ Meaning(f, v) = v % 32 /\ f \in FieldsDate /\ f \notin Shared
    BY <1>6, Ranges DEF Meaning, FieldsDate, Shared
  <2>1. /\ p = WithBits(o, 5, 1, 32, v) /\ Within(v % 32, 0, 31)
        /\ Changed(o[5], 1, 32, v) = Changed(o[5], 1, 32, v % 32)
    <3>1. setDate(o, f, v) = WithBits(o, 5, 1, 32, v)
      BY <1>6 DEF setDate
    <3>2. p = setDate(o, f, v)
      BY <2>0 DEF setCP56
    <3>3. /\ Within(v % 32, 0, 31)
          /\ Changed(o[5], 1, 32, v) = Changed(o[5], 1, 32, v % 32)
      BY <2>0, LowBits
    <3> QED
      BY <3>1, <3>2, <3>3
  <2>2. /\ Changed(o[5], 1, 32, v) \in Octet /\ Bits(Changed(o[5], 1, 32, v), 1, 32) = v % 32
        /\ Bits(Changed(o[5], 1, 32, v), 32, 8) = Bits(o[5], 32, 8)
    BY <1>1, <2>1, DateBits
  <2>3. /\ p \in [1..n -> Octet] /\ p[5] = Changed(o[5], 1, 32, v) /\ p[6] = o[6] /\ p[7] = o[7]
        /\ \A g \in Fields32 : getCP56(p, g) = getCP56(o, g)
    BY <1>4, <2>1, <2>2
  <2>4. \A g \in FieldsDate : getCP56(p, g) = IF g = f THEN v % 32 ELSE getCP56(o, g)
    BY <1>6, <2>2, <2>3 DEF getCP56, getDate, FieldsDate
  <2>5. \A g \in Fields56 : getCP56(p, g) = IF g = f THEN v % 32 ELSE getCP56(o, g)
    BY <1>2, <1>3, <2>0, <2>3, <2>4
  <2> QED
    BY <1>0, <2>0, <2>3, <2>5
<1>7. ASSUME f = "month"
      PROVE  Right
  <2>0. v \in Nat /\ Meaning(f, v) = v % 16 /\ f \in FieldsDate /\ f \notin Shared
    BY <1>7, Ranges DEF Meaning, FieldsDate, Shared
  <2>1. /\ p = WithBits(o, 6, 1, 16, v) /\ Within(v % 16, 0, 15)
        /\ Changed(o[6], 1, 16, v) = Changed(o[6], 1, 16, v % 16)
    <3>1. setDate(o, f, v) = WithBits(o, 6, 1, 16, v)
      BY <1>7 DEF setDate
    <3>2. p = setDate(o, f, v)
      BY <2>0 DEF setCP56
    <3>3. v \in Nat
      BY <2>0
    <3>4. /\ Within(v % 16, 0, 15)
          /\ \A b, unit : Changed(b, unit, 16, v) = Changed(b, unit, 16, v % 16)
      BY <3>3, LowBits
    <3> QED
      BY <3>1, <3>2, <3>4
  <2>2. Changed(o[6], 1, 16, v) \in Octet /\ Bits(Changed(o[6], 1, 16, v), 1, 16) = v % 16
    BY <1>1, <2>1, DateBits
  <2>3. /\ p \in [1..n -> Octet] /\ p[6] = Changed(o[6], 1, 16, v) /\ p[5] = o[5] /\ p[7] = o[7]
        /\ \A g \in Fields32 : getCP56(p, g) = getCP56(o, g)
    BY <1>4, <2>1, <2>2
  <2>4. \A g \in FieldsDate : getCP56(p, g) = IF g = f THEN v % 16 ELSE getCP56(o, g)
    BY <1>7, <2>2, <2>3 DEF getCP56, getDate, FieldsDate
  <2>5. \A g \in Fields56 : getCP56(p, g) = IF g = f THEN v % 16 ELSE getCP56(o, g)
    BY <1>2, <1>3, <2>0, <2>3, <2>4
  <2> QED
    BY <1>0, <2>0, <2>3, <2>5
<1>8. ASSUME f = "year"
      PROVE  Right
  <2>0. v \in Nat /\ Meaning(f, v) = v % 100 /\ f \in FieldsDate /\ f \notin Shared
    BY <1>8, Ranges DEF Meaning, FieldsDate, Shared
  <2>1. p = WithBits(o, 7, 1, 128, v % 100)
    <3>1. setDate(o, f, v) = WithBits(o, 7, 1, 128, v % 100)
      BY <1>8 DEF setDate
    <3>2. p = setDate(o, f, v)
      BY <2>0 DEF setCP56
    <3> QED
      BY <3>1, <3>2
  <2>2. Within(v % 100, 0, 127)
    BY <2>0 DEF Within
  <2>3. /\ Changed(o[7], 1, 128, v % 100) \in Octet
        /\ Bits(Changed(o[7], 1, 128, v % 100), 1, 128) = v % 100
    BY <1>1, <2>2, DateBits
  <2>4. /\ p \in [1..n -> Octet] /\ p[7] = Changed(o[7], 1, 128, v % 100)
        /\ p[5] = o[5] /\ p[6] = o[6] /\ \A g \in Fields32 : getCP56(p, g) = getCP56(o, g)
    BY <1>4, <2>1, <2>3
  <2>5. \A g \in FieldsDate : getCP56(p, g) = IF g = f THEN v % 100 ELSE getCP56(o, g)
    BY <1>8, <2>3, <2>4 DEF getCP56, getDate, FieldsDate
  <2>6. \A g \in Fields56 : getCP56(p, g) = IF g = f THEN v % 100 ELSE getCP56(o, g)
    BY <1>2, <1>3, <2>0, <2>4, <2>5
  <2> QED
    BY <1>0, <2>0, <2>4, <2>6
<1>9. ASSUME f \in Fields32
      PROVE  Right
  <2>1. \A g \in Fields32 : getCP32(o, g) = r[g] /\ g \in Fields56
    BY <1>2 DEF Fields56
  <2>2. ASSUME p \in [1..n -> Octet], \A j \in 5..n : p[j] = o[j],
               \A g \in Fields32 : getCP32(p, g) = ReadAs(r, f, v, g)
        PROVE  Right
    <3>1. p[5] = o[5] /\ p[6] = o[6] /\ p[7] = o[7]
      BY <1>1, <2>2
    <3>2. ASSUME NEW g \in FieldsDate
          PROVE  getCP56(p, g) = ReadAs(r, f, v, g)
      <4>1. g # f /\ g \notin Shared /\ g \in Fields56
        BY <1>2, <1>9 DEF FieldsDate, Shared, Fields56
      <4>2. getCP56(p, g) = getCP56(o, g)
        BY <3>1 DEF getCP56, getDate, FieldsDate
      <4>3. ReadAs(r, f, v, g) = r[g]
        BY <4>1, ReadAsElse
      <4> QED
        BY <4>1, <4>2, <4>3
    <3>3. \A g \in Fields32 : getCP56(p, g) = ReadAs(r, f, v, g)
      BY <1>2, <2>2
    <3> QED
      BY <1>3, <2>2, <3>2, <3>3
  <2>3. CASE f \notin Fields24
    <3>1. p = setCP32(o, f, v)
      BY <1>2, <1>9, <2>3 DEF setCP56
    <3> QED
      BY <1>1, <1>9, <2>1, <2>2, <3>1, Set32
  <2>4. CASE f \in Fields24
    <3>1. p = setCP24(o, f, v)
      BY <1>2, <1>9, <2>4 DEF setCP56
    <3>2. \A g \in Fields24 : g # "hour" /\ g # "summerTime" /\ g \in Fields32
      BY DEF Fields24, Fields32
    <3>3. \A g \in Fields24 : getCP24(o, g) = r[g] /\ getCP32(p, g) = getCP24(p, g)
      BY <2>1, <3>2 DEF getCP32
    <3>4. /\ p \in [1..n -> Octet] /\ \A j \in 4..n : p[j] = o[j]
          /\ \A g \in Fields24 : getCP24(p, g) = ReadAs(r, f, v, g)
      BY <1>1, <2>4, <3>1, <3>3, Set24
    <3>5. p[4] = o[4] /\ \A j \in 5..n : p[j] = o[j]
      BY <1>1, <3>4
    <3>6. ASSUME NEW g \in {"hour", "summerTime"}
          PROVE  getCP32(p, g) = ReadAs(r, f, v, g)
      <4>1. g \notin Shared /\ g # f /\ g \in Fields32
        BY <2>4, <3>2 DEF Shared, Fields32
      <4>2. ReadAs(r, f, v, g) = r[g]
        BY <4>1, ReadAsElse
      <4>3. getCP32(p, g) = getCP32(o, g)
        BY <3>5 DEF getCP32, IsSet
      <4> QED
        BY <2>1, <4>1, <4>2, <4>3
    <3>7. \A g \in Fields32 : getCP32(p, g) = ReadAs(r, f, v, g)
      BY <3>3, <3>4, <3>6 DEF Fields32
    <3> QED
      BY <2>2, <3>4, <3>5, <3>7
  <2> QED
    BY <2>3, <2>4
<1>10. f \in FieldsDate => f \in {"dayOfWeek", "dayOfMonth", "month", "year"}
  BY DEF FieldsDate
<1> HIDE DEF Right
<1>11. Right
  BY <1>3, <1>5, <1>6, <1>7, <1>8, <1>9, <1>10
<1> QED
  BY <1>11 DEF Right

\* CP16Time2a.
LEMMA Set16 ==
  ASSUME NEW n \in Nat, n >= 2, NEW o \in [1..n -> Octet], NEW v, InRange("elapsed", v),
         NEW f, NEW p, p = setCP16(o, f, v)
  PROVE  p \in [1..n -> Octet] /\ getCP16(p, f) = v % 65536
<1>1. v \in Nat
  BY Ranges
<1>2. p = WithMillies(o, v) /\ getCP16(p, f) = Millies(p)
  BY DEF setCP16, WithMillies, getCP16, Millies
<1> QED
  BY <1>1, <1>2, MilliesSet

\* A signed number of 32 bits is made of its four octets.
Signed(a, b, c, d) == a + 256 * (b + 256 * (c + 256 * (IF d < 128 THEN d ELSE d - 256)))
LEMMA FourOctets ==
  ASSUME NEW v \in Int, -2147483647 - 1 <= v, v <= 2147483647,
         NEW a, a = v % 256, NEW b, b = (v \div 256) % 256,
         NEW c, c = (v \div 65536) % 256, NEW d, d = (v \div 16777216) % 256
  PROVE  Signed(a, b, c, d) = v /\ a \in Octet /\ b \in Octet /\ c \in Octet /\ d \in Octet
<1>1. v < 2147483648 /\ v >= 0 - 2147483648
  OBVIOUS
<1>2. Signed(a, b, c, d) = v
  BY <1>1 DEF Signed
<1>3. a \in Octet /\ b \in Octet /\ c \in Octet /\ d \in Octet
  BY DEF Octet
<1> QED
  BY <1>2, <1>3

\* BinaryCounterReading.
LEMMA SetBCR ==
  ASSUME NEW n \in Nat, n >= 5, NEW o \in [1..n -> Octet], NEW f \in FieldsBCR, NEW v,
         InRange(f, v), NEW p, p = setBCR(o, f, v)
  PROVE  /\ p \in [1..n -> Octet]
         /\ \A g \in FieldsBCR : getBCR(p, g) = IF g = f THEN Meaning(f, v) ELSE getBCR(o, g)
<1>1. o[5] \in Octet /\ \A i \in {1, 2, 3, 4, 5} : i \in 1..n
  OBVIOUS
<1>2. /\ \A q : getBCR(q, "value") = Signed(q[1], q[2], q[3], q[4])
      /\ \A q : getBCR(q, "sequenceNumber") = Bits(q[5], 1, 32)
      /\ \A q : getBCR(q, "carry") = Bits(q[5], 32, 2)
      /\ \A q : getBCR(q, "adjusted") = Bits(q[5], 64, 2)
      /\ \A q : getBCR(q, "invalid") = Bits(q[5], 128, 2)
  BY DEF getBCR, Signed, IsSet
<1>3. ASSUME NEW unit, NEW count, NEW value, Changed(o[5], unit, count, value) \in Octet,
             p = WithBits(o, 5, unit, count, value)
      PROVE  /\ p \in [1..n -> Octet] /\ p[5] = Changed(o[5], unit, count, value)
             /\ getBCR(p, "value") = getBCR(o, "value")
  <2>1. /\ p \in [1..n -> Octet] /\ p[5] = Changed(o[5], unit, count, value)
        /\ \A j \in 1..n : j # 5 => p[j] = o[j]
    BY <1>1, <1>3, OneOctet
  <2>2. p[1] = o[1] /\ p[2] = o[2] /\ p[3] = o[3] /\ p[4] = o[4]
    BY <1>1, <2>1
  <2> QED
    BY <1>2, <2>1, <2>2
<1>4. CASE f = "value"
  <2>0. Meaning(f, v) = v
    BY <1>4 DEF Meaning
  <2>1. v \in Int /\ -2147483647 - 1 <= v /\ v <= 2147483647
    BY <1>4, Ranges
  <2>2. p = [o EXCEPT ![1] = v % 256, ![2] = (v \div 256) % 256,
                      ![3] = (v \div 65536) % 256, ![4] = (v \div 16777216) % 256]
    BY <1>4 DEF setBCR
  <2> DEFINE a == v % 256
             b == (v \div 256) % 256
             c == (v \div 65536) % 256
             d == (v \div 16777216) % 256
  <2>3. Signed(a, b, c, d) = v /\ a \in Octet /\ b \in Octet /\ c \in Octet /\ d \in Octet
    BY <2>1, FourOctets
  <2>4. p = [o EXCEPT ![1] = a, ![2] = b, ![3] = c, ![4] = d]
    BY <2>2
  <2> HIDE DEF a, b, c, d
  <2>5. /\ p \in [1..n -> Octet] /\ p[5] = o[5]
        /\ p[1] = a /\ p[2] = b /\ p[3] = c /\ p[4] = d
    BY <1>1, <2>3, <2>4
  <2> QED
    BY <1>2, <1>4, <2>0, <2>3, <2>5 DEF FieldsBCR
<1>5. CASE f = "sequenceNumber"
  <2>1. v \in Nat /\ Meaning(f, v) = v % 32
    BY <1>5, Ranges DEF Meaning
  <2>2. Within(v % 32, 0, 31) /\ Changed(o[5], 1, 32, v) = Changed(o[5], 1, 32, v % 32)
    BY <2>1, LowBits
  <2>3. p = WithBits(o, 5, 1, 32, v)
    BY <1>5 DEF setBCR
  <2> QED
    BY <1>1, <1>2, <1>3, <1>5, <2>1, <2>2, <2>3, CounterBits DEF FieldsBCR
<1>6. CASE f = "carry"
  <2>1. Within(v, 0, 1) /\ Meaning(f, v) = v
    BY <1>6, Ranges DEF Booleans, Meaning
  <2>2. p = WithBits(o, 5, 32, 2, v)
    BY <1>6 DEF setBCR, Flag
  <2> QED
    BY <1>1, <1>2, <1>3, <1>6, <2>1, <2>2, CounterBits DEF FieldsBCR
<1>7. CASE f = "adjusted"
  <2>1. Within(v, 0, 1) /\ Meaning(f, v) = v
    BY <1>7, Ranges DEF Booleans, Meaning
  <2>2. p = WithBits(o, 5, 64, 2, v)
    BY <1>7 DEF setBCR, Flag
  <2> QED
    BY <1>1, <1>2, <1>3, <1>7, <2>1, <2>2, CounterBits DEF FieldsBCR
<1>8. CASE f = "invalid"
  <2>1. Within(v, 0, 1) /\ Meaning(f, v) = v
    BY <1>8, Ranges DEF Booleans, Meaning
  <2>2. p = WithBits(o, 5, 128, 2, v)
    BY <1>8 DEF setBCR, Flag
  <2> QED
    BY <1>1, <1>2, <1>3, <1>8, <2>1, <2>2, CounterBits DEF FieldsBCR
<1> QED
  BY <1>4, <1>5, <1>6, <1>7, <1>8 DEF FieldsBCR

(***************************************************************************)
(* The calendar                                                            *)
(***************************************************************************)
\* The leap years from 1970 on.
Leaps(year) == {y \in 1970..(year - 1) : IsLeap(y)}

\* From 1970 to 2099 every fourth year is one.
LEMMA LeapsBefore ==
  \A year \in Nat : year >= 1970 /\ year <= 2100 =>
    IsFiniteSet(Leaps(year)) /\ Cardinality(Leaps(year)) = (year - 1) \div 4 - 492
<1> DEFINE P(year) == /\ IsFiniteSet(Leaps(year))
                      /\ Cardinality(Leaps(year)) = (year - 1) \div 4 - 492
           D == {year \in Nat : year >= 1970 /\ year <= 2100 /\ ~P(year)}
<1>1. P(1970)
  <2>1. Leaps(1970) = {}
    BY DEF Leaps
  <2> QED
    BY <2>1, FS_EmptySet
<1>2. ASSUME NEW year \in Nat, year >= 1970, year < 2100, P(year)
      PROVE  P(year + 1)
  <2>1. IsLeap(year) <=> year % 4 = 0
    <3>1. year % 100 = 0 => year = 2000
      BY <1>2
    <3> QED
      BY <3>1 DEF IsLeap
  <2>2. year \notin Leaps(year)
    BY DEF Leaps
  <2>3. Leaps(year + 1) = IF IsLeap(year) THEN Leaps(year) \cup {year} ELSE Leaps(year)
    BY <1>2 DEF Leaps
  <2>4. CASE year % 4 = 0
    <3>1. Leaps(year + 1) = Leaps(year) \cup {year}
      BY <2>1, <2>3, <2>4
    <3>2. /\ IsFiniteSet(Leaps(year + 1))
          /\ Cardinality(Leaps(year + 1)) = Cardinality(Leaps(year)) + 1
      BY <1>2, <2>2, <3>1, FS_AddElement
    <3>3. year \div 4 = (year - 1) \div 4 + 1 /\ (year + 1) - 1 = year
      BY <2>4
    <3> QED
      BY <1>2, <3>2, <3>3
  <2>5. CASE year % 4 # 0
    <3>1. Leaps(year + 1) = Leaps(year)
      BY <2>1, <2>3, <2>5
    <3>2. year \div 4 = (year - 1) \div 4 /\ (year + 1) - 1 = year
      BY <1>2, <2>5
    <3> QED
      BY <1>2, <3>1, <3>2
  <2> QED
    BY <2>4, <2>5
<1> HIDE DEF P
<1>3. D = {}
  <2>1. ASSUME NEW year \in D PROVE \E y \in D : y < year
    <3>1. year \in Nat /\ year > 1970 /\ year <= 2100
      BY <1>1
    <3>2. year - 1 \in Nat /\ year - 1 >= 1970 /\ year - 1 < 2100 /\ (year - 1) + 1 = year
      BY <3>1
    <3>3. ~P(year - 1)
      BY <1>2, <3>2
    <3> QED
      BY <3>2, <3>3
  <2>2. D \subseteq Nat
    OBVIOUS
  <2> HIDE DEF D
  <2> QED
    BY <2>1, <2>2, NoLeast
<1> QED
  BY <1>3 DEF P

\* The days of a year before a month.
DaysBefore(year, month) ==
  IF month = 1 THEN 0
  ELSE IF month = 2 THEN 31
  ELSE ((month + 1) * 153) \div 5 - 63 + IF IsLeap(year) THEN 1 ELSE 0

\* They are the sum of the days of the months.
LEMMA NextMonth ==
  ASSUME NEW year \in Nat, NEW month \in Nat, month >= 2, month <= 12
  PROVE  DaysBefore(year, month) = DaysBefore(year, month - 1) + DaysOf(year, month - 1)
<1>1. CASE month = 2
  BY <1>1 DEF DaysBefore, DaysOf
<1>2. CASE month = 3
  BY <1>2 DEF DaysBefore, DaysOf
<1>3. CASE month > 3
  <2>1. /\ DaysOf(year, month - 1) = IF month \in {5, 7, 10, 12} THEN 30 ELSE 31
    BY <1>3 DEF DaysOf
  <2>2. ((month + 1) * 153) \div 5 = (month * 153) \div 5
                                       + IF month \in {5, 7, 10, 12} THEN 30 ELSE 31
    BY <1>3
  <2> QED
    BY <1>3, <2>1, <2>2 DEF DaysBefore
<1> QED
  BY <1>1, <1>2, <1>3

\* The number of a day is that of the first day of its year and month and itself.
LEMMA DayNumberIs ==
  ASSUME NEW year \in Nat, NEW month \in Month, NEW day \in Nat
  PROVE  DayNumber(year, month, day) =
           (year - 1970) * 365 + Cardinality(Leaps(year)) + DaysBefore(year, month) + day - 1
<1> DEFINE w == [m \in Month |-> DaysBefore(year, m)]
           Sums(f) == f = [m \in Month |-> IF m = 1 THEN 0 ELSE f[m - 1] + DaysOf(year, m - 1)]
           before == CHOOSE f : Sums(f)
           D == {m \in Month : before[m] # DaysBefore(year, m)}
<1>1. \A m \in Month : m \in Nat /\ m >= 1 /\ m <= 12 /\ (m # 1 => m - 1 \in Month)
  BY DEF Month
<1>2. Sums(w)
  <2>1. ASSUME NEW m \in Month
        PROVE  w[m] = IF m = 1 THEN 0 ELSE w[m - 1] + DaysOf(year, m - 1)
    <3>1. CASE m = 1
      BY <3>1 DEF DaysBefore
    <3>2. CASE m # 1
      BY <1>1, <3>2, NextMonth
    <3> QED
      BY <3>1, <3>2
  <2> QED
    BY <2>1
<1>3. Sums(before)
  BY <1>2, Zenon
<1> HIDE DEF before
<1>4. D = {}
  <2>1. ASSUME NEW m \in D PROVE \E k \in D : k < m
    <3>1. m \in Month /\ m # 1
      BY <1>3 DEF DaysBefore
    <3>2. before[m] = before[m - 1] + DaysOf(year, m - 1)
      BY <1>3, <3>1
    <3>3. m - 1 \in Month /\ m - 1 < m
      BY <1>1, <3>1
    <3>4. DaysBefore(year, m) = DaysBefore(year, m - 1) + DaysOf(year, m - 1)
      BY <1>1, <3>1, NextMonth
    <3> QED
      BY <3>2, <3>3, <3>4
  <2>2. D \subseteq Nat
    BY <1>1
  <2> HIDE DEF D
  <2> QED
    BY <2>1, <2>2, NoLeast
<1>5. before[month] = DaysBefore(year, month)
  BY <1>4
<1>6. DayNumber(year, month, day) =
        (year - 1970) * 365 + Cardinality(Leaps(year)) + before[month] + day - 1
  BY DEF DayNumber, Leaps, before
<1> QED
  BY <1>5, <1>6

\* my_mktime counts the days of 2000 to 2099 as the calendar does.
LEMMA DaysAgree ==
  ASSUME NEW year, Within(year, 2000, 2099), NEW month \in Month, NEW day \in Nat
  PROVE  my_mktime(year - 1900, month - 1, day) = DayNumber(year, month, day)
<1>1. year \in Nat /\ year >= 2000 /\ year <= 2099 /\ month \in Nat /\ month >= 1 /\ month <= 12
  BY DEF Within, Month
<1>2. Cardinality(Leaps(year)) = (year - 1) \div 4 - 492
  BY <1>1, LeapsBefore
<1>3. PICK y \in Nat : year = y + 1900 /\ y >= 100 /\ y <= 199
  BY <1>1
<1>4. PICK l \in Nat : l = IF year % 4 = 0 THEN 1 ELSE 0
  OBVIOUS
<1>5. IsLeap(year) <=> year % 4 = 0
  <2>1. year % 100 = 0 => year = 2000
    BY <1>1
  <2> QED
    BY <2>1 DEF IsLeap
<1>6. ((y \div 100) * 3) \div 4 = 0 /\ (((y - 1) \div 100) * 3) \div 4 = 0
  BY <1>3
<1>7. (year - 1) \div 4 = (y - 1) \div 4 + 475 /\ y \div 4 = (y - 1) \div 4 + l
  BY <1>3, <1>4
<1>8. PICK b \in Int : b = DaysBefore(year, month)
  BY <1>1 DEF DaysBefore
<1>9. PICK q \in Int : q = (y - 1) \div 4
  BY <1>3
<1>10. DayNumber(year, month, day) = (year - 1970) * 365 + (q + 475 - 492) + b + day - 1
  <2>1. Cardinality(Leaps(year)) = q + 475 - 492
    BY <1>2, <1>7, <1>9
  <2> QED
    BY <1>1, <1>8, <2>1, DayNumberIs
<1>11. CASE month <= 2
  <2>1. my_mktime(year - 1900, month - 1, day) =
          (y - 1 - 69) * 365 + (y - 1) \div 4 + (((month - 1 + 12) + 2) * 153) \div 5 - 446 + day
    BY <1>1, <1>3, <1>6, <1>11 DEF my_mktime
  <2>2. (((month - 1 + 12) + 2) * 153) \div 5 = 428 + DaysBefore(year, month)
    BY <1>1, <1>11 DEF DaysBefore
  <2> QED
    BY <1>3, <1>8, <1>9, <1>10, <2>1, <2>2
<1>12. CASE month > 2
  <2>1. my_mktime(year - 1900, month - 1, day) =
          (y - 69) * 365 + y \div 4 + ((month + 1) * 153) \div 5 - 446 + day
    BY <1>1, <1>3, <1>6, <1>12 DEF my_mktime
  <2>2. DaysBefore(year, month) = ((month + 1) * 153) \div 5 - 63 + l
    BY <1>1, <1>4, <1>5, <1>12 DEF DaysBefore
  <2>3. PICK x \in Int : x = ((month + 1) * 153) \div 5
    BY <1>1
  <2> QED
    BY <1>3, <1>7, <1>8, <1>9, <1>10, <2>1, <2>2, <2>3
<1> QED
  BY <1>1, <1>11, <1>12

(***************************************************************************)
(* EncodedTypes: FieldsIndependent                                         *)
(***************************************************************************)
EncodedSpec == EncodedInit /\ [][EncodedNext]_encodedVars

Kinds == {"CP16", "CP24", "CP32", "CP56", "BCR"}

\* The octets of a value in which every field is read as it was set.
Reads(k, o, g) == /\ o \in [1..Size[k] -> Octet] /\ g = [f \in Fields[k] |-> g[f]]
                  /\ \A f \in Fields[k] : Read(k, o, f) = g[f]

LEMMA Types ==
  /\ DOMAIN Size = Kinds
  /\ Size["CP16"] = 2 /\ Size["CP24"] = 3 /\ Size["CP32"] = 4 /\ Size["CP56"] = 7
  /\ Size["BCR"] = 5
  /\ Fields["CP16"] = {"elapsed"} /\ Fields["CP24"] = Fields24 /\ Fields["CP32"] = Fields32
  /\ Fields["CP56"] = Fields56 /\ Fields["BCR"] = FieldsBCR
BY DEF Size, Kinds, Fields

\* Every setter of every type.
LEMMA WriteReads ==
  ASSUME NEW k \in Kinds, NEW o, NEW g, Reads(k, o, g), NEW f \in Fields[k], NEW v,
         InRange(f, v), NEW p, p = Write(k, o, f, v)
  PROVE  /\ p \in [1..Size[k] -> Octet]
         /\ \A h \in Fields[k] : Read(k, p, h) = ReadAs(g, f, v, h)
<1>1. CASE k = "CP16"
  <2>1. f = "elapsed" /\ p = setCP16(o, f, v)
    BY <1>1, Types DEF Write
  <2>2. Size[k] \in Nat /\ Size[k] >= 2 /\ o \in [1..Size[k] -> Octet]
    BY <1>1, Types DEF Reads
  <2>3. p \in [1..Size[k] -> Octet] /\ getCP16(p, f) = v % 65536
    BY <2>1, <2>2, Set16
  <2>4. Read(k, p, f) = v % 65536
    BY <1>1, <2>3 DEF Read
  <2>5. f \notin Shared /\ Meaning(f, v) = v % 65536
    BY <2>1 DEF Shared, Meaning
  <2>6. ReadAs(g, f, v, f) = v % 65536
    BY <2>5, ReadAsSet
  <2> QED
    BY <1>1, <2>1, <2>3, <2>4, <2>6, Types
<1>2. CASE k = "BCR"
  <2>1. f \in FieldsBCR /\ p = setBCR(o, f, v) /\ f \notin Shared
    BY <1>2, Types DEF Write, FieldsBCR, Shared
  <2>2. Size[k] \in Nat /\ Size[k] >= 5 /\ o \in [1..Size[k] -> Octet]
    BY <1>2, Types DEF Reads
  <2>3. \A h, q : Read(k, q, h) = getBCR(q, h)
    BY <1>2 DEF Read
  <2>4. /\ p \in [1..Size[k] -> Octet]
        /\ \A h \in FieldsBCR : getBCR(p, h) = IF h = f THEN Meaning(f, v) ELSE getBCR(o, h)
    BY <2>1, <2>2, SetBCR
  <2>5. \A h \in FieldsBCR : getBCR(o, h) = g[h]
    BY <1>2, <2>3, Types DEF Reads
  <2>6. \A h : ReadAs(g, f, v, h) = IF h = f THEN Meaning(f, v) ELSE g[h]
    BY <2>1, ReadAsSet
  <2> QED
    BY <1>2, <2>3, <2>4, <2>5, <2>6, Types
<1>3. CASE k = "CP24"
  <2>1. f \in Fields24 /\ p = setCP24(o, f, v)
    BY <1>3, Types DEF Write
  <2>2. Size[k] \in Nat /\ Size[k] >= 3 /\ o \in [1..Size[k] -> Octet]
    BY <1>3, Types DEF Reads
  <2>3. \A h, q : Read(k, q, h) = getCP24(q, h)
    BY <1>3 DEF Read
  <2>4. \A h \in Fields24 : getCP24(o, h) = g[h]
    BY <1>3, <2>3, Types DEF Reads
  <2>5. /\ p \in [1..Size[k] -> Octet]
        /\ \A h \in Fields24 : getCP24(p, h) = ReadAs(g, f, v, h)
    BY <2>1, <2>2, <2>4, Set24
  <2> QED
    BY <1>3, <2>3, <2>5, Types
<1>4. CASE k = "CP32"
  <2>1. f \in Fields32 /\ p = setCP32(o, f, v)
    BY <1>4, Types DEF Write
  <2>2. Size[k] \in Nat /\ Size[k] >= 4 /\ o \in [1..Size[k] -> Octet]
    BY <1>4, Types DEF Reads
  <2>3. \A h, q : Read(k, q, h) = getCP32(q, h)
    BY <1>4 DEF Read
  <2>4. \A h \in Fields32 : getCP32(o, h) = g[h]
    BY <1>4, <2>3, Types DEF Reads
  <2>5. /\ p \in [1..Size[k] -> Octet]
        /\ \A h \in Fields32 : getCP32(p, h) = ReadAs(g, f, v, h)
    BY <2>1, <2>2, <2>4, Set32
  <2> QED
    BY <1>4, <2>3, <2>5, Types
<1>5. CASE k = "CP56"
  <2>1. f \in Fields56 /\ p = setCP56(o, f, v)
    BY <1>5, Types DEF Write
  <2>2. Size[k] \in Nat /\ Size[k] >= 7 /\ o \in [1..Size[k] -> Octet]
    BY <1>5, Types DEF Reads
  <2>3. \A h, q : Read(k, q, h) = getCP56(q, h)
    BY <1>5 DEF Read
  <2>4. \A h \in Fields56 : getCP56(o, h) = g[h]
    BY <1>5, <2>3, Types DEF Reads
  <2>5. /\ p \in [1..Size[k] -> Octet]
        /\ \A h \in Fields56 : getCP56(p, h) = ReadAs(g, f, v, h)
    BY <2>1, <2>2, <2>4, Set56
  <2> QED
    BY <1>5, <2>3, <2>5, Types
<1> QED
  BY <1>1, <1>2, <1>3, <1>4, <1>5 DEF Kinds

\* One more field is set.
LEMMA OneMore ==
  ASSUME NEW k \in Kinds, NEW o, NEW g, Reads(k, o, g), NEW f \in Fields[k], NEW v, InRange(f, v)
  PROVE  Reads(k, Write(k, o, f, v), [h \in Fields[k] |-> ReadAs(g, f, v, h)])
BY WriteReads DEF Reads

\* A time of a minute is a number of seconds and of milliseconds.
LEMMA SplitMinute ==
  ASSUME NEW s, Within(s, 0, 59), NEW m, Within(m, 0, 999), NEW n, n = s * 1000 + m
  PROVE  n % 65536 = n /\ n \div 1000 = s /\ n % 1000 = m
<1>1. s \in Nat /\ s <= 59 /\ m \in Nat /\ m <= 999
  BY DEF Within
<1>2. n \in Nat /\ n < 65536
  BY <1>1
<1> QED
  BY <1>1, <1>2

\* A second and a millisecond that fit: only the one that is set changes.
LEMMA SharedFits ==
  ASSUME NEW g, NEW f \in Shared, NEW v,
         NEW s, s = IF f = "second" THEN v ELSE g["second"], Within(s, 0, 59),
         NEW m, m = IF f = "millisecond" THEN v ELSE g["millisecond"], Within(m, 0, 999),
         NEW h
  PROVE  ReadAs(g, f, v, h) = IF h = f THEN v ELSE g[h]
<1>1. PICK n : n = s * 1000 + m
  OBVIOUS
<1>2. n % 65536 = n /\ n \div 1000 = s /\ n % 1000 = m
  BY <1>1, SplitMinute
<1>3. f = "second" \/ f = "millisecond"
  BY DEF Shared
<1>4. Carried(g, f, v) = n
  BY <1>1, <1>2, <1>3 DEF Carried
<1>5. ReadAs(g, f, v, "second") = s /\ ReadAs(g, f, v, "millisecond") = m
  BY <1>2, <1>4, ReadAsShared
<1>6. CASE h = "second"
  BY <1>3, <1>5, <1>6
<1>7. CASE h = "millisecond"
  BY <1>3, <1>5, <1>7
<1>8. CASE h # "second" /\ h # "millisecond"
  <2>1. h \notin Shared /\ h # f
    BY <1>3, <1>8 DEF Shared
  <2> QED
    BY <2>1, ReadAsElse
<1> QED
  BY <1>6, <1>7, <1>8

\* A value that fits: only its field changes.
LEMMA OneFits ==
  ASSUME NEW k \in Kinds, NEW o, NEW g, Reads(k, o, g), NEW f \in Fields[k], NEW v,
         InRange(f, v),
         \/ f \notin Shared /\ Meaning(f, v) = v
         \/ f = "second" /\ Within(v, 0, 59) /\ Within(g["millisecond"], 0, 999)
         \/ f = "millisecond" /\ Within(v, 0, 999) /\ Within(g["second"], 0, 59)
  PROVE  Reads(k, Write(k, o, f, v), [g EXCEPT ![f] = v])
<1>1. Reads(k, Write(k, o, f, v), [h \in Fields[k] |-> ReadAs(g, f, v, h)])
  BY OneMore
<1>2. ASSUME NEW h \in Fields[k]
      PROVE  ReadAs(g, f, v, h) = IF h = f THEN v ELSE g[h]
  <2>1. CASE f \notin Shared /\ Meaning(f, v) = v
    BY <2>1, ReadAsSet
  <2>2. CASE f = "second" /\ Within(v, 0, 59) /\ Within(g["millisecond"], 0, 999)
    <3>1. f \in Shared /\ f # "millisecond"
      BY <2>2 DEF Shared
    <3> QED
      BY <2>2, <3>1, SharedFits
  <2>3. CASE f = "millisecond" /\ Within(v, 0, 999) /\ Within(g["second"], 0, 59)
    <3>1. f \in Shared /\ f # "second"
      BY <2>3 DEF Shared
    <3> QED
      BY <2>3, <3>1, SharedFits
  <2> QED
    BY <2>1, <2>2, <2>3
<1>3. [g EXCEPT ![f] = v] = [h \in Fields[k] |-> IF h = f THEN v ELSE g[h]]
  BY DEF Reads
<1>4. [h \in Fields[k] |-> ReadAs(g, f, v, h)] = [g EXCEPT ![f] = v]
  BY <1>2, <1>3
<1> QED
  BY <1>1, <1>4

\* Zeroed octets: every field is zero.
LEMMA ZeroReads ==
  ASSUME NEW k \in Kinds
  PROVE  Reads(k, Zero(k), [f \in Fields[k] |-> 0])
<1> DEFINE z == Zero(k)
<1>1. Size[k] \in Nat /\ Size[k] >= 2
  BY Types DEF Kinds
<1>2. z = [i \in 1..Size[k] |-> 0]
  BY DEF Zero
<1>3. z \in [1..Size[k] -> Octet] /\ \A i \in 1..Size[k] : z[i] = 0
  BY <1>2 DEF Octet
<1>4. /\ z[1] = 0 /\ z[2] = 0 /\ (Size[k] >= 3 => z[3] = 0) /\ (Size[k] >= 4 => z[4] = 0)
      /\ (Size[k] >= 5 => z[5] = 0) /\ (Size[k] >= 7 => z[6] = 0 /\ z[7] = 0)
  BY <1>1, <1>3
<1> HIDE DEF z
<1>5. Millies(z) = 0
  BY <1>4 DEF Millies
<1>6. z \in [1..Size[k] -> Octet]
  BY <1>3
<1>7. ASSUME z[3] = 0
      PROVE  \A f \in Fields24 : getCP24(z, f) = 0
  BY <1>5, <1>7 DEF Fields24, getCP24, getMillisecond, getSecond, getMinute,
                    isInvalid, isSubstituted, IsSet, Bits
<1>8. ASSUME z[3] = 0, z[4] = 0
      PROVE  \A f \in Fields32 : getCP32(z, f) = 0
  BY <1>7, <1>8 DEF Fields32, Fields24, getCP32, IsSet, Bits
<1>9. ASSUME NEW f \in Fields[k]
      PROVE  Read(k, z, f) = 0
  <2>1. CASE k = "CP16"
    BY <1>4, <2>1 DEF Read, getCP16
  <2>2. CASE k = "CP24"
    BY <1>4, <1>7, <2>2, Types DEF Read
  <2>3. CASE k = "CP32"
    BY <1>4, <1>8, <2>3, Types DEF Read
  <2>4. CASE k = "CP56"
    <3>1. z[3] = 0 /\ z[4] = 0 /\ z[5] = 0 /\ z[6] = 0 /\ z[7] = 0
      BY <1>4, <2>4, Types
    <3>2. f \in FieldsDate => getDate(z, f) = 0
      BY <3>1 DEF FieldsDate, getDate, Bits
    <3>3. getCP56(z, f) = 0
      BY <1>8, <2>4, <3>1, <3>2, Types DEF getCP56, Fields56
    <3> QED
      BY <2>4, <3>3 DEF Read
  <2>5. CASE k = "BCR"
    <3>1. z[3] = 0 /\ z[4] = 0 /\ z[5] = 0
      BY <1>4, <2>5, Types
    <3>2. f \in FieldsBCR
      BY <2>5, Types
    <3>3. getBCR(z, f) = 0
      BY <1>4, <3>1, <3>2 DEF FieldsBCR, getBCR, IsSet, Bits
    <3> QED
      BY <2>5, <3>3 DEF Read
  <2> QED
    BY <2>1, <2>2, <2>3, <2>4, <2>5 DEF Kinds
<1> QED
  BY <1>6, <1>9 DEF Reads, z

\* The values the constants allow are legal.
LEMMA LegalValues ==
  /\ \A k \in Kinds : \A f \in Fields[k] : \A v \in Values[f] : InRange(f, v)
  /\ \A year \in Years : Within(year, 2000, 2099)
  /\ \A month \in Months : Within(month, 1, 12)
  /\ \A day \in Days : Within(day, 1, 31)
  /\ \A t \in DayTimes : /\ Within(t[1], 0, 23) /\ Within(t[2], 0, 59)
                         /\ Within(t[3], 0, 59) /\ Within(t[4], 0, 999)
<1>1. \A k \in Kinds : Fields[k] \subseteq {"elapsed"} \cup Fields56 \cup FieldsBCR
  BY Types DEF Kinds, Fields56, Fields32
<1>2. \A f \in {"elapsed"} \cup Fields56 \cup FieldsBCR : \A v \in Values[f] : InRange(f, v)
  BY EncodedAssumption
<1>3. \A k \in Kinds : \A f \in Fields[k] : \A v \in Values[f] : InRange(f, v)
  BY <1>1, <1>2, Zenon
<1>4. \A year \in Years : Within(year, 2000, 2099)
  BY EncodedAssumption, Zenon
<1>5. \A month \in Months : Within(month, 1, 12)
  BY EncodedAssumption, Zenon
<1>6. \A day \in Days : Within(day, 1, 31)
  BY EncodedAssumption, Zenon
<1>7. ASSUME NEW t \in DayTimes
      PROVE  /\ Within(t[1], 0, 23) /\ Within(t[2], 0, 59)
             /\ Within(t[3], 0, 59) /\ Within(t[4], 0, 999)
  <2>1. TimeOfDay(t)
    BY EncodedAssumption
  <2> QED
    BY <2>1, Zenon DEF TimeOfDay
<1> QED
  BY <1>3, <1>4, <1>5, <1>6, <1>7, Zenon

\* A date and a time of the day fit their fields.
LEMMA TimeFits ==
  ASSUME NEW t \in DayTimes, NEW month, Within(month, 1, 12), NEW day, Within(day, 1, 31)
  PROVE  /\ InRange("hour", t[1]) /\ Meaning("hour", t[1]) = t[1]
         /\ InRange("minute", t[2]) /\ Meaning("minute", t[2]) = t[2]
         /\ InRange("second", t[3]) /\ InRange("millisecond", t[4])
         /\ InRange("dayOfMonth", day) /\ Meaning("dayOfMonth", day) = day
         /\ InRange("dayOfWeek", 0) /\ Meaning("dayOfWeek", 0) = 0
         /\ InRange("month", month) /\ Meaning("month", month) = month
<1>1. /\ Within(t[1], 0, 23) /\ Within(t[2], 0, 59)
      /\ Within(t[3], 0, 59) /\ Within(t[4], 0, 999)
  BY LegalValues
<1>2. /\ \A x : Within(x, 0, 23) => InRange("hour", x) /\ Meaning("hour", x) = x
      /\ \A x : Within(x, 0, 59) => InRange("minute", x) /\ Meaning("minute", x) = x
      /\ \A x : Within(x, 1, 31) => InRange("dayOfMonth", x) /\ Meaning("dayOfMonth", x) = x
      /\ \A x : Within(x, 1, 12) => InRange("month", x) /\ Meaning("month", x) = x
      /\ InRange("dayOfWeek", 0) /\ Meaning("dayOfWeek", 0) = 0
  BY SMT DEF InRange, Meaning, Within
<1>3. /\ \A x : Within(x, 0, 59) => InRange("second", x)
      /\ \A x : Within(x, 0, 999) => InRange("millisecond", x)
  BY SMT DEF InRange, Within
<1> QED
  BY <1>1, <1>2, <1>3

\* A CP32Time2a made from a timestamp has the time of the day in it.
LEMMA OfDay ==
  ASSUME NEW g, Reads("CP32", Zero("CP32"), g), NEW t \in DayTimes
  PROVE  Reads("CP32", CP32FromMsTimestamp(t), WithTime(g, t))
<1> DEFINE o1 == setCP32(Zero("CP32"), "second", t[3])
           o2 == setCP32(o1, "millisecond", t[4])
           o3 == setCP32(o2, "minute", t[2])
           o4 == setCP32(o3, "hour", t[1])
           g1 == [g EXCEPT !["second"] = t[3]]
           g2 == [g1 EXCEPT !["millisecond"] = t[4]]
           g3 == [g2 EXCEPT !["minute"] = t[2]]
           g4 == [g3 EXCEPT !["hour"] = t[1]]
<1>1. "CP32" \in Kinds /\ \A f \in {"second", "millisecond", "minute", "hour"} :
                             /\ f \in Fields["CP32"]
                             /\ f \in Shared <=> f \in {"second", "millisecond"}
  BY Types DEF Kinds, Fields32, Fields24, Shared
<1>2. \A o, f, v : setCP32(o, f, v) = Write("CP32", o, f, v)
  BY DEF Write
<1>3. /\ InRange("hour", t[1]) /\ Meaning("hour", t[1]) = t[1]
      /\ InRange("minute", t[2]) /\ Meaning("minute", t[2]) = t[2]
      /\ InRange("second", t[3]) /\ InRange("millisecond", t[4])
      /\ Within(t[3], 0, 59) /\ Within(t[4], 0, 999)
  <2>1. Within(1, 1, 12) /\ Within(1, 1, 31)
    BY DEF Within
  <2> QED
    BY <2>1, LegalValues, TimeFits
<1>4. CP32FromMsTimestamp(t) = o4
  BY DEF CP32FromMsTimestamp
<1>0. Within(g["millisecond"], 0, 999) /\ g1["second"] = t[3]
  <2>1. Reads("CP32", Zero("CP32"), [f \in Fields["CP32"] |-> 0])
    BY <1>1, ZeroReads
  <2>2. g["millisecond"] = 0
    BY <1>1, <2>1 DEF Reads
  <2> QED
    BY <1>1, <2>2 DEF Reads, Within
<1>5. Reads("CP32", o1, g1)
  BY <1>0, <1>1, <1>2, <1>3, OneFits
<1> HIDE DEF o1, g1
<1>6. Reads("CP32", o2, g2)
  BY <1>0, <1>1, <1>2, <1>3, <1>5, OneFits
<1> HIDE DEF o2, g2
<1>7. Reads("CP32", o3, g3)
  BY <1>1, <1>2, <1>3, <1>6, OneFits
<1> HIDE DEF o3, g3
<1>8. Reads("CP32", o4, g4)
  BY <1>1, <1>2, <1>3, <1>7, OneFits
<1>9. g4 = WithTime(g, t)
  <2>1. g = [f \in Fields32 |-> g[f]]
    BY Types DEF Reads
  <2>2. g4 = [f \in Fields32 |-> IF f = "hour" THEN t[1] ELSE IF f = "minute" THEN t[2]
                                 ELSE IF f = "millisecond" THEN t[4]
                                 ELSE IF f = "second" THEN t[3] ELSE g[f]]
    BY <2>1 DEF g1, g2, g3, g4
  <2>3. WithTime(g, t) = [f \in Fields32 |-> IF f = "millisecond" THEN t[4]
                                             ELSE IF f = "second" THEN t[3]
                                             ELSE IF f = "minute" THEN t[2]
                                             ELSE IF f = "hour" THEN t[1] ELSE g[f]]
    BY <2>1 DEF WithTime
  <2> QED
    BY <2>2, <2>3
<1> QED
  BY <1>4, <1>8, <1>9

\* A CP56Time2a made from a timestamp has its date and time in it.
LEMMA OfDate ==
  ASSUME NEW g, Reads("CP56", Zero("CP56"), g), NEW t \in DayTimes, NEW year \in Years,
         NEW month \in Months, NEW day \in Days
  PROVE  Reads("CP56", CP56FromMsTimestamp(year, month, day, t),
               [WithTime(g, t) EXCEPT !["dayOfMonth"] = day, !["month"] = month,
                                      !["year"] = year % 100])
<1> DEFINE o1 == setCP56(Zero("CP56"), "millisecond", t[4])
           o2 == setCP56(o1, "second", t[3])
           o3 == setCP56(o2, "minute", t[2])
           o4 == setCP56(o3, "hour", t[1])
           o5 == setCP56(o4, "dayOfMonth", day)
           o6 == setCP56(o5, "dayOfWeek", 0)
           o7 == setCP56(o6, "month", month)
           o8 == setCP56(o7, "year", year - 1900)
           g1 == [g EXCEPT !["millisecond"] = t[4]]
           g2 == [g1 EXCEPT !["second"] = t[3]]
           g3 == [g2 EXCEPT !["minute"] = t[2]]
           g4 == [g3 EXCEPT !["hour"] = t[1]]
           g5 == [g4 EXCEPT !["dayOfMonth"] = day]
           g6 == [g5 EXCEPT !["dayOfWeek"] = 0]
           g7 == [g6 EXCEPT !["month"] = month]
           g8 == [g7 EXCEPT !["year"] = year % 100]
<1>1. "CP56" \in Kinds /\ \A f \in {"second", "millisecond", "minute", "hour", "dayOfMonth",
                                    "dayOfWeek", "month"} :
                             /\ f \in Fields["CP56"]
                             /\ f \in Shared <=> f \in {"second", "millisecond"}
  BY Types DEF Kinds, Fields56, FieldsDate, Fields32, Fields24, Shared
<1>2. \A o, f, v : setCP56(o, f, v) = Write("CP56", o, f, v)
  BY DEF Write
<1>3. /\ InRange("hour", t[1]) /\ Meaning("hour", t[1]) = t[1]
      /\ InRange("minute", t[2]) /\ Meaning("minute", t[2]) = t[2]
      /\ InRange("second", t[3]) /\ InRange("millisecond", t[4])
      /\ Within(t[3], 0, 59) /\ Within(t[4], 0, 999)
      /\ InRange("dayOfMonth", day) /\ Meaning("dayOfMonth", day) = day
      /\ InRange("month", month) /\ Meaning("month", month) = month
  BY LegalValues, TimeFits
<1>4. InRange("dayOfWeek", 0) /\ Meaning("dayOfWeek", 0) = 0
  BY LegalValues, TimeFits
<1>5. InRange("year", year - 1900) /\ Meaning("year", year - 1900) = year % 100
      /\ "year" \in Fields["CP56"]
  <2>1. year \in Nat /\ year >= 2000
    BY LegalValues DEF Within
  <2>2. InRange("year", year - 1900)
    BY <2>1, SMT DEF InRange
  <2>3. (year - 1900) % 100 = year % 100
    BY <2>1
  <2> QED
    BY <2>2, <2>3, Types DEF Meaning, Fields56, FieldsDate
<1>6. CP56FromMsTimestamp(year, month, day, t) = o8
  BY DEF CP56FromMsTimestamp
<1>0. Within(g["second"], 0, 59) /\ g1["millisecond"] = t[4]
  <2>1. Reads("CP56", Zero("CP56"), [f \in Fields["CP56"] |-> 0])
    BY <1>1, ZeroReads
  <2>2. g["second"] = 0
    BY <1>1, <2>1 DEF Reads
  <2> QED
    BY <1>1, <2>2 DEF Reads, Within
<1>7. Reads("CP56", o1, g1)
  BY <1>0, <1>1, <1>2, <1>3, OneFits
<1> HIDE DEF o1, g1
<1>8. Reads("CP56", o2, g2)
  BY <1>0, <1>1, <1>2, <1>3, <1>7, OneFits
<1> HIDE DEF o2, g2
<1>9. Reads("CP56", o3, g3)
  BY <1>1, <1>2, <1>3, <1>8, OneFits
<1> HIDE DEF o3, g3
<1>10. Reads("CP56", o4, g4)
  BY <1>1, <1>2, <1>3, <1>9, OneFits
<1> HIDE DEF o4, g4
<1>11. Reads("CP56", o5, g5)
  BY <1>1, <1>2, <1>3, <1>10, OneFits
<1> HIDE DEF o5, g5
<1>12. Reads("CP56", o6, g6)
  BY <1>1, <1>2, <1>4, <1>11, OneFits
<1> HIDE DEF o6, g6
<1>13. Reads("CP56", o7, g7)
  BY <1>1, <1>2, <1>3, <1>12, OneFits
<1> HIDE DEF o7, g7
<1>14. Reads("CP56", o8, g8)
  <2>1. Reads("CP56", o8, [h \in Fields["CP56"] |-> ReadAs(g7, "year", year - 1900, h)])
    BY <1>1, <1>2, <1>5, <1>13, OneMore
  <2>2. "year" \notin Shared
    BY DEF Shared
  <2>3. \A h : ReadAs(g7, "year", year - 1900, h) = IF h = "year" THEN year % 100 ELSE g7[h]
    BY <1>5, <2>2, ReadAsSet
  <2>4. g8 = [h \in Fields["CP56"] |-> IF h = "year" THEN year % 100 ELSE g7[h]]
    BY <1>13 DEF Reads
  <2>5. [h \in Fields["CP56"] |-> ReadAs(g7, "year", year - 1900, h)] = g8
    BY <2>3, <2>4
  <2> QED
    BY <2>1, <2>5
<1>15. g["dayOfWeek"] = 0 /\ g = [f \in Fields56 |-> g[f]]
  <2>1. Reads("CP56", Zero("CP56"), [f \in Fields["CP56"] |-> 0])
    BY <1>1, ZeroReads
  <2> QED
    BY <1>1, <2>1, Types DEF Reads
<1>16. g8 = [WithTime(g, t) EXCEPT !["dayOfMonth"] = day, !["month"] = month,
                                   !["year"] = year % 100]
  <2> DEFINE h == WithTime(g, t)
             d == [h EXCEPT !["dayOfMonth"] = day, !["month"] = month, !["year"] = year % 100]
  <2>1. g4 = [f \in Fields56 |-> IF f = "hour" THEN t[1] ELSE IF f = "minute" THEN t[2]
                                 ELSE IF f = "second" THEN t[3]
                                 ELSE IF f = "millisecond" THEN t[4] ELSE g[f]]
    BY <1>15 DEF g1, g2, g3, g4
  <2>2. h = [f \in Fields56 |-> IF f = "millisecond" THEN t[4]
                                ELSE IF f = "second" THEN t[3]
                                ELSE IF f = "minute" THEN t[2]
                                ELSE IF f = "hour" THEN t[1] ELSE g[f]]
    BY <1>15 DEF WithTime
  <2>3. h = g4 /\ g4["dayOfWeek"] = 0
    BY <1>15, <2>1, <2>2 DEF Fields56, FieldsDate
  <2> HIDE DEF h
  <2>4. g8 = [f \in Fields56 |-> IF f = "year" THEN year % 100 ELSE IF f = "month" THEN month
                                 ELSE IF f = "dayOfWeek" THEN 0
                                 ELSE IF f = "dayOfMonth" THEN day ELSE g4[f]]
    BY <2>1 DEF g5, g6, g7, g8
  <2>5. d = [f \in Fields56 |-> IF f = "year" THEN year % 100 ELSE IF f = "month" THEN month
                                ELSE IF f = "dayOfMonth" THEN day ELSE h[f]]
    BY <2>1, <2>3
  <2> HIDE DEF g8, d
  <2>6. ASSUME NEW f \in Fields56 PROVE g8[f] = d[f]
    BY <2>3, <2>4, <2>5
  <2>7. g8 = d
    BY <2>4, <2>5, <2>6
  <2> QED
    BY <2>7 DEF d, h
<1> QED
  BY <1>6, <1>14, <1>16

\* The fields a timestamp is made of.
TimeFields == {"year", "month", "dayOfMonth", "hour", "minute", "second", "millisecond"}
LEMMA TimeFieldsOf56 ==
  /\ TimeFields \subseteq Fields["CP56"]
  /\ \A f \in Flags : f \notin TimeFields /\ f \notin Shared
BY Types DEF TimeFields, Flags, Fields56, FieldsDate, Fields32, Fields24, Shared

\* A timestamp is read from these fields alone.
LEMMA StampOfFields ==
  ASSUME NEW o, NEW p, \A f \in TimeFields : getCP56(o, f) = getCP56(p, f)
  PROVE  toMsTimestamp(o) = toMsTimestamp(p)
BY DEF toMsTimestamp, TimeFields

\* It is the timestamp the octets were made from.
LEMMA StampAgrees ==
  ASSUME NEW t \in DayTimes, NEW year \in Years, NEW month \in Months, NEW day \in Days,
         NEW o, NEW g, Reads("CP56", o, g),
         g["hour"] = t[1], g["minute"] = t[2], g["second"] = t[3], g["millisecond"] = t[4],
         g["dayOfMonth"] = day, g["month"] = month, g["year"] = year % 100
  PROVE  toMsTimestamp(o) = <<DayNumber(year, month, day), t[1], t[2], t[3], t[4]>>
<1>1. \A f \in TimeFields : getCP56(o, f) = g[f]
  BY TimeFieldsOf56 DEF Reads, Read
<1>2. /\ getCP56(o, "hour") = t[1] /\ getCP56(o, "minute") = t[2]
      /\ getCP56(o, "second") = t[3] /\ getCP56(o, "millisecond") = t[4]
      /\ getCP56(o, "dayOfMonth") = day /\ getCP56(o, "month") = month
      /\ getCP56(o, "year") = year % 100
  BY <1>1 DEF TimeFields
<1>3. Within(year, 2000, 2099) /\ Within(month, 1, 12) /\ Within(day, 1, 31)
  BY LegalValues
<1>4. month \in Month
  BY <1>3 DEF Within, Month
<1>5. day \in Nat
  BY <1>3 DEF Within
<1>6. (year % 100) + 100 = year - 1900
  BY <1>3 DEF Within
<1>7. my_mktime(year - 1900, month - 1, day) = DayNumber(year, month, day)
  BY <1>3, <1>4, <1>5, DaysAgree
<1> QED
  BY <1>2, <1>6, <1>7 DEF toMsTimestamp

\* The inductive invariant: every octet is one, every field is read as it was set, and only a
\* CP56Time2a has a timestamp.
EncodedInv == /\ kind \in Kinds /\ Reads(kind, octets, given)
              /\ stamp # NoStamp => kind = "CP56" /\ toMsTimestamp(octets) = stamp

LEMMA EncodedInvInit == EncodedInit => EncodedInv
<1> SUFFICES ASSUME EncodedInit PROVE EncodedInv
  OBVIOUS
<1>1. kind \in Kinds /\ octets = Zero(kind) /\ given = [f \in Fields[kind] |-> 0]
  BY Types DEF EncodedInit
<1>2. Reads(kind, octets, given)
  BY <1>1, ZeroReads
<1> QED
  BY <1>1, <1>2 DEF EncodedInv, EncodedInit

\* One step of the program.
LEMMA EncodedInvStep == EncodedInv /\ [EncodedNext]_encodedVars => EncodedInv'
<1> SUFFICES ASSUME EncodedInv, [EncodedNext]_encodedVars PROVE EncodedInv'
  OBVIOUS
<1> USE DEF EncodedInv
<1>1. ASSUME NEW f \in Fields[kind], NEW v \in Values[f], Assign(f, v)
      PROVE  EncodedInv'
  <2>1. InRange(f, v)
    BY LegalValues
  <2>2. kind' = kind /\ stamp' = stamp /\ octets' = Write(kind, octets, f, v)
        /\ given' = [h \in Fields[kind] |-> ReadAs(given, f, v, h)]
    BY <1>1 DEF Assign
  <2>3. Reads(kind', octets', given')
    BY <2>1, <2>2, OneMore
  <2>4. ASSUME stamp # NoStamp
        PROVE  kind' = "CP56" /\ toMsTimestamp(octets') = stamp'
    <3>1. f \in Flags /\ kind = "CP56"
      BY <1>1, <2>4 DEF Assign
    <3>2. ASSUME NEW h \in TimeFields
          PROVE  getCP56(octets', h) = getCP56(octets, h)
      <4>1. h \in Fields[kind] /\ h # f
        BY <3>1, TimeFieldsOf56
      <4>2. Read(kind, octets', h) = given'[h] /\ Read(kind, octets, h) = given[h]
        BY <2>2, <2>3, <4>1 DEF Reads
      <4>3. given'[h] = given[h]
        <5>1. \A g : ReadAs(given, f, v, g) = IF g = f THEN Meaning(f, v) ELSE given[g]
          BY <3>1, TimeFieldsOf56, ReadAsSet
        <5> QED
          BY <2>2, <4>1, <5>1
      <4> QED
        BY <3>1, <4>2, <4>3 DEF Read
    <3>3. toMsTimestamp(octets') = toMsTimestamp(octets)
      BY <3>2, StampOfFields
    <3> QED
      BY <2>2, <2>4, <3>1, <3>3
  <2> QED
    BY <2>2, <2>3, <2>4
<1>2. ASSUME NEW year \in Years, NEW month \in Months, NEW day \in Days, NEW t \in DayTimes,
             FromMsTimestamp(year, month, day, t)
      PROVE  EncodedInv'
  <2>1. /\ kind = "CP56" /\ kind' = kind /\ octets = Zero("CP56")
        /\ octets' = CP56FromMsTimestamp(year, month, day, t)
        /\ given' = [WithTime(given, t) EXCEPT !["dayOfMonth"] = day, !["month"] = month,
                                               !["year"] = year % 100]
        /\ stamp' = <<DayNumber(year, month, day), t[1], t[2], t[3], t[4]>>
    BY <1>2 DEF FromMsTimestamp
  <2>2. Reads("CP56", octets', given')
    BY <2>1, OfDate
  <2>3. /\ given'["hour"] = t[1] /\ given'["minute"] = t[2] /\ given'["second"] = t[3]
        /\ given'["millisecond"] = t[4] /\ given'["dayOfMonth"] = day
        /\ given'["month"] = month /\ given'["year"] = year % 100
    <3>1. DOMAIN given = Fields["CP56"]
      BY <2>1 DEF Reads
    <3> QED
      BY <2>1, <3>1, TimeFieldsOf56 DEF WithTime, TimeFields
  <2>4. toMsTimestamp(octets') = stamp'
    BY <2>1, <2>2, <2>3, StampAgrees
  <2> QED
    BY <2>1, <2>2, <2>4
<1>3. ASSUME NEW t \in DayTimes, FromMsOfDay(t)
      PROVE  EncodedInv'
  <2>1. /\ kind = "CP32" /\ kind' = kind /\ stamp' = stamp /\ octets = Zero("CP32")
        /\ octets' = CP32FromMsTimestamp(t) /\ given' = WithTime(given, t)
    BY <1>3 DEF FromMsOfDay
  <2>2. Reads("CP32", octets', given')
    BY <2>1, OfDay
  <2>3. stamp' = NoStamp
    BY <2>1
  <2> QED
    BY <2>1, <2>2, <2>3
<1>4. CASE UNCHANGED encodedVars
  BY <1>4 DEF encodedVars
<1> QED
  BY <1>1, <1>2, <1>3, <1>4 DEF EncodedNext

\* In every execution of the setters and getters of the packed types, with any numbers that are
\* not negative, every field reads as it was last set, reduced to its bits, with the carry from
\* milliseconds to seconds, and a CP56Time2a made from a timestamp of the years 2000 to 2099 is
\* read as that timestamp (cpXXtime2a.c, cs101_bcr.c).
THEOREM FieldsCorrect == EncodedSpec => []FieldsIndependent
<1>1. EncodedInv => FieldsIndependent
  BY DEF EncodedInv, FieldsIndependent, Reads
<1> QED
  BY <1>1, EncodedInvInit, EncodedInvStep, PTL DEF EncodedSpec

(***************************************************************************)
(* The classes of information objects: no two have the same type           *)
(***************************************************************************)
Classes1 == {SinglePointInformation, SinglePointWithCP24Time2a, DoublePointInformation,
             DoublePointWithCP24Time2a, StepPositionInformation, StepPositionWithCP24Time2a,
             BitString32, Bitstring32WithCP24Time2a, MeasuredValueNormalized}
Types1 == {"M_SP_NA_1", "M_SP_TA_1", "M_DP_NA_1", "M_DP_TA_1", "M_ST_NA_1", "M_ST_TA_1",
           "M_BO_NA_1", "M_BO_TA_1", "M_ME_NA_1"}
Classes2 == {MeasuredValueNormalizedWithCP24Time2a, MeasuredValueScaled,
             MeasuredValueScaledWithCP24Time2a, MeasuredValueShort,
             MeasuredValueShortWithCP24Time2a, IntegratedTotals, IntegratedTotalsWithCP24Time2a,
             EventOfProtectionEquipment, PackedStartEventsOfProtectionEquipment}
Types2 == {"M_ME_TA_1", "M_ME_NB_1", "M_ME_TB_1", "M_ME_NC_1", "M_ME_TC_1", "M_IT_NA_1",
           "M_IT_TA_1", "M_EP_TA_1", "M_EP_TB_1"}
Classes3 == {PackedOutputCircuitInfo, PackedSinglePointWithSCD,
             MeasuredValueNormalizedWithoutQuality, SinglePointWithCP56Time2a,
             DoublePointWithCP56Time2a, StepPositionWithCP56Time2a, Bitstring32WithCP56Time2a,
             MeasuredValueNormalizedWithCP56Time2a, MeasuredValueScaledWithCP56Time2a}
Types3 == {"M_EP_TC_1", "M_PS_NA_1", "M_ME_ND_1", "M_SP_TB_1", "M_DP_TB_1", "M_ST_TB_1",
           "M_BO_TB_1", "M_ME_TD_1", "M_ME_TE_1"}
Classes4 == {MeasuredValueShortWithCP56Time2a, IntegratedTotalsWithCP56Time2a,
             EventOfProtectionEquipmentWithCP56Time2a,
             PackedStartEventsOfProtectionEquipmentWithCP56Time2a,
             PackedOutputCircuitInfoWithCP56Time2a, FileDirectory, SingleCommand, DoubleCommand,
             StepCommand}
Types4 == {"M_ME_TF_1", "M_IT_TB_1", "M_EP_TD_1", "M_EP_TE_1", "M_EP_TF_1", "F_DR_TA_1",
           "C_SC_NA_1", "C_DC_NA_1", "C_RC_NA_1"}
Classes5 == {SetpointCommandNormalized, SetpointCommandScaled, SetpointCommandShort,
             Bitstring32Command, SingleCommandWithCP56Time2a, DoubleCommandWithCP56Time2a,
             StepCommandWithCP56Time2a, SetpointCommandNormalizedWithCP56Time2a,
             SetpointCommandScaledWithCP56Time2a}
Types5 == {"C_SE_NA_1", "C_SE_NB_1", "C_SE_NC_1", "C_BO_NA_1", "C_SC_TA_1", "C_DC_TA_1",
           "C_RC_TA_1", "C_SE_TA_1", "C_SE_TB_1"}
Classes6 == {SetpointCommandShortWithCP56Time2a, Bitstring32CommandWithCP56Time2a,
             ParameterActivation, ParameterNormalizedValue, ParameterScaledValue,
             ParameterFloatValue, EndOfInitialization, InterrogationCommand,
             CounterInterrogationCommand}
Types6 == {"C_SE_TC_1", "C_BO_TA_1", "P_AC_NA_1", "P_ME_NA_1", "P_ME_NB_1", "P_ME_NC_1",
           "M_EI_NA_1", "C_IC_NA_1", "C_CI_NA_1"}
Classes7 == {ReadCommand, ClockSynchronizationCommand, TestCommand, ResetProcessCommand,
             DelayAcquisitionCommand, TestCommandWithCP56Time2a, FileReady, SectionReady,
             FileCallOrSelect}
Types7 == {"C_RD_NA_1", "C_CS_NA_1", "C_TS_NA_1", "C_RP_NA_1", "C_CD_NA_1", "C_TS_TA_1",
           "F_FR_NA_1", "F_SR_NA_1", "F_SC_NA_1"}
Classes8 == {FileLastSegmentOrSection, FileACK, FileSegment, QueryLog}
Types8 == {"F_LS_NA_1", "F_AF_NA_1", "F_SG_NA_1", "F_SC_NB_1"}

LEMMA TypesOf1 ==
  \A c \in Classes1 : c.type \in Types1 /\ \A d \in Classes1 : c.type = d.type => c = d
<1>1. SinglePointInformation.type = "M_SP_NA_1"
  BY DEF SinglePointInformation, Monitored, Class
<1>2. SinglePointWithCP24Time2a.type = "M_SP_TA_1"
  BY DEF SinglePointWithCP24Time2a, Monitored, Class
<1>3. DoublePointInformation.type = "M_DP_NA_1"
  BY DEF DoublePointInformation, Monitored, Class
<1>4. DoublePointWithCP24Time2a.type = "M_DP_TA_1"
  BY DEF DoublePointWithCP24Time2a, Monitored, Class
<1>5. StepPositionInformation.type = "M_ST_NA_1"
  BY DEF StepPositionInformation, Monitored, Class
<1>6. StepPositionWithCP24Time2a.type = "M_ST_TA_1"
  BY DEF StepPositionWithCP24Time2a, Monitored, Class
<1>7. BitString32.type = "M_BO_NA_1"
  BY DEF BitString32, Monitored, Class
<1>8. Bitstring32WithCP24Time2a.type = "M_BO_TA_1"
  BY DEF Bitstring32WithCP24Time2a, Monitored, Class
<1>9. MeasuredValueNormalized.type = "M_ME_NA_1"
  BY DEF MeasuredValueNormalized, Monitored, Class
<1> QED
  BY <1>1, <1>2, <1>3, <1>4, <1>5, <1>6, <1>7, <1>8, <1>9 DEF Classes1, Types1

LEMMA TypesOf2 ==
  \A c \in Classes2 : c.type \in Types2 /\ \A d \in Classes2 : c.type = d.type => c = d
<1>1. MeasuredValueNormalizedWithCP24Time2a.type = "M_ME_TA_1"
  BY DEF MeasuredValueNormalizedWithCP24Time2a, Monitored, Class
<1>2. MeasuredValueScaled.type = "M_ME_NB_1"
  BY DEF MeasuredValueScaled, Monitored, Class
<1>3. MeasuredValueScaledWithCP24Time2a.type = "M_ME_TB_1"
  BY DEF MeasuredValueScaledWithCP24Time2a, Monitored, Class
<1>4. MeasuredValueShort.type = "M_ME_NC_1"
  BY DEF MeasuredValueShort, Monitored, Class
<1>5. MeasuredValueShortWithCP24Time2a.type = "M_ME_TC_1"
  BY DEF MeasuredValueShortWithCP24Time2a, Monitored, Class
<1>6. IntegratedTotals.type = "M_IT_NA_1"
  BY DEF IntegratedTotals, Monitored, Class
<1>7. IntegratedTotalsWithCP24Time2a.type = "M_IT_TA_1"
  BY DEF IntegratedTotalsWithCP24Time2a, Monitored, Class
<1>8. EventOfProtectionEquipment.type = "M_EP_TA_1"
  BY DEF EventOfProtectionEquipment, Monitored, Class
<1>9. PackedStartEventsOfProtectionEquipment.type = "M_EP_TB_1"
  BY DEF PackedStartEventsOfProtectionEquipment, Monitored, Class
<1> QED
  BY <1>1, <1>2, <1>3, <1>4, <1>5, <1>6, <1>7, <1>8, <1>9 DEF Classes2, Types2

LEMMA TypesOf3 ==
  \A c \in Classes3 : c.type \in Types3 /\ \A d \in Classes3 : c.type = d.type => c = d
<1>1. PackedOutputCircuitInfo.type = "M_EP_TC_1"
  BY DEF PackedOutputCircuitInfo, Monitored, Class
<1>2. PackedSinglePointWithSCD.type = "M_PS_NA_1"
  BY DEF PackedSinglePointWithSCD, Monitored, Class
<1>3. MeasuredValueNormalizedWithoutQuality.type = "M_ME_ND_1"
  BY DEF MeasuredValueNormalizedWithoutQuality, Monitored, Class
<1>4. SinglePointWithCP56Time2a.type = "M_SP_TB_1"
  BY DEF SinglePointWithCP56Time2a, Monitored, Class
<1>5. DoublePointWithCP56Time2a.type = "M_DP_TB_1"
  BY DEF DoublePointWithCP56Time2a, Monitored, Class
<1>6. StepPositionWithCP56Time2a.type = "M_ST_TB_1"
  BY DEF StepPositionWithCP56Time2a, Monitored, Class
<1>7. Bitstring32WithCP56Time2a.type = "M_BO_TB_1"
  BY DEF Bitstring32WithCP56Time2a, Monitored, Class
<1>8. MeasuredValueNormalizedWithCP56Time2a.type = "M_ME_TD_1"
  BY DEF MeasuredValueNormalizedWithCP56Time2a, Monitored, Class
<1>9. MeasuredValueScaledWithCP56Time2a.type = "M_ME_TE_1"
  BY DEF MeasuredValueScaledWithCP56Time2a, Monitored, Class
<1> QED
  BY <1>1, <1>2, <1>3, <1>4, <1>5, <1>6, <1>7, <1>8, <1>9 DEF Classes3, Types3

LEMMA TypesOf4 ==
  \A c \in Classes4 : c.type \in Types4 /\ \A d \in Classes4 : c.type = d.type => c = d
<1>1. MeasuredValueShortWithCP56Time2a.type = "M_ME_TF_1"
  BY DEF MeasuredValueShortWithCP56Time2a, Monitored, Class
<1>2. IntegratedTotalsWithCP56Time2a.type = "M_IT_TB_1"
  BY DEF IntegratedTotalsWithCP56Time2a, Monitored, Class
<1>3. EventOfProtectionEquipmentWithCP56Time2a.type = "M_EP_TD_1"
  BY DEF EventOfProtectionEquipmentWithCP56Time2a, Monitored, Class
<1>4. PackedStartEventsOfProtectionEquipmentWithCP56Time2a.type = "M_EP_TE_1"
  BY DEF PackedStartEventsOfProtectionEquipmentWithCP56Time2a, Monitored, Class
<1>5. PackedOutputCircuitInfoWithCP56Time2a.type = "M_EP_TF_1"
  BY DEF PackedOutputCircuitInfoWithCP56Time2a, Monitored, Class
<1>6. FileDirectory.type = "F_DR_TA_1"
  BY DEF FileDirectory, Monitored, Class
<1>7. SingleCommand.type = "C_SC_NA_1"
  BY DEF SingleCommand, Control, Class
<1>8. DoubleCommand.type = "C_DC_NA_1"
  BY DEF DoubleCommand, Control, Class
<1>9. StepCommand.type = "C_RC_NA_1"
  BY DEF StepCommand, Control, Class
<1> QED
  BY <1>1, <1>2, <1>3, <1>4, <1>5, <1>6, <1>7, <1>8, <1>9 DEF Classes4, Types4

LEMMA TypesOf5 ==
  \A c \in Classes5 : c.type \in Types5 /\ \A d \in Classes5 : c.type = d.type => c = d
<1>1. SetpointCommandNormalized.type = "C_SE_NA_1"
  BY DEF SetpointCommandNormalized, Control, Class
<1>2. SetpointCommandScaled.type = "C_SE_NB_1"
  BY DEF SetpointCommandScaled, Control, Class
<1>3. SetpointCommandShort.type = "C_SE_NC_1"
  BY DEF SetpointCommandShort, Control, Class
<1>4. Bitstring32Command.type = "C_BO_NA_1"
  BY DEF Bitstring32Command, Control, Class
<1>5. SingleCommandWithCP56Time2a.type = "C_SC_TA_1"
  BY DEF SingleCommandWithCP56Time2a, Control, Class
<1>6. DoubleCommandWithCP56Time2a.type = "C_DC_TA_1"
  BY DEF DoubleCommandWithCP56Time2a, Control, Class
<1>7. StepCommandWithCP56Time2a.type = "C_RC_TA_1"
  BY DEF StepCommandWithCP56Time2a, Control, Class
<1>8. SetpointCommandNormalizedWithCP56Time2a.type = "C_SE_TA_1"
  BY DEF SetpointCommandNormalizedWithCP56Time2a, Control, Class
<1>9. SetpointCommandScaledWithCP56Time2a.type = "C_SE_TB_1"
  BY DEF SetpointCommandScaledWithCP56Time2a, Control, Class
<1> QED
  BY <1>1, <1>2, <1>3, <1>4, <1>5, <1>6, <1>7, <1>8, <1>9 DEF Classes5, Types5

LEMMA TypesOf6 ==
  \A c \in Classes6 : c.type \in Types6 /\ \A d \in Classes6 : c.type = d.type => c = d
<1>1. SetpointCommandShortWithCP56Time2a.type = "C_SE_TC_1"
  BY DEF SetpointCommandShortWithCP56Time2a, Control, Class
<1>2. Bitstring32CommandWithCP56Time2a.type = "C_BO_TA_1"
  BY DEF Bitstring32CommandWithCP56Time2a, Control, Class
<1>3. ParameterActivation.type = "P_AC_NA_1"
  BY DEF ParameterActivation, Control, Class
<1>4. ParameterNormalizedValue.type = "P_ME_NA_1"
  BY DEF ParameterNormalizedValue, Parameter, MeasuredValueNormalized, Monitored, Class
<1>5. ParameterScaledValue.type = "P_ME_NB_1"
  BY DEF ParameterScaledValue, Parameter, MeasuredValueScaled, Monitored, Class
<1>6. ParameterFloatValue.type = "P_ME_NC_1"
  BY DEF ParameterFloatValue, Parameter, MeasuredValueShort, Monitored, Class
<1>7. EndOfInitialization.type = "M_EI_NA_1"
  BY DEF EndOfInitialization, Single, Class
<1>8. InterrogationCommand.type = "C_IC_NA_1"
  BY DEF InterrogationCommand, Single, Class
<1>9. CounterInterrogationCommand.type = "C_CI_NA_1"
  BY DEF CounterInterrogationCommand, Single, Class
<1> QED
  BY <1>1, <1>2, <1>3, <1>4, <1>5, <1>6, <1>7, <1>8, <1>9 DEF Classes6, Types6

LEMMA TypesOf7 ==
  \A c \in Classes7 : c.type \in Types7 /\ \A d \in Classes7 : c.type = d.type => c = d
<1>1. ReadCommand.type = "C_RD_NA_1"
  BY DEF ReadCommand, Single, Class
<1>2. ClockSynchronizationCommand.type = "C_CS_NA_1"
  BY DEF ClockSynchronizationCommand, Single, Class
<1>3. TestCommand.type = "C_TS_NA_1"
  BY DEF TestCommand, Single, Class
<1>4. ResetProcessCommand.type = "C_RP_NA_1"
  BY DEF ResetProcessCommand, Single, Class
<1>5. DelayAcquisitionCommand.type = "C_CD_NA_1"
  BY DEF DelayAcquisitionCommand, Single, Class
<1>6. TestCommandWithCP56Time2a.type = "C_TS_TA_1"
  BY DEF TestCommandWithCP56Time2a, Single, Class
<1>7. FileReady.type = "F_FR_NA_1"
  BY DEF FileReady, Single, Class
<1>8. SectionReady.type = "F_SR_NA_1"
  BY DEF SectionReady, Single, Class
<1>9. FileCallOrSelect.type = "F_SC_NA_1"
  BY DEF FileCallOrSelect, Single, Class
<1> QED
  BY <1>1, <1>2, <1>3, <1>4, <1>5, <1>6, <1>7, <1>8, <1>9 DEF Classes7, Types7

LEMMA TypesOf8 ==
  \A c \in Classes8 : c.type \in Types8 /\ \A d \in Classes8 : c.type = d.type => c = d
<1>1. FileLastSegmentOrSection.type = "F_LS_NA_1"
  BY DEF FileLastSegmentOrSection, Single, Class
<1>2. FileACK.type = "F_AF_NA_1"
  BY DEF FileACK, Single, Class
<1>3. FileSegment.type = "F_SG_NA_1"
  BY DEF FileSegment, Single, Class
<1>4. QueryLog.type = "F_SC_NB_1"
  BY DEF QueryLog, Single, Class
<1> QED
  BY <1>1, <1>2, <1>3, <1>4 DEF Classes8, Types8

LEMMA TypesDisjoint ==
  /\ \A x \in Types1 : x \notin Types2 \cup Types3 \cup Types4 \cup Types5 \cup Types6
                                  \cup Types7 \cup Types8
  /\ \A x \in Types2 : x \notin Types3 \cup Types4 \cup Types5 \cup Types6 \cup Types7 \cup Types8
  /\ \A x \in Types3 : x \notin Types4 \cup Types5 \cup Types6 \cup Types7 \cup Types8
  /\ \A x \in Types4 : x \notin Types5 \cup Types6 \cup Types7 \cup Types8
  /\ \A x \in Types5 : x \notin Types6 \cup Types7 \cup Types8
  /\ \A x \in Types6 : x \notin Types7 \cup Types8
  /\ \A x \in Types7 : x \notin Types8
BY DEF Types1, Types2, Types3, Types4, Types5, Types6, Types7, Types8

LEMMA TypesDiffer ==
  ASSUME NEW c \in Classes, NEW d \in Classes, c.type = d.type
  PROVE  c = d
<1>1. Classes = Classes1 \cup Classes2 \cup Classes3 \cup Classes4 \cup Classes5 \cup Classes6
                  \cup Classes7 \cup Classes8
  BY DEF Classes, Classes1, Classes2, Classes3, Classes4, Classes5, Classes6, Classes7, Classes8
<1> QED
   BY <1>1, TypesDisjoint, TypesOf1, TypesOf2, TypesOf3, TypesOf4, TypesOf5, TypesOf6, TypesOf7,
     TypesOf8

(***************************************************************************)
(* Sequences put one after the other                                       *)
(***************************************************************************)
\* f[i] is the first i of the sequences of s, put one after the other, for i up to n.
Joins(s, n, f) == f = [i \in 1..n |-> IF i = 1 THEN s[i] ELSE f[i - 1] \o s[i]]

LEMMA JoinsMore ==
  ASSUME NEW s, NEW n \in Nat, NEW f, Joins(s, n, f)
  PROVE  \E g : Joins(s, n + 1, g)
<1> DEFINE g == [i \in 1..(n + 1) |-> IF i <= n THEN f[i]
                                      ELSE IF i = 1 THEN s[i] ELSE f[i - 1] \o s[i]]
<1>1. ASSUME NEW i \in 1..(n + 1)
      PROVE  g[i] = IF i = 1 THEN s[i] ELSE g[i - 1] \o s[i]
  <2>1. CASE i <= n
    <3>1. i \in 1..n /\ (i # 1 => i - 1 \in 1..n)
      BY <2>1
    <3>2. f[i] = IF i = 1 THEN s[i] ELSE f[i - 1] \o s[i]
      BY <3>1 DEF Joins
    <3>3. g[i] = f[i] /\ (i # 1 => g[i - 1] = f[i - 1])
      BY <3>1
    <3> QED
      BY <3>2, <3>3
  <2>2. CASE i = n + 1
    BY <2>2
  <2> QED
    BY <2>1, <2>2
<1>2. Joins(s, n + 1, g)
  BY <1>1 DEF Joins
<1> QED
  BY <1>2

\* There is such a function for every n, and it is the only one.
LEMMA JoinsExist ==
  ASSUME NEW s, NEW n \in Nat
  PROVE  \E f : Joins(s, n, f)
<1> DEFINE D == {k \in Nat : ~ \E f : Joins(s, k, f)}
<1>1. \E f : Joins(s, 0, f)
  <2>1. Joins(s, 0, <<>>)
    BY DEF Joins
  <2> QED
    BY <2>1
<1>2. ASSUME NEW k \in D PROVE \E j \in D : j < k
  <2>1. k - 1 \in Nat /\ (k - 1) + 1 = k
    BY <1>1
  <2>2. ~ \E f : Joins(s, k - 1, f)
    BY <2>1, JoinsMore
  <2> QED
    BY <2>1, <2>2
<1>3. D = {}
  <2>1. D \subseteq Nat
    OBVIOUS
  <2> HIDE DEF D
  <2> QED
    BY <1>2, <2>1, NoLeast
<1> QED
  BY <1>3

LEMMA JoinsUnique ==
  ASSUME NEW s, NEW r, NEW n \in Nat, n # 0, NEW m \in Nat, n <= m, NEW f, NEW g,
         Joins(s, n, f), Joins(r, m, g), \A i \in 1..n : s[i] = r[i]
  PROVE  f[n] = g[n]
<1> DEFINE D == {i \in 1..n : f[i] # g[i]}
<1>1. ASSUME NEW i \in D PROVE \E j \in D : j < i
  <2>1. i \in 1..n /\ i \in 1..m /\ (i # 1 => i - 1 \in 1..n /\ i - 1 \in 1..m /\ i - 1 < i)
    OBVIOUS
  <2>2. /\ f[i] = IF i = 1 THEN s[i] ELSE f[i - 1] \o s[i]
        /\ g[i] = IF i = 1 THEN r[i] ELSE g[i - 1] \o r[i]
    BY <2>1 DEF Joins
  <2>3. i # 1 /\ f[i - 1] # g[i - 1]
    BY <2>1, <2>2
  <2> QED
    BY <2>1, <2>3
<1>2. D = {}
  <2>1. D \subseteq Nat
    OBVIOUS
  <2> HIDE DEF D
  <2> QED
    BY <1>1, <2>1, NoLeast
<1> QED
  BY <1>2

LEMMA FlattenIs ==
  ASSUME NEW S, NEW s \in Seq(Seq(S)), Len(s) # 0
  PROVE  \E f : Joins(s, Len(s), f) /\ FlattenSeq(s) = f[Len(s)]
<1> DEFINE p == CHOOSE f : Joins(s, Len(s), f)
<1>1. Joins(s, Len(s), p)
  <2>1. Len(s) \in Nat
    OBVIOUS
  <2>2. \E f : Joins(s, Len(s), f)
    BY <2>1, JoinsExist
  <2> QED
    BY <2>2, Zenon
<1>2. FlattenSeq(s) = p[Len(s)]
  BY DEF FlattenSeq, Joins
<1> HIDE DEF p
<1> QED
  BY <1>1, <1>2

\* FlattenSeq of a sequence with one more sequence in it.
LEMMA FlattenAppend ==
  ASSUME NEW S, NEW s \in Seq(Seq(S)), NEW e \in Seq(S)
  PROVE  FlattenSeq(Append(s, e)) = FlattenSeq(s) \o e
<1> DEFINE n == Len(s)
           r == Append(s, e)
<1>1. n \in Nat /\ r \in Seq(Seq(S)) /\ Len(r) = n + 1 /\ r[n + 1] = e
      /\ \A i \in 1..n : r[i] = s[i]
  OBVIOUS
<1>2. PICK g : Joins(r, n + 1, g) /\ FlattenSeq(r) = g[n + 1]
  <2>1. r \in Seq(Seq(S)) /\ Len(r) = n + 1 /\ Len(r) # 0
    BY <1>1
  <2> HIDE DEF r, n
  <2>2. \E g : Joins(r, Len(r), g) /\ FlattenSeq(r) = g[Len(r)]
    BY <2>1, FlattenIs
  <2> QED
    BY <2>1, <2>2
<1>3. n + 1 \in 1..(n + 1)
  BY <1>1
<1>4. g[n + 1] = IF n + 1 = 1 THEN r[n + 1] ELSE g[(n + 1) - 1] \o r[n + 1]
  BY <1>2, <1>3 DEF Joins
<1>5. CASE n = 0
  <2>1. s = <<>> /\ FlattenSeq(s) = <<>>
    BY <1>5 DEF FlattenSeq
  <2>2. <<>> \o e = e
    OBVIOUS
  <2> QED
    BY <1>1, <1>2, <1>4, <1>5, <2>1, <2>2
<1>6. CASE n # 0
  <2>1. PICK f : Joins(s, n, f) /\ FlattenSeq(s) = f[n]
    BY <1>6, FlattenIs
  <2>2. n \in 1..n /\ n <= n + 1
    BY <1>1, <1>6
  <2>3. f[n] = g[n]
    <3>1. \A i \in 1..n : s[i] = r[i]
      BY <1>1
    <3>2. PICK m \in Nat : m = n + 1
      BY <1>1
    <3>3. n \in Nat /\ n # 0 /\ n <= m /\ Joins(s, n, f) /\ Joins(r, m, g)
      BY <1>1, <1>2, <1>6, <2>1, <3>2
    <3> HIDE DEF n, r
    <3> QED
      BY <3>1, <3>3, JoinsUnique
  <2>4. n + 1 # 1 /\ (n + 1) - 1 = n
    BY <1>1, <1>6
  <2> QED
    BY <1>1, <1>2, <1>4, <2>1, <2>3, <2>4
<1> QED
  BY <1>5, <1>6

\* It is a sequence of the same elements.
LEMMA FlattenType ==
  ASSUME NEW S, NEW s \in Seq(Seq(S))
  PROVE  FlattenSeq(s) \in Seq(S)
<1>1. CASE Len(s) = 0
  BY <1>1 DEF FlattenSeq
<1>2. CASE Len(s) # 0
  <2>1. PICK f : Joins(s, Len(s), f) /\ FlattenSeq(s) = f[Len(s)]
    BY <1>2, FlattenIs
  <2> DEFINE D == {i \in 1..Len(s) : f[i] \notin Seq(S)}
  <2>2. ASSUME NEW i \in D PROVE \E j \in D : j < i
    <3>1. i # 1 => i - 1 \in 1..Len(s) /\ i - 1 < i
      OBVIOUS
    <3>2. f[i] = IF i = 1 THEN s[i] ELSE f[i - 1] \o s[i]
      BY <2>1 DEF Joins
    <3>3. s[i] \in Seq(S)
      OBVIOUS
    <3>4. \A a, b \in Seq(S) : a \o b \in Seq(S)
      OBVIOUS
    <3>5. f[i] \notin Seq(S)
      OBVIOUS
    <3>6. i # 1 /\ f[i - 1] \notin Seq(S)
      BY <3>2, <3>3, <3>4, <3>5, Zenon
    <3> QED
      BY <3>1, <3>6
  <2>3. D = {}
    <3>1. D \subseteq Nat
      OBVIOUS
    <3> HIDE DEF D
    <3> QED
      BY <2>2, <3>1, NoLeast
  <2>4. Len(s) \in 1..Len(s)
    BY <1>2
  <2> QED
    BY <2>1, <2>3, <2>4
<1> QED
  BY <1>1, <1>2

(***************************************************************************)
(* The addresses that are sent                                             *)
(***************************************************************************)
\* The addresses of the ASDUs of type t, and of the points among the first q of a list.
Addresses(s, t) == [k \in 1..Len(s) |-> IF s[k].type = t THEN s[k].ioas ELSE <<>>]
PointsOf(list, points, q) == [p \in 1..q |-> IF p \in points THEN <<list[p]>> ELSE <<>>]
Kept(list, points, q) == FlattenSeq(PointsOf(list, points, q))
Asdus == [type : DataTypes, sequence : BOOLEAN, ioas : Seq(Nat)]

LEMMA Associative ==
  ASSUME NEW a \in Seq(Nat), NEW b \in Seq(Nat), NEW c \in Seq(Nat)
  PROVE  (a \o b) \o c = a \o (b \o c)
BY ConcatAssociative

LEMMA AnsweredType ==
  ASSUME NEW s \in Seq(Asdus), NEW t
  PROVE  /\ Addresses(s, t) \in Seq(Seq(Nat))
         /\ FlattenSeq(Addresses(s, t)) \in Seq(Nat)
<1>1. ASSUME NEW k \in 1..Len(s)
      PROVE  (IF s[k].type = t THEN s[k].ioas ELSE <<>>) \in Seq(Nat)
  <2>1. s[k] \in Asdus
    OBVIOUS
  <2>2. s[k].ioas \in Seq(Nat)
    BY <2>1 DEF Asdus
  <2> QED
    BY <2>2
<1>2. Addresses(s, t) \in Seq(Seq(Nat))
  BY <1>1 DEF Addresses
<1> QED
  BY <1>2, FlattenType

LEMMA AnsweredMore ==
  ASSUME NEW s \in Seq(Asdus), NEW a \in Asdus, NEW t
  PROVE  FlattenSeq(Addresses(Append(s, a), t))
           = FlattenSeq(Addresses(s, t)) \o (IF a.type = t THEN a.ioas ELSE <<>>)
<1> DEFINE e == IF a.type = t THEN a.ioas ELSE <<>>
<1>1. e \in Seq(Nat)
  BY DEF Asdus
<1>2. Addresses(s, t) \in Seq(Seq(Nat))
  BY AnsweredType
<1>3. Addresses(Append(s, a), t) = Append(Addresses(s, t), e)
  BY DEF Addresses
<1> HIDE DEF e
<1>4. FlattenSeq(Append(Addresses(s, t), e)) = FlattenSeq(Addresses(s, t)) \o e
  BY <1>1, <1>2, FlattenAppend
<1> QED
  BY <1>3, <1>4 DEF e

LEMMA AnsweredNone ==
  ASSUME NEW t
  PROVE  FlattenSeq(Addresses(<<>>, t)) = <<>>
<1>1. Addresses(<<>>, t) = <<>>
  BY DEF Addresses
<1> QED
  BY <1>1 DEF FlattenSeq

LEMMA KeptNone ==
  ASSUME NEW list, NEW points
  PROVE  Kept(list, points, 0) = <<>>
<1>1. PointsOf(list, points, 0) = <<>>
  BY DEF PointsOf
<1> QED
  BY <1>1 DEF Kept, FlattenSeq

LEMMA KeptMore ==
  ASSUME NEW list \in Seq(Nat), NEW points, NEW q \in Nat, q < Len(list)
  PROVE  /\ Kept(list, points, q) \in Seq(Nat)
         /\ Kept(list, points, q + 1)
              = Kept(list, points, q) \o (IF q + 1 \in points THEN <<list[q + 1]>> ELSE <<>>)
<1> DEFINE e == IF q + 1 \in points THEN <<list[q + 1]>> ELSE <<>>
<1>1. \A p \in 1..(q + 1) : list[p] \in Nat
  OBVIOUS
<1>2. e \in Seq(Nat)
  <2>1. list[q + 1] \in Nat
    BY <1>1
  <2> QED
    BY <2>1
<1>3. PointsOf(list, points, q) \in Seq(Seq(Nat))
  <2>1. ASSUME NEW p \in 1..q
        PROVE  (IF p \in points THEN <<list[p]>> ELSE <<>>) \in Seq(Nat)
    <3>1. list[p] \in Nat
      BY <1>1
    <3> QED
      BY <3>1
  <2> QED
    BY <2>1 DEF PointsOf
<1>4. PointsOf(list, points, q + 1) = Append(PointsOf(list, points, q), e)
  BY DEF PointsOf
<1> HIDE DEF e
<1>5. /\ FlattenSeq(PointsOf(list, points, q)) \in Seq(Nat)
      /\ FlattenSeq(Append(PointsOf(list, points, q), e))
           = FlattenSeq(PointsOf(list, points, q)) \o e
  BY <1>2, <1>3, FlattenAppend, FlattenType
<1> QED
  BY <1>4, <1>5 DEF Kept, e

\* Of the points after q up to r, those up to m are among the points.
Begins(list, points, q, m, r) ==
  /\ list \in Seq(Nat) /\ q \in Nat /\ m \in Nat /\ r \in Nat
  /\ q <= m /\ m <= r /\ q < r /\ r <= Len(list)
  /\ \A p \in Nat : q < p /\ p <= r => (p \in points <=> p <= m)

\* The points after the first q of a list up to point r, of which those up to m are kept.
LEMMA KeptChunk ==
  ASSUME NEW list, NEW points, NEW q, NEW m, NEW r, Begins(list, points, q, m, r)
  PROVE  Kept(list, points, r) = Kept(list, points, q) \o SubSeq(list, q + 1, m)
<1> USE DEF Begins
<1> DEFINE K == Kept(list, points, q)
           lesser(p) == IF p <= m THEN p ELSE m
           P(p) == Kept(list, points, p) = K \o SubSeq(list, q + 1, lesser(p))
           D == {p \in Nat : q <= p /\ p <= r /\ ~P(p)}
<1>1. K \in Seq(Nat)
  <2>1. q < Len(list)
    OBVIOUS
  <2> QED
    BY <2>1, KeptMore
<1>2. P(q)
  <2>1. lesser(q) = q
    OBVIOUS
  <2>2. SubSeq(list, q + 1, q) = <<>>
    OBVIOUS
  <2>3. K \o <<>> = K
    <3> HIDE DEF K
    <3> QED
      BY <1>1
  <2> QED
    BY <2>1, <2>2, <2>3
<1>3. ASSUME NEW p \in Nat, q <= p, p < r, P(p)
      PROVE  P(p + 1)
  <2>1. PICK n \in Nat : n = p + 1
    OBVIOUS
  <2>2. p < Len(list) /\ (n \in points <=> n <= m) /\ list[n] \in Nat
    BY <1>3, <2>1
  <2>3. Kept(list, points, n)
          = Kept(list, points, p) \o (IF n \in points THEN <<list[n]>> ELSE <<>>)
    BY <2>1, <2>2, KeptMore
  <2> DEFINE S == SubSeq(list, q + 1, lesser(p))
  <2>4. S \in Seq(Nat) /\ Kept(list, points, p) = K \o S
    BY <1>3, <2>2
  <2>5. ASSUME n <= m
        PROVE  P(n)
    <3>1. lesser(p) = p /\ lesser(n) = n
      BY <2>1, <2>5
    <3>2. S \o <<list[n]>> = SubSeq(list, q + 1, n)
      BY <1>3, <2>1, <2>2, <3>1
    <3>3. PICK e \in Seq(Nat) : e = <<list[n]>>
      <4>1. <<list[n]>> \in Seq(Nat)
        BY <2>2
      <4> QED
        BY <4>1
    <3>4. (K \o S) \o e = K \o (S \o e)
      <4>1. PICK x \in Seq(Nat), y \in Seq(Nat) : x = K /\ y = S
        BY <1>1, <2>4
      <4>2. (x \o y) \o e = x \o (y \o e)
        BY Associative
      <4> HIDE DEF K, S
      <4> QED
        BY <4>1, <4>2
    <3>5. Kept(list, points, n) = K \o SubSeq(list, q + 1, n)
      <4> HIDE DEF K, S
      <4> QED
        BY <2>2, <2>3, <2>4, <2>5, <3>2, <3>3, <3>4
    <3>6. P(n)
      BY <3>1, <3>5
    <3> HIDE DEF P
    <3> QED
      BY <2>1, <3>6
  <2>6. ASSUME n > m
        PROVE  P(n)
    <3>1. lesser(n) = m /\ lesser(p) = m
      BY <1>3, <2>1, <2>6
    <3>2. (K \o S) \o <<>> = K \o S
      <4> HIDE DEF K, S
      <4> QED
        BY <1>1, <2>4
    <3>3. Kept(list, points, n) = K \o S
      <4> HIDE DEF K, S
      <4> QED
        BY <2>2, <2>3, <2>4, <2>6, <3>2
    <3>4. P(n)
      BY <3>1, <3>3
    <3> HIDE DEF P
    <3> QED
      BY <2>1, <3>4
  <2>7. n <= m \/ n > m
    OBVIOUS
  <2>8. P(n)
    <3> HIDE DEF P
    <3> QED
      BY <2>1, <2>5, <2>6, <2>7
  <2> HIDE DEF P
  <2> QED
    BY <2>1, <2>8
<1> HIDE DEF P
<1>4. D = {}
  <2>1. ASSUME NEW p \in D PROVE \E i \in D : i < p
    <3>1. p # q /\ p \in Nat /\ p <= r /\ q <= p
      BY <1>2
    <3>2. p - 1 \in Nat /\ p - 1 < r /\ q <= p - 1 /\ (p - 1) + 1 = p
      BY <3>1
    <3>3. ~P(p - 1)
      BY <1>3, <3>2
    <3> QED
      BY <3>2, <3>3
  <2>2. D \subseteq Nat
    OBVIOUS
  <2> HIDE DEF D
  <2> QED
    BY <2>1, <2>2, NoLeast
<1>5. P(r)
  BY <1>4
<1>6. lesser(r) = m
  OBVIOUS
<1> QED
  BY <1>5, <1>6 DEF P

\* What is kept are the points in their order.
LEMMA KeptRanked ==
  ASSUME NEW list \in Seq(Nat), NEW points, points \subseteq DOMAIN list
  PROVE  /\ Len(Kept(list, points, Len(list))) = Cardinality(points)
         /\ \A p \in points :
              Kept(list, points, Len(list))[Cardinality({i \in points : i <= p})] = list[p]
<1> DEFINE K(q) == Kept(list, points, q)
           UpTo(q) == {i \in points : i <= q}
           P(q) == /\ K(q) \in Seq(Nat) /\ Len(K(q)) = Cardinality(UpTo(q))
                   /\ \A p \in UpTo(q) : /\ Cardinality(UpTo(p)) \in 1..Len(K(q))
                                         /\ K(q)[Cardinality(UpTo(p))] = list[p]
           D == {q \in Nat : q <= Len(list) /\ ~P(q)}
<1>1. P(0)
  <2>1. UpTo(0) = {}
    OBVIOUS
  <2>2. K(0) = <<>>
    BY KeptNone
  <2>3. Cardinality({}) = 0 /\ Len(<<>>) = 0 /\ <<>> \in Seq(Nat)
    BY FS_EmptySet
  <2> HIDE DEF K, UpTo
  <2> QED
    BY <2>1, <2>2, <2>3
<1>2. ASSUME NEW q \in Nat
      PROVE  IsFiniteSet(UpTo(q)) /\ Cardinality(UpTo(q)) \in Nat
  <2>1. UpTo(q) \subseteq 1..q /\ IsFiniteSet(1..q)
    BY FS_Interval
  <2> HIDE DEF UpTo
  <2> QED
    BY <2>1, FS_Subset, FS_CardinalityType
<1>3. ASSUME NEW q \in Nat, q < Len(list), P(q)
      PROVE  P(q + 1)
  <2>1. PICK n \in Nat : n = q + 1
    OBVIOUS
  <2>2. n \in DOMAIN list /\ list[n] \in Nat
    BY <1>3, <2>1
  <2>3. K(n) = K(q) \o (IF n \in points THEN <<list[n]>> ELSE <<>>)
    BY <1>3, <2>1, KeptMore
  <2>4. IsFiniteSet(UpTo(q)) /\ Cardinality(UpTo(q)) \in Nat
    BY <1>2
  <2>5. CASE n \in points
    <3>1. UpTo(n) = UpTo(q) \cup {n} /\ n \notin UpTo(q)
      BY <2>1, <2>5
    <3>2. Cardinality(UpTo(n)) = Cardinality(UpTo(q)) + 1
      <4> HIDE DEF UpTo
      <4> QED
        BY <2>4, <3>1, FS_AddElement
    <3>3. PICK k \in Seq(Nat) : k = K(q) /\ Len(k) = Cardinality(UpTo(q))
      BY <1>3
    <3>4. K(n) = Append(k, list[n])
      <4> HIDE DEF K
      <4> QED
        BY <2>2, <2>3, <2>5, <3>3
    <3>5. Len(K(n)) = Len(k) + 1 /\ K(n) \in Seq(Nat)
      BY <2>2, <3>4
    <3>6. ASSUME NEW p \in UpTo(n)
          PROVE  Cardinality(UpTo(p)) \in 1..Len(K(n)) /\ K(n)[Cardinality(UpTo(p))] = list[p]
      <4>1. CASE p = n
        <5> HIDE DEF K, UpTo
        <5> QED
          BY <2>2, <3>2, <3>3, <3>4, <3>5, <4>1
      <4>2. CASE p # n
        <5>1. p \in UpTo(q)
          BY <3>1, <3>6, <4>2
        <5>2. PICK c \in 1..Len(k) : c = Cardinality(UpTo(p)) /\ k[c] = list[p]
          <6> HIDE DEF K, UpTo
          <6> QED
            BY <1>3, <3>3, <5>1
        <5>3. c \in 1..Len(K(n)) /\ K(n)[c] = k[c]
          BY <2>2, <3>4, <3>5
        <5> HIDE DEF K, UpTo
        <5> QED
          BY <5>2, <5>3
      <4> QED
        BY <4>1, <4>2
    <3> HIDE DEF K, UpTo
    <3> QED
      BY <2>1, <3>2, <3>3, <3>5, <3>6
  <2>6. CASE n \notin points
    <3>1. UpTo(n) = UpTo(q)
      BY <2>1, <2>6, points \subseteq DOMAIN list
    <3>2. K(n) = K(q)
      <4> HIDE DEF K
      <4> QED
        BY <1>3, <2>3, <2>6
    <3> HIDE DEF K, UpTo
    <3> QED
      BY <1>3, <2>1, <3>1, <3>2
  <2> QED
    BY <2>5, <2>6
<1> HIDE DEF P
<1>4. D = {}
  <2>1. ASSUME NEW q \in D PROVE \E i \in D : i < q
    <3>1. q # 0 /\ q \in Nat /\ q <= Len(list)
      BY <1>1
    <3>2. q - 1 \in Nat /\ q - 1 < Len(list) /\ (q - 1) + 1 = q
      BY <3>1
    <3>3. ~P(q - 1)
      BY <1>3, <3>2
    <3> QED
      BY <3>2, <3>3
  <2>2. D \subseteq Nat
    OBVIOUS
  <2> HIDE DEF D
  <2> QED
    BY <2>1, <2>2, NoLeast
<1>5. P(Len(list))
  BY <1>4
<1>6. UpTo(Len(list)) = points
  BY points \subseteq DOMAIN list
<1>7. Len(K(Len(list))) = Cardinality(points)
  BY <1>5, <1>6 DEF P
<1>8. \A p \in points : K(Len(list))[Cardinality({i \in points : i <= p})] = list[p]
  BY <1>5, <1>6 DEF P
<1> QED
  BY <1>7, <1>8

(***************************************************************************)
(* The sizes of the types of points                                        *)
(***************************************************************************)
LEMMA ClassOfType ==
  ASSUME NEW c \in Classes
  PROVE  ClassOf(c.type) = c
<1>1. ClassOf(c.type) \in Classes /\ ClassOf(c.type).type = c.type
  BY DEF ClassOf
<1> QED
  BY <1>1, TypesDiffer

\* The encoder of a type asks for the room of an element, which is what getElement and the
\* program take it for.
Sized(t, e) ==
  /\ ClassOf(t).checked /\ ClassOf(t).space = e /\ ClassOf(t).spaceInSequence = e
  /\ ElementSize[t] = e /\ IoSize[t] = e + 3

LEMMA SizesAgree ==
  \A t \in DataTypes : \E e \in {1, 2, 3, 5, 8, 10, 12} : Sized(t, e)
<1>1. Sized("M_SP_TB_1", 8)
  <2>1. SinglePointWithCP56Time2a \in Classes
    BY DEF Classes
  <2>2. /\ SinglePointWithCP56Time2a.type = "M_SP_TB_1" /\ SinglePointWithCP56Time2a.checked
        /\ SinglePointWithCP56Time2a.space = 8 /\ SinglePointWithCP56Time2a.spaceInSequence = 8
    BY DEF SinglePointWithCP56Time2a, Monitored, Class
  <2>3. ClassOf("M_SP_TB_1") = SinglePointWithCP56Time2a
    BY <2>1, <2>2, ClassOfType
  <2>4. ElementSize["M_SP_TB_1"] = 8 /\ IoSize["M_SP_TB_1"] = 11
    BY DEF ElementSize, MonitoredElementSize, MeasuredElementSize, ProtectionElementSize,
           LongTimeElementSize, ControlElementSize, FileElementSize, IoSize
  <2> QED
    BY <2>2, <2>3, <2>4 DEF Sized
<1>2. Sized("M_DP_TB_1", 8)
  <2>1. DoublePointWithCP56Time2a \in Classes
    BY DEF Classes
  <2>2. /\ DoublePointWithCP56Time2a.type = "M_DP_TB_1" /\ DoublePointWithCP56Time2a.checked
        /\ DoublePointWithCP56Time2a.space = 8 /\ DoublePointWithCP56Time2a.spaceInSequence = 8
    BY DEF DoublePointWithCP56Time2a, Monitored, Class
  <2>3. ClassOf("M_DP_TB_1") = DoublePointWithCP56Time2a
    BY <2>1, <2>2, ClassOfType
  <2>4. ElementSize["M_DP_TB_1"] = 8 /\ IoSize["M_DP_TB_1"] = 11
    BY DEF ElementSize, MonitoredElementSize, MeasuredElementSize, ProtectionElementSize,
           LongTimeElementSize, ControlElementSize, FileElementSize, IoSize
  <2> QED
    BY <2>2, <2>3, <2>4 DEF Sized
<1>3. Sized("M_ME_TD_1", 10)
  <2>1. MeasuredValueNormalizedWithCP56Time2a \in Classes
    BY DEF Classes
  <2>2. /\ MeasuredValueNormalizedWithCP56Time2a.type = "M_ME_TD_1"
        /\ MeasuredValueNormalizedWithCP56Time2a.checked
        /\ MeasuredValueNormalizedWithCP56Time2a.space = 10
        /\ MeasuredValueNormalizedWithCP56Time2a.spaceInSequence = 10
    BY DEF MeasuredValueNormalizedWithCP56Time2a, Monitored, Class
  <2>3. ClassOf("M_ME_TD_1") = MeasuredValueNormalizedWithCP56Time2a
    BY <2>1, <2>2, ClassOfType
  <2>4. ElementSize["M_ME_TD_1"] = 10 /\ IoSize["M_ME_TD_1"] = 13
    BY DEF ElementSize, MonitoredElementSize, MeasuredElementSize, ProtectionElementSize,
           LongTimeElementSize, ControlElementSize, FileElementSize, IoSize
  <2> QED
    BY <2>2, <2>3, <2>4 DEF Sized
<1>4. Sized("M_IT_TB_1", 12)
  <2>1. IntegratedTotalsWithCP56Time2a \in Classes
    BY DEF Classes
  <2>2. /\ IntegratedTotalsWithCP56Time2a.type = "M_IT_TB_1"
        /\ IntegratedTotalsWithCP56Time2a.checked
        /\ IntegratedTotalsWithCP56Time2a.space = 12
        /\ IntegratedTotalsWithCP56Time2a.spaceInSequence = 12
    BY DEF IntegratedTotalsWithCP56Time2a, Monitored, Class
  <2>3. ClassOf("M_IT_TB_1") = IntegratedTotalsWithCP56Time2a
    BY <2>1, <2>2, ClassOfType
  <2>4. ElementSize["M_IT_TB_1"] = 12 /\ IoSize["M_IT_TB_1"] = 15
    BY DEF ElementSize, MonitoredElementSize, MeasuredElementSize, ProtectionElementSize,
           LongTimeElementSize, ControlElementSize, FileElementSize, IoSize
  <2> QED
    BY <2>2, <2>3, <2>4 DEF Sized
<1>5. Sized("M_SP_NA_1", 1)
  <2>1. SinglePointInformation \in Classes
    BY DEF Classes
  <2>2. /\ SinglePointInformation.type = "M_SP_NA_1" /\ SinglePointInformation.checked
        /\ SinglePointInformation.space = 1 /\ SinglePointInformation.spaceInSequence = 1
    BY DEF SinglePointInformation, Monitored, Class
  <2>3. ClassOf("M_SP_NA_1") = SinglePointInformation
    BY <2>1, <2>2, ClassOfType
  <2>4. ElementSize["M_SP_NA_1"] = 1 /\ IoSize["M_SP_NA_1"] = 4
    BY DEF ElementSize, MonitoredElementSize, MeasuredElementSize, ProtectionElementSize,
           LongTimeElementSize, ControlElementSize, FileElementSize, IoSize
  <2> QED
    BY <2>2, <2>3, <2>4 DEF Sized
<1>6. Sized("M_DP_NA_1", 1)
  <2>1. DoublePointInformation \in Classes
    BY DEF Classes
  <2>2. /\ DoublePointInformation.type = "M_DP_NA_1" /\ DoublePointInformation.checked
        /\ DoublePointInformation.space = 1 /\ DoublePointInformation.spaceInSequence = 1
    BY DEF DoublePointInformation, Monitored, Class
  <2>3. ClassOf("M_DP_NA_1") = DoublePointInformation
    BY <2>1, <2>2, ClassOfType
  <2>4. ElementSize["M_DP_NA_1"] = 1 /\ IoSize["M_DP_NA_1"] = 4
    BY DEF ElementSize, MonitoredElementSize, MeasuredElementSize, ProtectionElementSize,
           LongTimeElementSize, ControlElementSize, FileElementSize, IoSize
  <2> QED
    BY <2>2, <2>3, <2>4 DEF Sized
<1>7. Sized("M_ME_NA_1", 3)
  <2>1. MeasuredValueNormalized \in Classes
    BY DEF Classes
  <2>2. /\ MeasuredValueNormalized.type = "M_ME_NA_1" /\ MeasuredValueNormalized.checked
        /\ MeasuredValueNormalized.space = 3 /\ MeasuredValueNormalized.spaceInSequence = 3
    BY DEF MeasuredValueNormalized, Monitored, Class
  <2>3. ClassOf("M_ME_NA_1") = MeasuredValueNormalized
    BY <2>1, <2>2, ClassOfType
  <2>4. ElementSize["M_ME_NA_1"] = 3 /\ IoSize["M_ME_NA_1"] = 6
    BY DEF ElementSize, MonitoredElementSize, MeasuredElementSize, ProtectionElementSize,
           LongTimeElementSize, ControlElementSize, FileElementSize, IoSize
  <2> QED
    BY <2>2, <2>3, <2>4 DEF Sized
<1>8. Sized("M_ME_NB_1", 3)
  <2>1. MeasuredValueScaled \in Classes
    BY DEF Classes
  <2>2. /\ MeasuredValueScaled.type = "M_ME_NB_1" /\ MeasuredValueScaled.checked
        /\ MeasuredValueScaled.space = 3 /\ MeasuredValueScaled.spaceInSequence = 3
    BY DEF MeasuredValueScaled, Monitored, Class
  <2>3. ClassOf("M_ME_NB_1") = MeasuredValueScaled
    BY <2>1, <2>2, ClassOfType
  <2>4. ElementSize["M_ME_NB_1"] = 3 /\ IoSize["M_ME_NB_1"] = 6
    BY DEF ElementSize, MonitoredElementSize, MeasuredElementSize, ProtectionElementSize,
           LongTimeElementSize, ControlElementSize, FileElementSize, IoSize
  <2> QED
    BY <2>2, <2>3, <2>4 DEF Sized
<1>9. Sized("M_ME_NC_1", 5)
  <2>1. MeasuredValueShort \in Classes
    BY DEF Classes
  <2>2. /\ MeasuredValueShort.type = "M_ME_NC_1" /\ MeasuredValueShort.checked
        /\ MeasuredValueShort.space = 5 /\ MeasuredValueShort.spaceInSequence = 5
    BY DEF MeasuredValueShort, Monitored, Class
  <2>3. ClassOf("M_ME_NC_1") = MeasuredValueShort
    BY <2>1, <2>2, ClassOfType
  <2>4. ElementSize["M_ME_NC_1"] = 5 /\ IoSize["M_ME_NC_1"] = 8
    BY DEF ElementSize, MonitoredElementSize, MeasuredElementSize, ProtectionElementSize,
           LongTimeElementSize, ControlElementSize, FileElementSize, IoSize
  <2> QED
    BY <2>2, <2>3, <2>4 DEF Sized
<1>10. Sized("M_ME_ND_1", 2)
  <2>1. MeasuredValueNormalizedWithoutQuality \in Classes
    BY DEF Classes
  <2>2. /\ MeasuredValueNormalizedWithoutQuality.type = "M_ME_ND_1"
        /\ MeasuredValueNormalizedWithoutQuality.checked
        /\ MeasuredValueNormalizedWithoutQuality.space = 2
        /\ MeasuredValueNormalizedWithoutQuality.spaceInSequence = 2
    BY DEF MeasuredValueNormalizedWithoutQuality, Monitored, Class
  <2>3. ClassOf("M_ME_ND_1") = MeasuredValueNormalizedWithoutQuality
    BY <2>1, <2>2, ClassOfType
  <2>4. ElementSize["M_ME_ND_1"] = 2 /\ IoSize["M_ME_ND_1"] = 5
    BY DEF ElementSize, MonitoredElementSize, MeasuredElementSize, ProtectionElementSize,
           LongTimeElementSize, ControlElementSize, FileElementSize, IoSize
  <2> QED
    BY <2>2, <2>3, <2>4 DEF Sized
<1>11. \A t \in DataTypes :
         t \in {"M_SP_TB_1", "M_DP_TB_1", "M_ME_TD_1", "M_IT_TB_1", "M_SP_NA_1", "M_DP_NA_1",
                "M_ME_NA_1", "M_ME_NB_1", "M_ME_NC_1", "M_ME_ND_1"}
  BY DEF DataTypes, TypeOrder
<1> QED
  BY <1>1, <1>2, <1>3, <1>4, <1>5, <1>6, <1>7, <1>8, <1>9, <1>10, <1>11

\* How often d goes into x.
LEMMA GoesInto ==
  ASSUME NEW x \in Nat, NEW d \in Nat, d # 0, NEW k \in Nat
  PROVE  k * d <= x <=> k <= x \div d
<1>1. PICK q \in Nat, r \in Nat : q = x \div d /\ r < d /\ x = q * d + r
  <2>1. x \div d \in Nat /\ x % d \in Nat /\ x % d < d /\ x = (x \div d) * d + (x % d)
    OBVIOUS
  <2> QED
    BY <2>1
<1>2. ASSUME k <= q PROVE k * d <= x
  <2>1. PICK j \in Nat : q = k + j
    BY <1>2
  <2>2. q * d = k * d + j * d /\ j * d \in Nat /\ k * d \in Nat
    BY <2>1
  <2> QED
    BY <1>1, <2>2
<1>3. ASSUME k > q PROVE k * d > x
  <2>1. PICK j \in Nat : k = q + 1 + j
    BY <1>3
  <2>2. k * d = q * d + d + j * d /\ j * d \in Nat /\ q * d \in Nat
    BY <2>1
  <2> QED
    BY <1>1, <2>2
<1> QED
  BY <1>1, <1>2, <1>3

\* There is room for the k-th object, of elements of e bytes.
Room(sequence, e, k) ==
  (IF sequence /\ k > 1 THEN e ELSE SizeOfIOA + e)
    <= MaxSizeOfASDU - (IF sequence /\ k - 1 > 0 THEN SizeOfIOA + (k - 1) * e
                        ELSE (k - 1) * (SizeOfIOA + e)) - HeaderLength

\* addInformationObject takes the first of the objects.
LEMMA TakenFirst ==
  ASSUME NEW t, NEW sequence \in BOOLEAN, NEW n \in Nat, NEW e \in Nat, Sized(t, e), NEW m \in Nat,
         m <= n,
         \A k \in Nat : k >= 1 /\ k <= n =>
           (k <= m <=> k <= 127 /\ Room(sequence, e, k))
  PROVE  Taken(t, sequence, n) = m
<1> DEFINE c == ClassOf(t)
           size(k) == IF sequence /\ k > 0 THEN SizeOfIOA + k * ElementSize[t]
                      ELSE k * (SizeOfIOA + ElementSize[t])
           T == {k \in 1..n : k <= 127 /\ HasSpace(c, size(k - 1), sequence /\ k > 1)}
<1>1. T = 1..m
  <2>1. ASSUME NEW k \in 1..n
        PROVE  (k <= 127 /\ HasSpace(c, size(k - 1), sequence /\ k > 1)) <=> k <= m
    BY DEF HasSpace, Sized, Room
  <2>2. ASSUME NEW k \in T PROVE k \in 1..m
    BY <2>1
  <2>3. ASSUME NEW k \in 1..m PROVE k \in T
    <3>1. k \in 1..n /\ k <= m
      OBVIOUS
    <3> QED
      BY <2>1, <3>1
  <2> HIDE DEF T
  <2> QED
    BY <2>2, <2>3
<1>2. Taken(t, sequence, n) = Cardinality(T)
  BY DEF Taken
<1> HIDE DEF T
<1>3. Cardinality(1..m) = m
  BY FS_Interval
<1> QED
  BY <1>1, <1>2, <1>3

LEMMA Parameters ==
  /\ SizeOfIOA \in Nat /\ SizeOfIOA >= 1 /\ SizeOfIOA <= 3
  /\ HeaderLength \in Nat /\ HeaderLength <= 6
  /\ MaxSizeOfASDU \in Nat /\ MaxSizeOfASDU >= 40 /\ MaxSizeOfASDU <= 254
BY ParametersAssumption DEF HeaderLength

\* Of the objects that the program puts into an ASDU, all that it can count are taken.
LEMMA ChunkTaken ==
  ASSUME NEW t \in DataTypes, NEW sequence \in BOOLEAN, NEW n \in Nat, NEW m \in Nat,
         m = IF n <= 127 THEN n ELSE 127,
         n <= IF sequence THEN calcMaxIOAs_SQ1(t) ELSE calcMaxIOAs_SQ0(t)
  PROVE  Taken(t, sequence, n) = m
<1>1. PICK e \in {1, 2, 3, 5, 8, 10, 12} : Sized(t, e)
  BY SizesAgree
<1>2. ASSUME NEW k \in Nat, k >= 1, k <= n, sequence = FALSE
      PROVE  SizeOfIOA + e <= MaxSizeOfASDU - (k - 1) * (SizeOfIOA + e) - HeaderLength
  <2>1. PICK x \in Nat : x = MaxSizeOfASDU - 6
    BY Parameters
  <2>2. k <= x \div (e + 3)
    BY <1>1, <1>2, <2>1 DEF calcMaxIOAs_SQ0, Sized
  <2>3. k * (e + 3) <= x
    BY <1>1, <2>2
  <2>4. k * (SizeOfIOA + e) <= k * (e + 3)
    BY <1>1, Parameters
  <2>5. (k - 1) * (SizeOfIOA + e) + (SizeOfIOA + e) = k * (SizeOfIOA + e)
    BY <1>1, Parameters
  <2> QED
    BY <1>1, <2>1, <2>3, <2>4, <2>5, Parameters
<1>3. ASSUME NEW k \in Nat, k > 1, k <= n, sequence = TRUE
      PROVE  e <= MaxSizeOfASDU - (SizeOfIOA + (k - 1) * e) - HeaderLength
  <2>1. PICK x \in Nat : x = MaxSizeOfASDU - 9 - e
    BY <1>1, Parameters
  <2>2. k <= x \div e + 1
    BY <1>1, <1>3, <2>1, Parameters DEF calcMaxIOAs_SQ1, Sized
  <2>3. (k - 1) * e <= x
    BY <1>1, <1>3, <2>2
  <2> QED
    BY <1>1, <1>3, <2>1, <2>3, Parameters
<1>4. SizeOfIOA + e <= MaxSizeOfASDU - 0 - HeaderLength
  BY <1>1, Parameters
<1>5. ASSUME NEW k \in Nat, k >= 1, k <= n
      PROVE  Room(sequence, e, k)
  <2>1. CASE sequence = FALSE
    BY <1>2, <1>5, <2>1 DEF Room
  <2>2. CASE sequence = TRUE /\ k > 1
    <3>1. k - 1 > 0
      BY <2>2
    <3> QED
      BY <1>3, <1>5, <2>2, <3>1 DEF Room
  <2>3. CASE sequence = TRUE /\ k = 1
    <3>1. ~(k - 1 > 0) /\ (k - 1) * (SizeOfIOA + e) = 0 /\ ~(k > 1)
      BY <1>1, <2>3, Parameters
    <3> QED
      BY <1>4, <2>3, <3>1 DEF Room
  <2>4. k > 1 \/ k = 1
    BY <1>5
  <2> QED
    BY <2>1, <2>2, <2>3, <2>4, Zenon
<1>6. e \in Nat /\ m <= n
  BY <1>1
<1>7. \A k \in Nat : k >= 1 /\ k <= n => (k <= m <=> k <= 127 /\ Room(sequence, e, k))
  <2>1. \A k \in Nat : k >= 1 /\ k <= n => (k <= m <=> k <= 127)
    OBVIOUS
  <2> QED
    BY <1>5, <2>1
<1> QED
  BY <1>1, <1>6, <1>7, TakenFirst

(***************************************************************************)
(* Runs of consecutive addresses, and remainders                           *)
(***************************************************************************)
LEMMA LeastIs ==
  ASSUME NEW S, S \subseteq Nat, S # {}
  PROVE  Min(S) \in S /\ \A y \in S : Min(S) <= y
<1>1. \E x \in S : \A y \in S : x <= y
  <2>1. SUFFICES ASSUME \A x \in S : \E y \in S : ~(x <= y) PROVE FALSE
    OBVIOUS
  <2>2. \A x \in S : \E y \in S : y < x
    <3>1. ASSUME NEW x \in S PROVE \E y \in S : y < x
      <4>1. PICK y \in S : ~(x <= y)
        BY <2>1
      <4>2. x \in Nat /\ y \in Nat
        OBVIOUS
      <4> QED
        BY <4>1, <4>2
    <3> QED
      BY <3>1
  <2> QED
    BY <2>2, NoLeast
<1> QED
  BY <1>1, Zenon DEF Min

LEMMA RunLengthIs ==
  ASSUME NEW list \in Seq(Nat), NEW i \in Nat, i < Len(list)
  PROVE  /\ RunLength(list, i) \in Nat /\ RunLength(list, i) >= 1
         /\ i + RunLength(list, i) \in RunEnds(list)
         /\ i + RunLength(list, i) <= Len(list)
         /\ \A k \in RunEnds(list) : k > i => k >= i + RunLength(list, i)
<1> DEFINE S == {k \in RunEnds(list) : k > i}
<1>1. S \subseteq Nat /\ S \subseteq 1..Len(list)
  BY DEF RunEnds
<1>2. Len(list) \in S
  <2>1. Len(list) \in 1..Len(list)
    OBVIOUS
  <2> QED
    BY <2>1 DEF RunEnds
<1>3. Min(S) \in S /\ \A y \in S : Min(S) <= y
  <2> HIDE DEF S
  <2> QED
    BY <1>1, <1>2, LeastIs
<1>4. RunLength(list, i) = Min(S) - i
  BY DEF RunLength
<1>5. PICK m \in Nat : m = Min(S)
  BY <1>1, <1>3
<1>6. i + RunLength(list, i) = m /\ m > i /\ m \in RunEnds(list) /\ m <= Len(list)
  BY <1>1, <1>3, <1>4, <1>5
<1>7. \A k \in RunEnds(list) : k > i => k >= m
  BY <1>3, <1>5 DEF RunEnds
<1>8. RunLength(list, i) \in Nat /\ RunLength(list, i) >= 1
  BY <1>4, <1>5, <1>6
<1> QED
  BY <1>6, <1>7, <1>8, Zenon

LEMMA RunStartIs ==
  ASSUME NEW list \in Seq(Nat), NEW i \in Nat, i = 0 \/ i \in RunEnds(list), NEW p \in Nat, i < p,
         \A k \in RunEnds(list) : k > i => k >= p
  PROVE  RunStart(list, p) = i + 1
<1> DEFINE S == {0} \cup {k \in RunEnds(list) : k < p}
<1>1. i \in S /\ \A k \in S : k \in Nat /\ i >= k
  BY DEF RunEnds
<1>2. \A x \in S : (\A y \in S : x >= y) => x = i
  BY <1>1
<1>3. Max(S) = i
  <2> HIDE DEF S
  <2>1. \E x \in S : \A y \in S : x >= y
    BY <1>1
  <2>2. Max(S) \in S /\ \A y \in S : Max(S) >= y
    BY <2>1, Zenon DEF Max
  <2> QED
    BY <1>2, <2>2
<1> QED
  BY <1>3 DEF RunStart

LEMMA ModuloIs ==
  ASSUME NEW q \in Nat, NEW m \in Nat, m # 0, NEW r \in Nat, r < m
  PROVE  (q * m + r) % m = r
<1>1. PICK x \in Nat : x = q * m + r
  <2>1. q * m \in Nat
    OBVIOUS
  <2> QED
    BY <2>1
<1>2. PICK a \in Nat, b \in Nat : a = x \div m /\ b = x % m /\ b < m /\ x = a * m + b
  <2>1. x \div m \in Nat /\ x % m \in Nat /\ x % m < m /\ x = (x \div m) * m + (x % m)
    OBVIOUS
  <2> QED
    BY <2>1
<1>3. ~(a > q)
  <2>1. SUFFICES ASSUME a > q PROVE FALSE
    OBVIOUS
  <2>2. PICK j \in Nat : a = q + 1 + j
    <3>1. a - q - 1 \in Nat /\ a = q + 1 + (a - q - 1)
      BY <2>1
    <3> QED
      BY <3>1
  <2>3. a * m = q * m + m + j * m /\ j * m \in Nat /\ q * m \in Nat
    BY <2>2
  <2> QED
    BY <1>1, <1>2, <2>3
<1>4. ~(a < q)
  <2>1. SUFFICES ASSUME a < q PROVE FALSE
    OBVIOUS
  <2>2. PICK j \in Nat : q = a + 1 + j
    <3>1. q - a - 1 \in Nat /\ q = a + 1 + (q - a - 1)
      BY <2>1
    <3> QED
      BY <3>1
  <2>3. q * m = a * m + m + j * m /\ j * m \in Nat /\ a * m \in Nat
    BY <2>2
  <2> QED
    BY <1>1, <1>2, <2>3
<1>5. a = q
  BY <1>3, <1>4
<1>6. a * m = q * m /\ q * m \in Nat
  BY <1>5
<1> QED
  BY <1>1, <1>2, <1>6

LEMMA MaxIOAsType ==
  ASSUME NEW t \in DataTypes, NEW list, NEW i
  PROVE  MaxIOAs(t, list, i) \in Nat /\ MaxIOAs(t, list, i) >= 1
<1>1. PICK e \in {1, 2, 3, 5, 8, 10, 12} : Sized(t, e)
  BY SizesAgree
<1>2. calcMaxIOAs_SQ0(t) \in Nat /\ calcMaxIOAs_SQ0(t) >= 1
  <2>1. PICK x \in Nat, d \in Nat : x = MaxSizeOfASDU - 6 /\ d = e + 3 /\ d # 0 /\ d <= x
    BY <1>1, Parameters
  <2>2. x \div d \in Nat
    BY <2>1
  <2>3. 1 * d = d /\ 1 \in Nat
    BY <2>1
  <2>4. 1 <= x \div d
    BY <2>1, <2>3, GoesInto
  <2> QED
    BY <1>1, <2>1, <2>2, <2>4 DEF calcMaxIOAs_SQ0, Sized
<1>3. calcMaxIOAs_SQ1(t) \in Nat /\ calcMaxIOAs_SQ1(t) >= 1
  <2>1. PICK x \in Nat, d \in Nat : x = MaxSizeOfASDU - 6 - (e + 3) /\ d = e /\ d # 0
    BY <1>1, Parameters
  <2>2. x \div d \in Nat
    BY <2>1
  <2>3. (e + 3) - 3 = e /\ ~(MaxSizeOfASDU <= 6 + (e + 3))
    BY <1>1, Parameters
  <2>4. calcMaxIOAs_SQ1(t) = x \div d + 1
    BY <1>1, <2>1, <2>3 DEF calcMaxIOAs_SQ1, Sized
  <2> QED
    BY <2>2, <2>4
<1> QED
  BY <1>2, <1>3 DEF MaxIOAs

LEMMA TypeOrderIs ==
  /\ Len(TypeOrder) = 10
  /\ \A t \in DataTypes : \E k \in 1..10 : TypeOrder[k] = t
  /\ \A k \in 1..10 : TypeOrder[k] \in DataTypes
  /\ \A j, k \in 1..10 : TypeOrder[j] = TypeOrder[k] => j = k
<1>1. Len(TypeOrder) = 10
  BY DEF TypeOrder
<1>3. \A j, k \in 1..10 : TypeOrder[j] = TypeOrder[k] => j = k
  BY DEF TypeOrder
<1> QED
  BY <1>1, <1>3 DEF DataTypes

(***************************************************************************)
(* AsduPacking: OnlyCountLoses                                             *)
(***************************************************************************)
\* The points of a type that an ASDU can count.
Counted(t) == {p \in DOMAIN station[t] : ~Overflows(t, p)}

\* How many points of the j-th type are behind.
Behind(j) == IF j = current THEN first + offset
             ELSE IF j < current /\ request = "interrogation" THEN Len(station[TypeOrder[j]])
             ELSE 0

\* At the start of a chunk of a run, or at the end of the list.
AtChunk(t) ==
  /\ first \in Nat /\ first <= Len(station[t])
  /\ first = 0 \/ first \in RunEnds(station[t])
  /\ offset \in Nat
  /\ first = Len(station[t]) => offset = 0
  /\ first < Len(station[t]) =>
       /\ offset < RunLength(station[t], first)
       /\ \E q \in Nat : offset = q * MaxIOAs(t, station[t], first)

PackInv ==
  /\ station \in Stations
  /\ request \in {"none", "interrogation", "periodic"}
  /\ current \in 1..11
  /\ request # "none" =>
       /\ sent \in Seq(Asdus)
       /\ request = "periodic" => current <= 10
       /\ current <= 10 => AtChunk(TypeOrder[current])
       /\ \A j \in 1..10 : Answered(TypeOrder[j])
                             = Kept(station[TypeOrder[j]], Counted(TypeOrder[j]), Behind(j))

\* Which points of a chunk an ASDU can count.
LEMMA ChunkCounted ==
  ASSUME NEW t \in DataTypes, station[t] \in Seq(Nat), AtChunk(t), first < Len(station[t]),
         NEW n \in Nat, offset + n <= RunLength(station[t], first),
         n <= MaxIOAs(t, station[t], first),
         NEW p \in Nat, first + offset < p, p <= first + offset + n
  PROVE  p \in Counted(t) <=> p <= first + offset + 127
<1> DEFINE list == station[t]
<1>1. PICK M \in Nat : M = MaxIOAs(t, list, first) /\ M # 0
  BY MaxIOAsType
<1>2. PICK R \in Nat : R = RunLength(list, first) /\ first + R <= Len(list)
                       /\ \A k \in RunEnds(list) : k > first => k >= first + R
  BY RunLengthIs DEF AtChunk
<1>3. PICK q \in Nat : offset = q * M
  BY <1>1 DEF AtChunk
<1>4. p <= first + R /\ first < p /\ p \in DOMAIN list
  BY <1>2 DEF AtChunk
<1>5. RunStart(list, p) = first + 1
  <2>1. \A k \in RunEnds(list) : k > first => k >= p
    BY <1>2, <1>4 DEF AtChunk, RunEnds
  <2>2. list \in Seq(Nat) /\ first \in Nat /\ (first = 0 \/ first \in RunEnds(list))
    BY DEF AtChunk
  <2> HIDE DEF list
  <2> QED
    BY <1>4, <2>1, <2>2, RunStartIs
<1>6. PICK r \in Nat : p = first + offset + r + 1 /\ r < M
  <2>1. p - first - offset - 1 \in Nat
    BY DEF AtChunk
  <2> QED
    BY <1>1, <2>1 DEF AtChunk
<1>7. (p - (first + 1)) % M = r
  <2>1. p - (first + 1) = q * M + r
    BY <1>3, <1>6 DEF AtChunk
  <2>2. (q * M + r) % M = r
    BY <1>1, <1>6, ModuloIs
  <2> QED
    BY <2>1, <2>2
<1>8. (first + 1) - 1 = first
  BY DEF AtChunk
<1>9. Overflows(t, p) <=> r >= 127
  BY <1>1, <1>5, <1>7, <1>8 DEF Overflows
<1> QED
  BY <1>4, <1>6, <1>9 DEF Counted, AtChunk

\* One chunk: the points that are behind, and the place of the next chunk.
LEMMA ChunkSent ==
  ASSUME PackInv, SendChunk
  PROVE  /\ sent' \in Seq(Asdus)
         /\ AtChunk(TypeOrder[current])'
         /\ first' + offset' \in Nat
         /\ \A j \in 1..10 : Answered(TypeOrder[j])'
                               = Kept(station[TypeOrder[j]], Counted(TypeOrder[j]),
                                      IF j = current THEN first' + offset' ELSE Behind(j))
<1> DEFINE t == TypeOrder[current]
           list == station[t]
           run == RunLength(list, first)
           max == MaxIOAs(t, list, first)
           start == first + offset
           counted == Counted(t)
<1>1. t \in DataTypes /\ current \in 1..10
  BY TypeOrderIs DEF PackInv, SendChunk
<1>2. list \in Seq(Nat)
  BY <1>1, StationsAssumption DEF PackInv
<1>3. AtChunk(t) /\ first < Len(list) /\ sent \in Seq(Asdus)
  <2>1. request # "none" /\ first < Len(list)
    BY DEF SendChunk
  <2>2. current <= 10
    BY <1>1
  <2> HIDE DEF t, list
  <2>3. AtChunk(TypeOrder[current]) /\ sent \in Seq(Asdus)
    BY <2>1, <2>2, Zenon DEF PackInv
  <2> QED
    BY <2>1, <2>3 DEF t
<1>4. max \in Nat /\ max >= 1
  BY <1>1, MaxIOAsType
<1>5. /\ run \in Nat /\ run >= 1 /\ first + run \in RunEnds(list) /\ first + run <= Len(list)
      /\ \A k \in RunEnds(list) : k > first => k >= first + run
  BY <1>2, <1>3, RunLengthIs DEF AtChunk
<1>6. /\ first \in Nat /\ offset \in Nat /\ offset < run
  BY <1>3 DEF AtChunk
<1>7. PICK length \in Nat : length = IF offset + max < run THEN max ELSE run - offset
  BY <1>4, <1>5, <1>6
<1>8. length >= 1 /\ length <= max /\ offset + length <= run
  BY <1>4, <1>5, <1>6, <1>7
<1>9. PICK n \in Nat : n = IF length <= 127 THEN length ELSE 127
  BY <1>7
<1>20. UseSequence(list, first) \in BOOLEAN
  <2> HIDE DEF t, list
  <2> QED
    BY <1>5 DEF UseSequence
<1>10. Taken(t, UseSequence(list, first), length) = n
  <2>1. PICK b \in BOOLEAN : b = UseSequence(list, first)
    BY <1>20
  <2>2. length <= IF b THEN calcMaxIOAs_SQ1(t) ELSE calcMaxIOAs_SQ0(t)
    BY <1>8, <2>1 DEF MaxIOAs
  <2> HIDE DEF t, list
  <2> QED
    BY <1>1, <1>7, <1>9, <2>1, <2>2, ChunkTaken
<1> DEFINE asdu == [type |-> t, sequence |-> UseSequence(list, first),
                    ioas |-> SubSeq(list, start + 1, start + n)]
<1>11. sent' = Append(sent, asdu) /\ station' = station /\ current' = current
       /\ request' = request
  BY <1>7, <1>10 DEF SendChunk
<1>12. IF offset + max < run THEN offset' = offset + max /\ first' = first
                             ELSE offset' = 0 /\ first' = first + run
  BY DEF SendChunk
<1>13. first' + offset' = start + length /\ start + length \in Nat /\ start + length <= Len(list)
       /\ start \in Nat /\ start + n <= start + length /\ start <= start + n
  <2>1. PICK m \in Nat, r \in Nat : m = max /\ r = run
    BY <1>4, <1>5
  <2>2. length = (IF offset + m < r THEN m ELSE r - offset) /\ offset + length <= r
        /\ first + r <= Len(list)
    BY <1>5, <1>7, <1>8, <2>1
  <2>3. IF offset + m < r THEN offset' = offset + m /\ first' = first
                          ELSE offset' = 0 /\ first' = first + r
    BY <1>12, <2>1
  <2>4. first' + offset' = first + offset + length
    BY <1>6, <2>1, <2>2, <2>3
  <2>5. Len(list) \in Nat
    BY <1>2
  <2> HIDE DEF max, run, list
  <2> QED
    BY <1>6, <1>9, <2>1, <2>2, <2>4, <2>5
<1>14. asdu \in Asdus
  <2>1. SubSeq(list, start + 1, start + n) \in Seq(Nat)
    <3>1. PICK i \in Nat, j \in Nat : i = start + 1 /\ j = start + n /\ i >= 1 /\ j <= Len(list)
      BY <1>2, <1>9, <1>13
    <3> HIDE DEF start, list
    <3>2. SubSeq(list, i, j) \in Seq(Nat)
      BY <1>2, <3>1
    <3> QED
      BY <3>1, <3>2
  <2> HIDE DEF t, list
  <2> QED
    BY <1>1, <1>20, <2>1 DEF Asdus
<1>15. sent' \in Seq(Asdus)
  BY <1>3, <1>11, <1>14
<1>16. AtChunk(t)'
  <2>1. CASE offset + max < run
    <3>1. first' = first /\ offset' = offset + max /\ offset + max < run /\ offset + max \in Nat
      BY <1>4, <1>6, <1>12, <2>1
    <3>2. PICK q \in Nat : offset = q * max
      BY <1>3 DEF AtChunk
    <3>3. offset + max = (q + 1) * max /\ q + 1 \in Nat
      BY <1>4, <3>2
    <3> HIDE DEF max, run
    <3>4. \E i \in Nat : offset + max = i * max
      BY <3>3
    <3> QED
      BY <1>3, <1>11, <3>1, <3>4 DEF AtChunk, max, run
  <2>2. CASE ~(offset + max < run)
    <3>1. first' = first + run /\ offset' = 0
      BY <1>12, <2>2
    <3>2. first' \in Nat /\ first' <= Len(list) /\ first' \in RunEnds(list)
      BY <1>5, <1>6, <3>1
    <3>3. ASSUME first' < Len(list)
          PROVE  0 < RunLength(list, first') /\ \E q \in Nat : 0 = q * MaxIOAs(t, list, first')
      <4>1. RunLength(list, first') \in Nat /\ RunLength(list, first') >= 1
        BY <1>2, <3>2, <3>3, RunLengthIs
      <4>2. 0 = 0 * MaxIOAs(t, list, first')
        BY <1>1, MaxIOAsType
      <4> QED
        BY <4>1, <4>2
    <3> QED
      BY <1>11, <3>1, <3>2, <3>3 DEF AtChunk
  <2> QED
    BY <2>1, <2>2
<1>17. Answered(t)' = Kept(list, counted, first' + offset')
  <2>1. /\ Answered(t)' = FlattenSeq(Addresses(sent', t))
        /\ Answered(t) = FlattenSeq(Addresses(sent, t))
    <3>1. PICK u : u = t
      OBVIOUS
    <3>2. Answered(t)' = Answered(u)'
      BY <1>11, <3>1
    <3>3. /\ Answered(u)' = FlattenSeq(Addresses(sent', u))
          /\ Answered(u) = FlattenSeq(Addresses(sent, u))
      BY DEF Answered, Addresses
    <3> HIDE DEF t
    <3> QED
      BY <3>1, <3>2, <3>3
  <2>2. FlattenSeq(Addresses(sent', t)) = Answered(t) \o SubSeq(list, start + 1, start + n)
    <3>1. asdu.type = t /\ asdu.ioas = SubSeq(list, start + 1, start + n)
      OBVIOUS
    <3> HIDE DEF asdu, t
    <3> QED
      BY <1>3, <1>11, <1>14, <2>1, <3>1, AnsweredMore
  <2>3. Answered(t) = Kept(list, counted, start)
    BY <1>1 DEF PackInv, SendChunk, Behind
  <2>4. \A p \in Nat : start < p /\ p <= start + length => (p \in counted <=> p <= start + n)
    <3>1. ASSUME NEW p \in Nat, start < p, p <= start + length
          PROVE  p \in counted <=> p <= start + 127
      <4> HIDE DEF t
      <4> QED
        BY <1>1, <1>2, <1>3, <1>8, <3>1, ChunkCounted
    <3>2. ASSUME NEW p \in Nat, p <= start + length
          PROVE  p <= start + 127 <=> p <= start + n
      BY <1>9, <1>13, <3>2
    <3> HIDE DEF counted, start
    <3> QED
      BY <3>1, <3>2
  <2>5. Kept(list, counted, start + length)
          = Kept(list, counted, start) \o SubSeq(list, start + 1, start + n)
    <3>1. PICK a \in Nat, m \in Nat, r \in Nat : a = start /\ m = start + n /\ r = start + length
      BY <1>13
    <3>2. a <= m /\ m <= r /\ r <= Len(list) /\ a < r
      BY <1>8, <1>13, <3>1
    <3>3. \A p \in Nat : a < p /\ p <= r => (p \in counted <=> p <= m)
      BY <2>4, <3>1
    <3> HIDE DEF counted, start, list
    <3>4. Kept(list, counted, r) = Kept(list, counted, a) \o SubSeq(list, a + 1, m)
      <4>1. Begins(list, counted, a, m, r)
        BY <1>2, <3>2, <3>3 DEF Begins
      <4> QED
        BY <4>1, KeptChunk
    <3> QED
      BY <3>1, <3>4
  <2> HIDE DEF start, counted
  <2> QED
    BY <1>13, <2>1, <2>2, <2>3, <2>5
<1>18. ASSUME NEW j \in 1..10, j # current
       PROVE  Answered(TypeOrder[j])' = Answered(TypeOrder[j])
  <2>1. PICK u \in DataTypes : u = TypeOrder[j]
    BY TypeOrderIs
  <2>2. asdu.type # u
    BY <1>1, <1>18, <2>1, TypeOrderIs
  <2>3. /\ Answered(u)' = FlattenSeq(Addresses(sent', u))
        /\ Answered(u) = FlattenSeq(Addresses(sent, u))
    BY DEF Answered, Addresses
  <2>4. FlattenSeq(Addresses(sent', u)) = FlattenSeq(Addresses(sent, u)) \o <<>>
    <3> HIDE DEF asdu
    <3> QED
      BY <1>3, <1>11, <1>14, <2>2, AnsweredMore
  <2>5. FlattenSeq(Addresses(sent, u)) \in Seq(Nat)
    <3>1. FlattenSeq(Addresses(Append(sent, asdu), u)) = FlattenSeq(Addresses(sent, u)) \o <<>>
      BY <1>11, <2>4
    <3> QED
      BY <1>3, AnsweredType
  <2>6. FlattenSeq(Addresses(sent, u)) \o <<>> = FlattenSeq(Addresses(sent, u))
    BY <2>5
  <2> QED
    BY <2>1, <2>3, <2>4, <2>6
<1> HIDE DEF t, list
<1>19. ASSUME NEW j \in 1..10
       PROVE  Answered(TypeOrder[j])'
                = Kept(station[TypeOrder[j]], Counted(TypeOrder[j]),
                       IF j = current THEN first' + offset' ELSE Behind(j))
  <2>1. CASE j = current
    <3>1. Answered(t)' = Answered(TypeOrder[j])'
      BY <1>11, <2>1 DEF t
    <3> QED
      BY <1>17, <2>1, <3>1 DEF t, list
  <2>2. CASE j # current
    BY <1>18, <2>2 DEF PackInv, SendChunk
  <2> QED
    BY <2>1, <2>2
<1> QED
  BY <1>13, <1>15, <1>16, <1>19 DEF t

\* At the start of a list, and of a request, nothing is behind.
ListStart == current \in 1..10 /\ station \in Stations /\ first = 0 /\ offset = 0
RequestStart == ListStart /\ sent = <<>> /\ \A j \in 1..10 : Behind(j) = 0
Progress ==
  /\ sent \in Seq(Asdus)
  /\ \A j \in 1..10 : Answered(TypeOrder[j])
                        = Kept(station[TypeOrder[j]], Counted(TypeOrder[j]), Behind(j))

LEMMA AtStart ==
  ListStart => AtChunk(TypeOrder[current])
<1> SUFFICES ASSUME ListStart PROVE AtChunk(TypeOrder[current])
  OBVIOUS
<1> USE DEF ListStart
<1>1. PICK t \in DataTypes : t = TypeOrder[current]
  BY TypeOrderIs
<1>2. station[t] \in Seq(Nat)
  BY StationsAssumption
<1>3. ASSUME 0 < Len(station[t])
      PROVE  0 < RunLength(station[t], 0) /\ \E q \in Nat : 0 = q * MaxIOAs(t, station[t], 0)
  <2>1. RunLength(station[t], 0) \in Nat /\ RunLength(station[t], 0) >= 1
    BY <1>2, <1>3, RunLengthIs
  <2>2. 0 = 0 * MaxIOAs(t, station[t], 0)
    BY MaxIOAsType
  <2> QED
    BY <2>1, <2>2
<1> QED
  BY <1>1, <1>2, <1>3 DEF AtChunk

LEMMA NothingBehind ==
  RequestStart => Progress
<1> SUFFICES ASSUME RequestStart PROVE Progress
  OBVIOUS
<1> USE DEF ListStart, RequestStart
<1>1. ASSUME NEW j \in 1..10
      PROVE  Answered(TypeOrder[j])
               = Kept(station[TypeOrder[j]], Counted(TypeOrder[j]), Behind(j))
  <2>1. Answered(TypeOrder[j]) = FlattenSeq(Addresses(<<>>, TypeOrder[j]))
    BY DEF Answered, Addresses
  <2> QED
    BY <2>1, AnsweredNone, KeptNone
<1> QED
  BY <1>1 DEF Progress

LEMMA PackStart ==
  PackInit => PackInv
BY DEF PackInit, PackInv

LEMMA PackStep ==
  PackInv /\ [PackNext]_packVars => PackInv'
<1> SUFFICES ASSUME PackInv, [PackNext]_packVars
             PROVE  PackInv'
  OBVIOUS
<1>1. ASSUME NEW qoi \in {20, 21}, Interrogate(qoi)
      PROVE  PackInv'
  <2>1. station' \in Stations /\ sent' = <<>> /\ current' = 1 /\ first' = 0 /\ offset' = 0
    BY <1>1 DEF PackInv, Interrogate
  <2>2. \A j \in 1..10 : Behind(j)' = 0
    BY <2>1 DEF Behind
  <2>3. request' \in {"none", "interrogation"}
    BY <1>1 DEF PackInv, Interrogate
  <2>4. (ListStart => AtChunk(TypeOrder[current]))' /\ (RequestStart => Progress)'
    BY AtStart, NothingBehind, PTL
  <2>5. ListStart' /\ RequestStart'
    BY <2>1, <2>2 DEF ListStart, RequestStart
  <2>6. AtChunk(TypeOrder[current])' /\ Progress'
    BY <2>4, <2>5
  <2> QED
    BY <2>1, <2>3, <2>6 DEF PackInv, Progress
<1>2. ASSUME NEW t \in PeriodicTypes, StartPeriodic(t)
      PROVE  PackInv'
  <2>1. station' \in Stations /\ sent' = <<>> /\ first' = 0 /\ offset' = 0
        /\ request' = "periodic"
    BY <1>2 DEF PackInv, StartPeriodic
  <2>2. current' \in 1..10
    <3>1. t \in DataTypes
      <4>1. TypeOrder[1] = "M_SP_TB_1" /\ TypeOrder[9] = "M_ME_NC_1"
        BY DEF TypeOrder
      <4> QED
        BY <4>1, TypeOrderIs DEF PeriodicTypes
    <3>2. \E k \in 1..10 : TypeOrder[k] = t
      BY <3>1, TypeOrderIs
    <3>3. current' = CHOOSE k \in 1..10 : TypeOrder[k] = t
      BY <1>2, TypeOrderIs DEF StartPeriodic
    <3> QED
      BY <3>2, <3>3
  <2>3. \A j \in 1..10 : Behind(j)' = 0
    BY <2>1 DEF Behind
  <2>4. (ListStart => AtChunk(TypeOrder[current]))' /\ (RequestStart => Progress)'
    BY AtStart, NothingBehind, PTL
  <2>5. ListStart' /\ RequestStart'
    BY <2>1, <2>2, <2>3 DEF ListStart, RequestStart
  <2>6. AtChunk(TypeOrder[current])' /\ Progress'
    BY <2>4, <2>5
  <2> QED
    BY <2>1, <2>2, <2>6 DEF PackInv, Progress
<1>3. ASSUME SendChunk
      PROVE  PackInv'
  <2>1. /\ sent' \in Seq(Asdus)
        /\ AtChunk(TypeOrder[current])'
        /\ \A j \in 1..10 : Answered(TypeOrder[j])'
             = Kept(station[TypeOrder[j]], Counted(TypeOrder[j]),
                    IF j = current THEN first' + offset' ELSE Behind(j))
    BY <1>3, ChunkSent
  <2>2. station' = station /\ request' = request /\ current' = current
    BY <1>3 DEF SendChunk
  <2>3. ASSUME NEW j \in 1..10
        PROVE  /\ Behind(j)' = IF j = current THEN first' + offset' ELSE Behind(j)
               /\ Counted(TypeOrder[j])' = Counted(TypeOrder[j])
               /\ station[TypeOrder[j]]' = station[TypeOrder[j]]
    BY <2>2 DEF Behind, Counted, Overflows
  <2>4. ASSUME NEW j \in 1..10
        PROVE  Answered(TypeOrder[j])'
                 = Kept(station[TypeOrder[j]], Counted(TypeOrder[j]), Behind(j))'
    <3>1. Kept(station[TypeOrder[j]], Counted(TypeOrder[j]), Behind(j))'
            = Kept(station[TypeOrder[j]]', Counted(TypeOrder[j])', Behind(j)')
      BY DEF Kept, PointsOf
    <3> QED
      BY <2>1, <2>3, <3>1
  <2> QED
    BY <2>1, <2>2, <2>4 DEF PackInv
<1>4. ASSUME NextType
      PROVE  PackInv'
  <2>1. /\ request = "interrogation" /\ current <= 10
        /\ first = Len(station[TypeOrder[current]])
        /\ current' = current + 1 /\ first' = 0
        /\ UNCHANGED <<station, request, offset, confirmed, sent>>
    BY <1>4, TypeOrderIs DEF NextType
  <2>2. AtChunk(TypeOrder[current]) /\ sent \in Seq(Asdus) /\ current \in 1..10
    BY <2>1 DEF PackInv
  <2>3. offset = 0
    BY <2>1, <2>2 DEF AtChunk
  <2>4. ASSUME NEW j \in 1..10
        PROVE  Behind(j)' = Behind(j)
    <3>1. TypeOrder[j] \in DataTypes /\ station[TypeOrder[j]] \in Seq(Nat)
      BY StationsAssumption, TypeOrderIs DEF PackInv
    <3>2. CASE j = current
      BY <2>1, <2>2, <2>3, <3>1, <3>2 DEF Behind
    <3>3. CASE j = current + 1
      BY <2>1, <2>2, <2>3, <3>3 DEF Behind
    <3>4. CASE j # current /\ j # current + 1
      BY <2>1, <2>2, <3>4 DEF Behind
    <3> QED
      BY <3>2, <3>3, <3>4
  <2>5. ASSUME NEW j \in 1..10
        PROVE  Answered(TypeOrder[j])'
                 = Kept(station[TypeOrder[j]], Counted(TypeOrder[j]), Behind(j))'
    <3>1. Kept(station[TypeOrder[j]], Counted(TypeOrder[j]), Behind(j))'
            = Kept(station[TypeOrder[j]], Counted(TypeOrder[j]), Behind(j)')
      BY <2>1 DEF Kept, PointsOf, Counted, Overflows
    <3>2. Answered(TypeOrder[j])' = Answered(TypeOrder[j])
      BY <2>1 DEF Answered
    <3> QED
      BY <2>1, <2>4, <3>1, <3>2 DEF PackInv
  <2>6. current' <= 10 => AtChunk(TypeOrder[current])'
    <3>1. SUFFICES ASSUME current + 1 <= 10 PROVE AtChunk(TypeOrder[current])'
      BY <2>1
    <3>2. ListStart'
      BY <2>1, <2>2, <2>3, <3>1 DEF PackInv, ListStart
    <3>3. (ListStart => AtChunk(TypeOrder[current]))'
      BY AtStart, PTL
    <3> QED
      BY <3>2, <3>3
  <2> QED
    BY <2>1, <2>2, <2>5, <2>6 DEF PackInv
<1>5. ASSUME Terminate
      PROVE  PackInv'
  BY <1>5 DEF Terminate, PackInv
<1>6. ASSUME UNCHANGED packVars
      PROVE  PackInv'
  <2>1. /\ station' = station /\ request' = request /\ current' = current /\ first' = first
        /\ offset' = offset /\ sent' = sent
    BY <1>6 DEF packVars
  <2>2. \A t : AtChunk(t) => AtChunk(t)'
    BY <2>1 DEF AtChunk
  <2>3. \A t : Answered(t)' = Answered(t) /\ Counted(t)' = Counted(t)
    BY <2>1 DEF Answered, PointsOf, Counted, Overflows
  <2>4. \A j : Behind(j)' = Behind(j)
    BY <2>1 DEF Behind
  <2> QED
    BY <2>1, <2>2, <2>3, <2>4 DEF PackInv, Kept
<1> QED
  BY <1>1, <1>2, <1>3, <1>4, <1>5, <1>6 DEF PackNext

\* When an interrogation or a periodic transmission ends, every configured point was sent,
\* but for those that an ASDU does not count.
THEOREM OnlyTheCountLoses == PackSpec => []OnlyCountLoses
<1>1. PackInv => OnlyCountLoses
  <2> SUFFICES ASSUME PackInv, Finished, NEW t \in TypesAsked
               PROVE  ExactlyAnswered(t, Counted(t))
    BY DEF OnlyCountLoses, Counted
  <2>1. request # "none"
    BY DEF Finished
  <2>2. PICK j \in 1..10 : TypeOrder[j] = t
    BY <2>1, TypeOrderIs DEF TypesAsked, PackInv
  <2>3. t \in DataTypes /\ station[t] \in Seq(Nat)
    BY <2>2, StationsAssumption, TypeOrderIs DEF PackInv
  <2>4. Behind(j) = Len(station[t])
    <3>1. CASE request = "interrogation"
      <4>1. Len(TypeOrder) = 10
        BY TypeOrderIs
      <4>2. current > 10
        BY <3>1, <4>1 DEF Finished
      <4>3. j # current /\ j < current
        BY <4>2 DEF PackInv
      <4> QED
        BY <2>2, <3>1, <4>3 DEF Behind
    <3>2. CASE request = "periodic"
      <4>1. j = current /\ first = Len(station[t])
        BY <2>2, <3>2, TypeOrderIs DEF TypesAsked, Finished, PackInv
      <4>2. offset = 0
        BY <2>2, <3>2, <4>1 DEF PackInv, AtChunk
      <4> QED
        BY <2>3, <4>1, <4>2 DEF Behind
    <3> QED
      BY <2>1, <3>1, <3>2 DEF PackInv
  <2>5. Answered(t) = Kept(station[t], Counted(t), Len(station[t]))
    BY <2>1, <2>2, <2>4 DEF PackInv
  <2>6. Counted(t) \subseteq DOMAIN station[t]
    BY DEF Counted
  <2> QED
    BY <2>3, <2>5, <2>6, KeptRanked DEF ExactlyAnswered
<1> QED
  BY <1>1, PackStart, PackStep, PTL DEF PackSpec

(***************************************************************************)
(* MonolithPacking: AnsweredAsFits                                         *)
(***************************************************************************)
LEMMA AnswerOrderIs ==
  /\ Len(AnswerOrder) = 9
  /\ \A t \in DataTypes \ {"M_IT_TB_1"} : \E k \in 1..9 : AnswerOrder[k] = t
  /\ \A k \in 1..9 : AnswerOrder[k] \in DataTypes /\ ObjectSize[AnswerOrder[k]] \in {4, 6, 8, 10}
  /\ \A j, k \in 1..9 : AnswerOrder[j] = AnswerOrder[k] => j = k
<1>1. Len(AnswerOrder) = 9
  BY DEF AnswerOrder
<1>2. ASSUME NEW k \in 1..9
      PROVE  AnswerOrder[k] \in DataTypes /\ ObjectSize[AnswerOrder[k]] \in {4, 6, 8, 10}
  BY DEF AnswerOrder, ObjectSize, DataTypes, TypeOrder
<1>3. \A j, k \in 1..9 : AnswerOrder[j] = AnswerOrder[k] => j = k
  BY DEF AnswerOrder
<1>4. \A t \in DataTypes \ {"M_IT_TB_1"} : \E k \in 1..9 : AnswerOrder[k] = t
  BY DEF AnswerOrder, DataTypes, TypeOrder
<1> QED
  BY <1>1, <1>2, <1>3, <1>4

Fits(t) == Taken(t, FALSE, 127)

LEMMA FitsIs ==
  ASSUME NEW t \in DataTypes
  PROVE  /\ Fits(t) \in Nat
         /\ \A n \in Nat : Taken(t, FALSE, n) = IF n <= Fits(t) THEN n ELSE Fits(t)
         /\ Fits(t) = IF (MaxSizeOfASDU - HeaderLength) \div (SizeOfIOA + ElementSize[t]) <= 127
                        THEN (MaxSizeOfASDU - HeaderLength) \div (SizeOfIOA + ElementSize[t])
                        ELSE 127
<1>1. PICK e \in {1, 2, 3, 5, 8, 10, 12} : Sized(t, e)
  BY SizesAgree
<1>2. PICK x \in Nat, d \in Nat : x = MaxSizeOfASDU - HeaderLength /\ d = SizeOfIOA + e /\ d # 0
  BY <1>1, Parameters
<1>3. PICK G \in Nat : G = x \div d
  <2>1. x \div d \in Nat
    BY <1>2
  <2> QED
    BY <2>1
<1>4. PICK F \in Nat : F = IF G <= 127 THEN G ELSE 127
  BY <1>3
<1>5. ASSUME NEW k \in Nat, k >= 1
      PROVE  k <= F <=> k <= 127 /\ Room(FALSE, e, k)
  <2>1. Room(FALSE, e, k) <=> k * d <= x
    <3>1. PICK y \in Nat : y = (k - 1) * d
      <4>1. k - 1 \in Nat
        BY <1>5
      <4> QED
        BY <4>1
    <3>2. k * d = y + d
      BY <3>1
    <3>3. Room(FALSE, e, k) <=> d <= MaxSizeOfASDU - y - HeaderLength
      BY <1>2, <3>1 DEF Room
    <3>4. d <= MaxSizeOfASDU - y - HeaderLength <=> k * d <= x
      BY <1>2, <3>2, Parameters
    <3> QED
      BY <3>3, <3>4, Zenon
  <2>2. k * d <= x <=> k <= G
    BY <1>2, <1>3, GoesInto
  <2>3. k <= F <=> k <= 127 /\ k <= G
    BY <1>4
  <2> QED
    BY <2>1, <2>2, <2>3, Zenon
<1>6. ASSUME NEW n \in Nat
      PROVE  Taken(t, FALSE, n) = IF n <= F THEN n ELSE F
  <2>1. PICK m \in Nat : m = (IF n <= F THEN n ELSE F) /\ m <= n
    BY <1>4
  <2>2. ASSUME NEW k \in Nat, k >= 1, k <= n
        PROVE  k <= m <=> k <= 127 /\ Room(FALSE, e, k)
    <3>1. k <= m <=> k <= F
      BY <2>1, <2>2
    <3> QED
      BY <1>5, <2>2, <3>1
  <2>3. e \in Nat /\ FALSE \in BOOLEAN
    BY <1>1
  <2>4. Taken(t, FALSE, n) = m
    BY <1>1, <2>1, <2>2, <2>3, TakenFirst
  <2> QED
    BY <2>1, <2>4
<1>7. Fits(t) = F
  <2>1. (IF 127 <= F THEN 127 ELSE F) = F
    BY <1>4
  <2>2. 127 \in Nat
    OBVIOUS
  <2>3. Taken(t, FALSE, 127) = IF 127 <= F THEN 127 ELSE F
    BY <1>6, <2>2, Zenon
  <2> QED
    BY <2>1, <2>3, Zenon DEF Fits
<1>8. (MaxSizeOfASDU - HeaderLength) \div (SizeOfIOA + ElementSize[t]) = G
  BY <1>1, <1>2, <1>3 DEF Sized
<1>9. \A n \in Nat : Taken(t, FALSE, n) = IF n <= Fits(t) THEN n ELSE Fits(t)
  BY <1>6, <1>7, Zenon
<1>10. Fits(t) \in Nat /\ Fits(t) = IF G <= 127 THEN G ELSE 127
  BY <1>4, <1>7
<1> QED
  BY <1>8, <1>9, <1>10, Zenon

LEMMA ChunkSize ==
  ASSUME NEW t \in DataTypes, ObjectSize[t] \in {4, 6, 8, 10}
  PROVE  /\ calcMaxIOAs(t) \in Nat /\ calcMaxIOAs(t) >= 1
         /\ ObjectSize[t] >= SizeOfIOA + ElementSize[t] => calcMaxIOAs(t) <= Fits(t)
<1>1. PICK e \in {1, 2, 3, 5, 8, 10, 12} : Sized(t, e)
  BY SizesAgree
<1>2. PICK s \in {4, 6, 8, 10} : s = ObjectSize[t]
  OBVIOUS
<1>3. PICK x \in Nat : x = MaxSizeOfASDU - 6 /\ x >= 34 /\ x <= 248
  BY Parameters
<1>4. PICK M \in Nat : M = x \div s
  <2>1. x \div s \in Nat
    BY <1>2
  <2> QED
    BY <2>1
<1>5. calcMaxIOAs(t) = M
  BY <1>2, <1>3, <1>4 DEF calcMaxIOAs
<1>6. M * s <= x /\ M >= 1
  <2>1. s \in Nat /\ s # 0 /\ 1 * s <= x
    BY <1>2, <1>3
  <2>2. 1 <= x \div s
    BY <2>1, GoesInto
  <2>3. M * s <= x
    BY <1>4, <2>1, GoesInto
  <2> QED
    BY <1>4, <2>2, <2>3
<1>7. M <= 127
  BY <1>2, <1>3, <1>6
<1>8. ASSUME s >= SizeOfIOA + e
      PROVE  M <= Fits(t)
  <2>1. PICK y \in Nat, d \in Nat : y = MaxSizeOfASDU - HeaderLength /\ d = SizeOfIOA + e /\ d # 0
    BY <1>1, Parameters
  <2>2. x <= y /\ d <= s
    BY <1>1, <1>3, <1>8, <2>1, Parameters
  <2>3. M * d <= y
    <3>1. PICK j \in Nat : s = d + j
      <4>1. s - d \in Nat
        BY <1>2, <2>2
      <4> QED
        BY <1>2, <4>1
    <3>2. M * s = M * d + M * j /\ M * j \in Nat /\ M * d \in Nat
      BY <3>1
    <3> QED
      BY <1>6, <2>2, <3>2
  <2>4. M <= y \div d
    BY <2>1, <2>3, GoesInto
  <2>5. Fits(t) = IF y \div d <= 127 THEN y \div d ELSE 127
    BY <1>1, <2>1, FitsIs DEF Sized
  <2> QED
    BY <1>7, <2>4, <2>5
<1> QED
  BY <1>1, <1>2, <1>5, <1>6, <1>8 DEF Sized

Fitting(t) == {p \in DOMAIN station[t] : (p - 1) % calcMaxIOAs(t) < Fits(t)}

Answering(j) == IF j = current
                  THEN IF offset <= Len(station[AnswerOrder[j]]) THEN offset
                                                                 ELSE Len(station[AnswerOrder[j]])
                ELSE IF j < current THEN Len(station[AnswerOrder[j]]) ELSE 0

MonoInv ==
  /\ station \in Stations
  /\ request \in {"none", "monolith"}
  /\ request = "monolith" =>
       /\ current \in 1..10 /\ sent \in Seq(Asdus) /\ offset \in Nat
       /\ current <= 9 => \E q \in Nat : offset = q * calcMaxIOAs(AnswerOrder[current])
       /\ \A j \in 1..9 : Answered(AnswerOrder[j])
                            = Kept(station[AnswerOrder[j]], Fitting(AnswerOrder[j]), Answering(j))

LEMMA RemainderIs ==
  ASSUME NEW x \in Nat, NEW m \in Nat, m # 0
  PROVE  x % m \in Nat /\ x % m < m
OBVIOUS

\* One chunk of a type's list.
LEMMA AnswerSent ==
  ASSUME MonoInv, AnswerChunk
  PROVE  /\ sent' \in Seq(Asdus)
         /\ offset' \in Nat
         /\ \E q \in Nat : offset' = q * calcMaxIOAs(AnswerOrder[current])
         /\ \A j \in 1..9 : Answered(AnswerOrder[j])'
                              = Kept(station[AnswerOrder[j]], Fitting(AnswerOrder[j]),
                                     Answering(j)')
<1>1. PICK t \in DataTypes : t = AnswerOrder[current]
  BY AnswerOrderIs DEF MonoInv, AnswerChunk
<1>2. PICK list \in Seq(Nat) : list = station[t]
  BY <1>1, StationsAssumption DEF MonoInv
<1>3. current \in 1..9 /\ sent \in Seq(Asdus) /\ offset \in Nat /\ offset < Len(list)
  <2>1. request = "monolith" /\ current <= 9 /\ Len(list) - offset > 0
    BY <1>1, <1>2, AnswerOrderIs DEF AnswerChunk
  <2>2. current \in 1..10 /\ sent \in Seq(Asdus) /\ offset \in Nat
    BY <2>1 DEF MonoInv
  <2> QED
    BY <2>1, <2>2
<1>4. PICK M \in Nat : M = calcMaxIOAs(t) /\ M >= 1
  <2>1. ObjectSize[t] \in {4, 6, 8, 10}
    BY <1>1, <1>3, AnswerOrderIs
  <2> QED
    BY <2>1, ChunkSize
<1>5. PICK q \in Nat : offset = q * M
  <2>1. request = "monolith" /\ current <= 9
    BY <1>3 DEF AnswerChunk
  <2>2. \E q \in Nat : offset = q * calcMaxIOAs(AnswerOrder[current])
    BY <2>1, Zenon DEF MonoInv
  <2> QED
    BY <1>1, <1>4, <2>2
<1>6. PICK length \in Nat : length = (IF Len(list) - offset < M THEN Len(list) - offset ELSE M)
                            /\ length >= 1
  BY <1>3, <1>4
<1>7. PICK F \in Nat : F = Fits(t)
  BY FitsIs
<1>8. PICK n \in Nat : n = (IF length <= F THEN length ELSE F) /\ n <= length
  BY <1>6, <1>7
<1>9. Taken(t, FALSE, length) = n
  BY <1>7, <1>8, FitsIs
<1> DEFINE asdu == [type |-> t, sequence |-> FALSE, ioas |-> SubSeq(list, offset + 1, offset + n)]
<1>10. sent' = Append(sent, asdu)
  BY <1>1, <1>2, <1>4, <1>6, <1>9 DEF AnswerChunk, AsduOf
<1>11. offset' = offset + M /\ station' = station /\ current' = current
  BY <1>1, <1>4 DEF AnswerChunk
<1>12. asdu \in Asdus
  <2>1. PICK i \in Nat, j \in Nat : i = offset + 1 /\ j = offset + n /\ j <= Len(list)
    <3>1. PICK len \in Nat : len = Len(list)
      OBVIOUS
    <3>2. offset + n <= len /\ offset + 1 \in Nat /\ offset + n \in Nat
      BY <1>3, <1>6, <1>8, <3>1
    <3> QED
      BY <3>1, <3>2
  <2>2. SubSeq(list, i, j) \in Seq(Nat)
    BY <1>3, <2>1
  <2> QED
    BY <2>1, <2>2 DEF Asdus
<1>13. sent' \in Seq(Asdus)
  BY <1>3, <1>10, <1>12
<1>14. offset' \in Nat /\ \E i \in Nat : offset' = i * M
  <2>1. offset + M = (q + 1) * M /\ q + 1 \in Nat
    BY <1>5
  <2>2. offset' = (q + 1) * M
    BY <1>11, <2>1
  <2>3. offset' \in Nat
    BY <1>3, <1>11
  <2> QED
    BY <2>1, <2>2, <2>3, Zenon
<1>15. Answered(t)' = Kept(list, Fitting(t), offset + length)
  <2>1. /\ Answered(t)' = FlattenSeq(Addresses(sent', t))
        /\ Answered(t) = FlattenSeq(Addresses(sent, t))
    BY DEF Answered, Addresses
  <2>2. FlattenSeq(Addresses(sent', t)) = Answered(t) \o SubSeq(list, offset + 1, offset + n)
    <3>1. asdu.type = t /\ asdu.ioas = SubSeq(list, offset + 1, offset + n)
      OBVIOUS
    <3> HIDE DEF asdu
    <3> QED
      BY <1>3, <1>10, <1>12, <2>1, <3>1, AnsweredMore
  <2>3. Answered(t) = Kept(list, Fitting(t), offset)
    <3>1. Answering(current) = offset
      BY <1>1, <1>2, <1>3 DEF Answering
    <3>2. request = "monolith"
      BY DEF AnswerChunk
    <3> QED
      BY <1>1, <1>2, <1>3, <3>1, <3>2 DEF MonoInv
  <2>4. ASSUME NEW p \in Nat, offset < p, p <= offset + length
        PROVE  p \in Fitting(t) <=> p <= offset + n
    <3>1. PICK r \in Nat : p = offset + r + 1 /\ r < M
      <4>1. p - offset - 1 \in Nat
        BY <1>3, <2>4
      <4> QED
        BY <1>3, <1>6, <2>4, <4>1
    <3>2. (p - 1) % M = r
      <4>1. p - 1 = q * M + r
        BY <1>3, <1>5, <3>1
      <4>2. M # 0 /\ r < M
        BY <1>4, <3>1
      <4>3. (q * M + r) % M = r
        BY <4>2, ModuloIs
      <4> QED
        BY <4>1, <4>3
    <3>3. p \in DOMAIN station[t]
      BY <1>2, <1>3, <1>6, <2>4
    <3>4. p \in Fitting(t) <=> r < F
      BY <1>4, <1>7, <3>2, <3>3 DEF Fitting
    <3>5. r < F <=> p <= offset + n
      BY <1>3, <1>8, <2>4, <3>1
    <3> QED
      BY <3>4, <3>5
  <2>5. PICK m \in Nat, r \in Nat : m = offset + n /\ r = offset + length
    BY <1>3
  <2>6. Begins(list, Fitting(t), offset, m, r)
    BY <1>3, <1>6, <1>8, <2>4, <2>5 DEF Begins
  <2>7. Kept(list, Fitting(t), r) = Kept(list, Fitting(t), offset) \o SubSeq(list, offset + 1, m)
    BY <2>6, KeptChunk
  <2> QED
    BY <2>1, <2>2, <2>3, <2>5, <2>7
<1>16. Answering(current)' = offset + length
  BY <1>1, <1>2, <1>3, <1>6, <1>11 DEF Answering
<1>17. ASSUME NEW j \in 1..9, j # current
       PROVE  /\ Answered(AnswerOrder[j])' = Answered(AnswerOrder[j])
              /\ Answering(j)' = Answering(j)
  <2>1. PICK u \in DataTypes : u = AnswerOrder[j]
    BY AnswerOrderIs
  <2>2. asdu.type # u
    BY <1>1, <1>3, <1>17, <2>1, AnswerOrderIs
  <2>3. /\ Answered(u)' = FlattenSeq(Addresses(sent', u))
        /\ Answered(u) = FlattenSeq(Addresses(sent, u))
    BY DEF Answered, Addresses
  <2>4. FlattenSeq(Addresses(sent', u)) = FlattenSeq(Addresses(sent, u)) \o <<>>
    <3> HIDE DEF asdu
    <3> QED
      BY <1>3, <1>10, <1>12, <2>2, AnsweredMore
  <2>5. FlattenSeq(Addresses(sent, u)) \in Seq(Nat)
    BY <1>3, AnsweredType
  <2>6. FlattenSeq(Addresses(sent, u)) \o <<>> = FlattenSeq(Addresses(sent, u))
    BY <2>5
  <2>7. Answering(j)' = Answering(j)
    BY <1>11, <1>17 DEF Answering
  <2> QED
    BY <2>1, <2>3, <2>4, <2>6, <2>7
<1>18. ASSUME NEW j \in 1..9
       PROVE  Answered(AnswerOrder[j])'
                = Kept(station[AnswerOrder[j]], Fitting(AnswerOrder[j]), Answering(j)')
  <2>1. CASE j = current
    <3>1. Answering(j)' = offset + length
      BY <1>11, <1>16, <2>1
    <3> QED
      BY <1>1, <1>2, <1>15, <2>1, <3>1
  <2>2. CASE j # current
    BY <1>17, <2>2 DEF MonoInv, AnswerChunk
  <2> QED
    BY <2>1, <2>2
<1> QED
  BY <1>1, <1>4, <1>13, <1>14, <1>18

\* At the start of an answer.
AnswerStart == station \in Stations /\ sent = <<>> /\ current = 1 /\ offset = 0
AnswerProgress ==
  \A j \in 1..9 : Answered(AnswerOrder[j])
                    = Kept(station[AnswerOrder[j]], Fitting(AnswerOrder[j]), Answering(j))

LEMMA NothingAnswered ==
  AnswerStart => AnswerProgress
<1> SUFFICES ASSUME AnswerStart, NEW j \in 1..9
             PROVE  Answered(AnswerOrder[j])
                      = Kept(station[AnswerOrder[j]], Fitting(AnswerOrder[j]), Answering(j))
  BY DEF AnswerProgress
<1> USE DEF AnswerStart
<1>1. station[AnswerOrder[j]] \in Seq(Nat)
  BY AnswerOrderIs, StationsAssumption
<1>2. Answering(j) = 0
  BY <1>1 DEF Answering
<1>3. Answered(AnswerOrder[j]) = FlattenSeq(Addresses(<<>>, AnswerOrder[j]))
  BY DEF Answered, Addresses
<1> QED
  BY <1>2, <1>3, AnsweredNone, KeptNone

LEMMA MonolithPackStart ==
  PackInit => MonoInv
BY DEF PackInit, MonoInv

LEMMA MonolithPackStep ==
  MonoInv /\ [MonolithPackNext]_packVars => MonoInv'
<1> SUFFICES ASSUME MonoInv, [MonolithPackNext]_packVars
             PROVE  MonoInv'
  OBVIOUS
<1>1. ASSUME NEW qoi \in {20, 21}, AskMonolith(qoi)
      PROVE  MonoInv'
  <2>1. /\ station' \in Stations /\ sent' = <<>> /\ current' = 1 /\ offset' = 0
        /\ request' \in {"none", "monolith"}
    BY <1>1 DEF AskMonolith, MonoInv
  <2>2. (AnswerStart => AnswerProgress)'
    BY NothingAnswered, PTL
  <2>3. AnswerProgress'
    BY <2>1, <2>2 DEF AnswerStart
  <2>4. \E q \in Nat : offset' = q * calcMaxIOAs(AnswerOrder[current])'
    <3>1. calcMaxIOAs(AnswerOrder[1]) \in Nat
      BY AnswerOrderIs, ChunkSize
    <3>2. 0 = 0 * calcMaxIOAs(AnswerOrder[1])
      BY <3>1
    <3> QED
      BY <2>1, <3>2
  <2> QED
    BY <2>1, <2>3, <2>4 DEF MonoInv, AnswerProgress
<1>2. ASSUME AnswerChunk
      PROVE  MonoInv'
  <2>1. /\ sent' \in Seq(Asdus)
        /\ offset' \in Nat
        /\ \E q \in Nat : offset' = q * calcMaxIOAs(AnswerOrder[current])
        /\ \A j \in 1..9 : Answered(AnswerOrder[j])'
                             = Kept(station[AnswerOrder[j]], Fitting(AnswerOrder[j]), Answering(j)')
    BY <1>2, AnswerSent
  <2>2. station' = station /\ request' = request /\ current' = current
    BY <1>2 DEF AnswerChunk
  <2>3. ASSUME NEW j \in 1..9
        PROVE  Answered(AnswerOrder[j])'
                 = Kept(station[AnswerOrder[j]], Fitting(AnswerOrder[j]), Answering(j))'
    <3>1. Kept(station[AnswerOrder[j]], Fitting(AnswerOrder[j]), Answering(j))'
            = Kept(station[AnswerOrder[j]], Fitting(AnswerOrder[j]), Answering(j)')
      BY <2>2 DEF Kept, PointsOf, Fitting
    <3> QED
      BY <2>1, <3>1
  <2>4. request = "monolith"
    BY <1>2 DEF AnswerChunk
  <2>5. \E q \in Nat : offset' = q * calcMaxIOAs(AnswerOrder[current])'
    BY <2>1, <2>2
  <2> QED
    BY <2>1, <2>2, <2>3, <2>4, <2>5 DEF MonoInv
<1>3. ASSUME AnswerNextType
      PROVE  MonoInv'
  <2>1. /\ request = "monolith" /\ current <= 9
        /\ offset >= Len(station[AnswerOrder[current]])
        /\ current' = current + 1 /\ offset' = 0
        /\ UNCHANGED <<station, request, first, confirmed, sent>>
    BY <1>3, AnswerOrderIs DEF AnswerNextType
  <2>2. current \in 1..9 /\ sent \in Seq(Asdus) /\ offset \in Nat
    BY <2>1 DEF MonoInv
  <2>3. ASSUME NEW j \in 1..9
        PROVE  Answering(j)' = Answering(j)
    <3>1. station[AnswerOrder[j]] \in Seq(Nat)
      BY AnswerOrderIs, StationsAssumption DEF MonoInv
    <3>2. CASE j = current
      BY <2>1, <2>2, <3>1, <3>2 DEF Answering
    <3>3. CASE j = current + 1
      BY <2>1, <2>2, <3>1, <3>3 DEF Answering
    <3>4. CASE j # current /\ j # current + 1
      BY <2>1, <2>2, <3>4 DEF Answering
    <3> QED
      BY <3>2, <3>3, <3>4
  <2>4. ASSUME NEW j \in 1..9
        PROVE  Answered(AnswerOrder[j])'
                 = Kept(station[AnswerOrder[j]], Fitting(AnswerOrder[j]), Answering(j))'
    <3>1. Kept(station[AnswerOrder[j]], Fitting(AnswerOrder[j]), Answering(j))'
            = Kept(station[AnswerOrder[j]], Fitting(AnswerOrder[j]), Answering(j)')
      BY <2>1 DEF Kept, PointsOf, Fitting
    <3>2. Answered(AnswerOrder[j])' = Answered(AnswerOrder[j])
      BY <2>1 DEF Answered
    <3> QED
      BY <2>1, <2>3, <3>1, <3>2 DEF MonoInv
  <2>5. current' <= 9 => \E q \in Nat : offset' = q * calcMaxIOAs(AnswerOrder[current])'
    <3>1. SUFFICES ASSUME current' <= 9
                   PROVE  \E q \in Nat : 0 = q * calcMaxIOAs(AnswerOrder[current'])
      BY <2>1
    <3>2. PICK k \in 1..9 : k = current'
      BY <2>1, <2>2, <3>1
    <3>3. calcMaxIOAs(AnswerOrder[k]) \in Nat
      BY AnswerOrderIs, ChunkSize
    <3>4. 0 = 0 * calcMaxIOAs(AnswerOrder[k])
      BY <3>3
    <3> QED
      BY <3>2, <3>4
  <2>6. station' \in Stations /\ request' = "monolith" /\ current' \in 1..10
        /\ sent' \in Seq(Asdus) /\ offset' \in Nat
    BY <2>1, <2>2 DEF MonoInv
  <2> QED
    BY <2>4, <2>5, <2>6 DEF MonoInv
<1>4. ASSUME EndAnswer
      PROVE  MonoInv'
  BY <1>4 DEF EndAnswer, MonoInv
<1>5. ASSUME NEW t \in PeriodicTypes, SendPeriodicData(t)
      PROVE  MonoInv'
  BY <1>5 DEF SendPeriodicData, MonoInv
<1>6. ASSUME SendTotals
      PROVE  MonoInv'
  BY <1>6 DEF SendTotals, MonoInv
<1>7. ASSUME UNCHANGED packVars
      PROVE  MonoInv'
  BY <1>7 DEF packVars, MonoInv, Answered, Kept, PointsOf, Fitting, Answering
<1> QED
  BY <1>1, <1>2, <1>3, <1>4, <1>5, <1>6, <1>7 DEF MonolithPackNext

\* All the points of a list.
LEMMA KeptAll ==
  ASSUME NEW list \in Seq(Nat)
  PROVE  Kept(list, DOMAIN list, Len(list)) = list
<1>1. CASE Len(list) = 0
  BY <1>1, KeptNone
<1>2. CASE Len(list) # 0
  <2>1. PICK r \in Nat : r = Len(list)
    OBVIOUS
  <2>2. Begins(list, DOMAIN list, 0, r, r)
    BY <1>2, <2>1 DEF Begins
  <2>3. Kept(list, DOMAIN list, r) = Kept(list, DOMAIN list, 0) \o SubSeq(list, 0 + 1, r)
    BY <2>2, KeptChunk
  <2>4. Kept(list, DOMAIN list, r) = <<>> \o SubSeq(list, 0 + 1, r)
    BY <2>3, KeptNone
  <2>5. <<>> \o SubSeq(list, 0 + 1, r) = list
    BY <2>1
  <2> QED
    BY <2>1, <2>4, <2>5
<1> QED
  BY <1>1, <1>2

\* At the end of an answer of the single-file program, of every chunk of a list the points that
\* fit into an ASDU were answered, and every point when the objects are taken for large enough.
THEOREM MonolithAnswers == MonolithPackSpec => []AnsweredAsFits
<1>1. MonoInv => AnsweredAsFits
  <2> SUFFICES ASSUME MonoInv, request = "monolith", current > Len(AnswerOrder),
                      NEW t \in DataTypes \ {"M_IT_TB_1"}
               PROVE  /\ ExactlyAnswered(t, Fitting(t))
                      /\ ObjectSize[t] >= SizeOfIOA + ElementSize[t] => Answered(t) = station[t]
    BY DEF AnsweredAsFits, Fitting, Fits
  <2>1. PICK j \in 1..9 : AnswerOrder[j] = t
    BY AnswerOrderIs
  <2>2. PICK list \in Seq(Nat) : list = station[t]
    BY StationsAssumption DEF MonoInv
  <2>3. current > 9
    BY AnswerOrderIs
  <2>4. Answering(j) = Len(list)
    <3>1. current \in Nat
      BY DEF MonoInv
    <3>2. j # current /\ j < current
      BY <2>3, <3>1
    <3>3. Answering(j) = Len(station[AnswerOrder[j]])
      BY <3>2 DEF Answering
    <3> QED
      BY <2>1, <2>2, <3>3, Zenon
  <2>5. Answered(t) = Kept(list, Fitting(t), Len(list))
    BY <2>1, <2>2, <2>4 DEF MonoInv
  <2>6. ExactlyAnswered(t, Fitting(t))
    <3>1. Fitting(t) \subseteq DOMAIN list
      BY <2>2 DEF Fitting
    <3> QED
      BY <2>2, <2>5, <3>1, KeptRanked DEF ExactlyAnswered
  <2>7. ASSUME ObjectSize[t] >= SizeOfIOA + ElementSize[t]
        PROVE  Answered(t) = station[t]
    <3>1. ObjectSize[t] \in {4, 6, 8, 10}
      BY <2>1, AnswerOrderIs
    <3>2. PICK M \in Nat, F \in Nat : M = calcMaxIOAs(t) /\ F = Fits(t) /\ M # 0 /\ M <= F
      <4>1. calcMaxIOAs(t) \in Nat /\ calcMaxIOAs(t) >= 1 /\ calcMaxIOAs(t) <= Fits(t)
        BY <2>7, <3>1, ChunkSize
      <4>2. Fits(t) \in Nat
        BY FitsIs
      <4> QED
        BY <4>1, <4>2
    <3>3. ASSUME NEW p \in DOMAIN list PROVE p \in Fitting(t)
      <4>1. PICK x \in Nat : x = p - 1
        BY <3>3
      <4>2. x % M \in Nat /\ x % M < M
        BY <3>2, RemainderIs
      <4>3. x % M < F
        BY <3>2, <4>2
      <4> QED
        BY <2>2, <3>2, <3>3, <4>1, <4>3 DEF Fitting
    <3>4. Fitting(t) = DOMAIN list
      BY <2>2, <3>3 DEF Fitting
    <3> QED
      BY <2>2, <2>5, <3>4, KeptAll
  <2> QED
    BY <2>6, <2>7
<1> QED
  BY <1>1, MonolithPackStart, MonolithPackStep, PTL DEF MonolithPackSpec

(***************************************************************************)
(* What an element consists of                                             *)
(***************************************************************************)
\* The bytes of element k.
Bytes(k) == {k} \X Nat \X Nat
Address(k) == [b \in 1..SizeOfIOA |-> <<k, 0, b>>]
Field(c, k, j) == [b \in 1..Width[c.fields[j]] |-> <<k, j, b>>]

\* f[j] is the beginning of an element up to its j-th field.
Begun(c, k, h, f) ==
  f = [j \in 0..Len(c.fields) |-> IF j > 0 THEN f[j - 1] \o Field(c, k, j) ELSE h]

\* The fields of an element after h, and their size, for at most four fields.
Written(c, k, h) ==
  LET n == Len(c.fields) IN
  IF n = 0 THEN h
  ELSE IF n = 1 THEN h \o Field(c, k, 1)
  ELSE IF n = 2 THEN (h \o Field(c, k, 1)) \o Field(c, k, 2)
  ELSE IF n = 3 THEN ((h \o Field(c, k, 1)) \o Field(c, k, 2)) \o Field(c, k, 3)
  ELSE (((h \o Field(c, k, 1)) \o Field(c, k, 2)) \o Field(c, k, 3)) \o Field(c, k, 4)
WidthOf(c, j) == IF j <= Len(c.fields) THEN Width[c.fields[j]] ELSE 0
SizeOf(c) == WidthOf(c, 1) + WidthOf(c, 2) + WidthOf(c, 3) + WidthOf(c, 4)
Writable(c) == /\ Len(c.fields) \in {0, 1, 2, 3, 4}
               /\ \A j \in {1, 2, 3, 4} : WidthOf(c, j) \in Nat

LEMMA EncodedIs ==
  ASSUME NEW c, Writable(c), NEW k, NEW w
  PROVE  Encoded(c, k, w) = Written(c, k, IF w THEN Address(k) ELSE <<>>)
<1> DEFINE n == Len(c.fields)
           h == IF w THEN Address(k) ELSE <<>>
           g1 == h \o Field(c, k, 1)
           g2 == g1 \o Field(c, k, 2)
           g3 == g2 \o Field(c, k, 3)
           g4 == g3 \o Field(c, k, 4)
           g == [j \in 0..n |-> IF j = 0 THEN h ELSE IF j = 1 THEN g1 ELSE IF j = 2 THEN g2
                                ELSE IF j = 3 THEN g3 ELSE g4]
           p == CHOOSE f : Begun(c, k, h, f)
<1>1. n \in 0..4
  BY DEF Writable
<1>2. Begun(c, k, h, g)
  <2>1. ASSUME NEW j \in 0..n
        PROVE  g[j] = IF j > 0 THEN g[j - 1] \o Field(c, k, j) ELSE h
    <3> HIDE DEF h
    <3>1. j = 0 \/ j = 1 \/ j = 2 \/ j = 3 \/ j = 4
      <4>1. PICK m \in 0..4 : m = n
        BY <1>1
      <4>2. j \in 0..m
        BY <4>1
      <4> QED
        BY <4>2
    <3>2. CASE j = 0
      BY <3>2
    <3>3. CASE j = 1
      <4>1. j - 1 = 0 /\ j > 0 /\ j - 1 \in 0..n
        BY <1>1, <3>3
      <4> QED
        BY <3>3, <4>1
    <3>4. CASE j = 2
      <4>1. j - 1 = 1 /\ j > 0 /\ j - 1 \in 0..n
        BY <1>1, <3>4
      <4> QED
        BY <3>4, <4>1
    <3>5. CASE j = 3
      <4>1. j - 1 = 2 /\ j > 0 /\ j - 1 \in 0..n
        BY <1>1, <3>5
      <4> QED
        BY <3>5, <4>1
    <3>6. CASE j = 4
      <4>1. j - 1 = 3 /\ j > 0 /\ j - 1 \in 0..n
        BY <1>1, <3>6
      <4> QED
        BY <3>6, <4>1
    <3> QED
      BY <3>1, <3>2, <3>3, <3>4, <3>5, <3>6
  <2> HIDE DEF h, n
  <2> QED
    BY <2>1 DEF Begun, n
<1>3. Begun(c, k, h, p)
  <2> HIDE DEF g, h
  <2> QED
    BY <1>2, Zenon
<1>4. Encoded(c, k, w) = p[n]
  BY DEF Encoded, Begun, Field, Address
<1> HIDE DEF p
<1> SUFFICES Encoded(c, k, w) = Written(c, k, h)
  OBVIOUS
<1> HIDE DEF h
<1>5. ASSUME NEW j \in 0..n
      PROVE  p[j] = IF j > 0 THEN p[j - 1] \o Field(c, k, j) ELSE h
  BY <1>3 DEF Begun
<1>6. CASE n = 0
  BY <1>4, <1>5, <1>6 DEF Written
<1>7. CASE n = 1
  <2>1. p[0] = h /\ p[1] = p[0] \o Field(c, k, 1)
    BY <1>5, <1>7
  <2> QED
    BY <1>4, <1>7, <2>1 DEF Written
<1>8. CASE n = 2
  <2>1. p[0] = h /\ p[1] = p[0] \o Field(c, k, 1) /\ p[2] = p[1] \o Field(c, k, 2)
    BY <1>5, <1>8
  <2> QED
    BY <1>4, <1>8, <2>1 DEF Written
<1>9. CASE n = 3
  <2>1. /\ p[0] = h /\ p[1] = p[0] \o Field(c, k, 1) /\ p[2] = p[1] \o Field(c, k, 2)
        /\ p[3] = p[2] \o Field(c, k, 3)
    BY <1>5, <1>9
  <2> QED
    BY <1>4, <1>9, <2>1 DEF Written
<1>10. CASE n = 4
  <2>1. p[0] = h /\ p[1] = p[0] \o Field(c, k, 1) /\ p[2] = p[1] \o Field(c, k, 2)
    BY <1>5, <1>10
  <2>2. p[3] = p[2] \o Field(c, k, 3)
    BY <1>5, <1>10
  <2>3. p[4] = p[3] \o Field(c, k, 4)
    BY <1>5, <1>10
  <2> QED
    BY <1>4, <1>10, <2>1, <2>2, <2>3 DEF Written
<1>11. n = 0 \/ n = 1 \/ n = 2 \/ n = 3 \/ n = 4
  BY <1>1
<1> QED
  BY <1>6, <1>7, <1>8, <1>9, <1>10, <1>11

LEMMA Joined ==
  ASSUME NEW S, NEW a \in Seq(S), NEW b \in Seq(S)
  PROVE  a \o b \in Seq(S) /\ Len(a \o b) = Len(a) + Len(b)
OBVIOUS

LEMMA JoinedAt ==
  ASSUME NEW S, NEW a \in Seq(S), NEW b \in Seq(S)
  PROVE  /\ \A i \in 1..Len(a) : (a \o b)[i] = a[i]
         /\ \A i \in 1..Len(b) : (a \o b)[Len(a) + i] = b[i]
OBVIOUS

LEMMA FieldType ==
  ASSUME NEW c, NEW k \in Nat, NEW j \in Nat, Width[c.fields[j]] \in Nat
  PROVE  Field(c, k, j) \in Seq(Bytes(k)) /\ Len(Field(c, k, j)) = Width[c.fields[j]]
<1>1. PICK m \in Nat : m = Width[c.fields[j]]
  OBVIOUS
<1>2. \A b \in 1..m : <<k, j, b>> \in Bytes(k)
  BY DEF Bytes
<1>3. [b \in 1..m |-> <<k, j, b>>] \in Seq(Bytes(k)) /\ Len([b \in 1..m |-> <<k, j, b>>]) = m
  BY <1>2
<1> QED
  BY <1>1, <1>3 DEF Field

LEMMA AddressType ==
  ASSUME NEW k \in Nat
  PROVE  Address(k) \in Seq(Bytes(k)) /\ Len(Address(k)) = SizeOfIOA
<1>1. \A b \in 1..SizeOfIOA : <<k, 0, b>> \in Bytes(k)
  BY Parameters DEF Bytes
<1>2. SizeOfIOA \in Nat
  BY Parameters
<1> QED
  BY <1>1, <1>2 DEF Address

Associate(a, b, c) == (a \o b) \o c = a \o (b \o c)
LEMMA JoinedAgain ==
  ASSUME NEW k, NEW a \in Seq(Bytes(k)), NEW b \in Seq(Bytes(k)), NEW c \in Seq(Bytes(k))
  PROVE  Associate(a, b, c)
BY ConcatAssociative DEF Associate

LEMMA WrittenIs ==
  ASSUME NEW c, Writable(c), NEW k \in Nat, NEW h \in Seq(Bytes(k))
  PROVE  /\ Written(c, k, h) \in Seq(Bytes(k))
         /\ Len(Written(c, k, h)) = Len(h) + SizeOf(c)
         /\ Written(c, k, h) = h \o Written(c, k, <<>>)
<1> DEFINE n == Len(c.fields)
           W(e) == /\ e \in Seq(Bytes(k)) /\ Len(e) \in Nat
<1>1. n \in {0, 1, 2, 3, 4}
  BY DEF Writable
<1>2. ASSUME NEW j \in {1, 2, 3, 4}, j <= n
      PROVE  Field(c, k, j) \in Seq(Bytes(k)) /\ Len(Field(c, k, j)) = WidthOf(c, j)
  <2>1. WidthOf(c, j) = Width[c.fields[j]] /\ WidthOf(c, j) \in Nat /\ j \in Nat
    BY <1>2 DEF Writable, WidthOf
  <2>2. Width[c.fields[j]] \in Nat
    BY <2>1
  <2> QED
    BY <2>1, <2>2, FieldType
<1>3. /\ 1 <= n => WidthOf(c, 1) \in Nat
      /\ 2 <= n => WidthOf(c, 2) \in Nat
      /\ 3 <= n => WidthOf(c, 3) \in Nat
      /\ 4 <= n => WidthOf(c, 4) \in Nat
  BY DEF Writable
<1>4. /\ ~(1 <= n) => WidthOf(c, 1) = 0
      /\ ~(2 <= n) => WidthOf(c, 2) = 0
      /\ ~(3 <= n) => WidthOf(c, 3) = 0
      /\ ~(4 <= n) => WidthOf(c, 4) = 0
  BY DEF WidthOf
<1>5. CASE n = 0
  <2>1. SizeOf(c) = 0
    BY <1>4, <1>5 DEF SizeOf
  <2> QED
    BY <1>5, <2>1 DEF Written
<1>6. CASE n = 1
  <2>1. PICK f1 \in Seq(Bytes(k)) : f1 = Field(c, k, 1) /\ Len(f1) = WidthOf(c, 1)
    BY <1>2, <1>6
  <2>2. Written(c, k, h) = h \o f1 /\ Written(c, k, <<>>) = <<>> \o f1
    BY <1>6, <2>1 DEF Written
  <2>3. SizeOf(c) = Len(f1)
    BY <1>4, <1>6, <2>1 DEF SizeOf
  <2>4. <<>> \o f1 = f1
    OBVIOUS
  <2> QED
    BY <2>2, <2>3, <2>4, Joined
<1>7. CASE n = 2
  <2>1. PICK f1 \in Seq(Bytes(k)) : f1 = Field(c, k, 1) /\ Len(f1) = WidthOf(c, 1)
    BY <1>2, <1>7
  <2>2. PICK f2 \in Seq(Bytes(k)) : f2 = Field(c, k, 2) /\ Len(f2) = WidthOf(c, 2)
    BY <1>2, <1>7
  <2>3. Written(c, k, h) = (h \o f1) \o f2 /\ Written(c, k, <<>>) = (<<>> \o f1) \o f2
    BY <1>7, <2>1, <2>2 DEF Written
  <2>4. SizeOf(c) = Len(f1) + Len(f2)
    BY <1>4, <1>7, <2>1, <2>2 DEF SizeOf
  <2>5. <<>> \o f1 = f1
    OBVIOUS
  <2>6. (h \o f1) \o f2 \in Seq(Bytes(k)) /\ Len((h \o f1) \o f2) = Len(h) + Len(f1) + Len(f2)
    BY Joined
  <2>7. Associate(h, f1, f2)
    BY JoinedAgain
  <2>8. Len(h) + Len(f1) + Len(f2) = Len(h) + SizeOf(c)
    BY <2>4
  <2> QED
    BY <2>3, <2>5, <2>6, <2>7, <2>8, Zenon DEF Associate
<1>8. CASE n = 3
  <2>1. PICK f1 \in Seq(Bytes(k)) : f1 = Field(c, k, 1) /\ Len(f1) = WidthOf(c, 1)
    BY <1>2, <1>8
  <2>2. PICK f2 \in Seq(Bytes(k)) : f2 = Field(c, k, 2) /\ Len(f2) = WidthOf(c, 2)
    BY <1>2, <1>8
  <2>3. PICK f3 \in Seq(Bytes(k)) : f3 = Field(c, k, 3) /\ Len(f3) = WidthOf(c, 3)
    BY <1>2, <1>8
  <2>4. /\ Written(c, k, h) = ((h \o f1) \o f2) \o f3
        /\ Written(c, k, <<>>) = ((<<>> \o f1) \o f2) \o f3
    BY <1>8, <2>1, <2>2, <2>3 DEF Written
  <2>5. <<>> \o f1 = f1
    OBVIOUS
  <2>6. PICK g \in Seq(Bytes(k)) : g = h \o f1 /\ Len(g) = Len(h) + Len(f1)
    BY Joined
  <2>7. PICK e \in Seq(Bytes(k)) : e = f2 \o f3 /\ Len(e) = Len(f2) + Len(f3)
    BY Joined
  <2>8. (g \o f2) \o f3 = g \o e /\ (f1 \o f2) \o f3 = f1 \o e
    <3>1. Associate(g, f2, f3)
      BY JoinedAgain
    <3>2. Associate(f1, f2, f3)
      BY JoinedAgain
    <3> QED
      BY <2>7, <3>1, <3>2, Zenon DEF Associate
  <2>9. g \o e = h \o (f1 \o e)
    <3>1. Associate(h, f1, e)
      BY JoinedAgain
    <3> QED
      BY <2>6, <3>1, Zenon DEF Associate
  <2>10. g \o e \in Seq(Bytes(k)) /\ Len(g \o e) = Len(g) + Len(e)
    BY Joined
  <2>11. Len(g) + Len(e) = Len(h) + SizeOf(c)
    BY <1>4, <1>8, <2>1, <2>2, <2>3, <2>6, <2>7 DEF SizeOf
  <2> QED
    BY <2>4, <2>5, <2>6, <2>8, <2>9, <2>10, <2>11, Zenon
<1>9. CASE n = 4
  <2>1. PICK f1 \in Seq(Bytes(k)) : f1 = Field(c, k, 1) /\ Len(f1) = WidthOf(c, 1)
    BY <1>2, <1>9
  <2>2. PICK f2 \in Seq(Bytes(k)) : f2 = Field(c, k, 2) /\ Len(f2) = WidthOf(c, 2)
    BY <1>2, <1>9
  <2>3. PICK f3 \in Seq(Bytes(k)) : f3 = Field(c, k, 3) /\ Len(f3) = WidthOf(c, 3)
    BY <1>2, <1>9
  <2>4. PICK f4 \in Seq(Bytes(k)) : f4 = Field(c, k, 4) /\ Len(f4) = WidthOf(c, 4)
    BY <1>2, <1>9
  <2>5. /\ Written(c, k, h) = (((h \o f1) \o f2) \o f3) \o f4
        /\ Written(c, k, <<>>) = (((<<>> \o f1) \o f2) \o f3) \o f4
    BY <1>9, <2>1, <2>2, <2>3, <2>4 DEF Written
  <2>6. <<>> \o f1 = f1
    OBVIOUS
  <2>7. PICK g \in Seq(Bytes(k)) : g = h \o f1 /\ Len(g) = Len(h) + Len(f1)
    BY Joined
  <2>8. PICK i \in Seq(Bytes(k)) : i = f2 \o f3 /\ Len(i) = Len(f2) + Len(f3)
    BY Joined
  <2>9. PICK e \in Seq(Bytes(k)) : e = i \o f4 /\ Len(e) = Len(i) + Len(f4)
    BY Joined
  <2>10. (g \o f2) \o f3 = g \o i /\ (f1 \o f2) \o f3 = f1 \o i
    <3>1. Associate(g, f2, f3)
      BY JoinedAgain
    <3>2. Associate(f1, f2, f3)
      BY JoinedAgain
    <3> QED
      BY <2>8, <3>1, <3>2, Zenon DEF Associate
  <2>11. (g \o i) \o f4 = g \o e /\ (f1 \o i) \o f4 = f1 \o e
    <3>1. Associate(g, i, f4)
      BY JoinedAgain
    <3>2. Associate(f1, i, f4)
      BY JoinedAgain
    <3> QED
      BY <2>9, <3>1, <3>2, Zenon DEF Associate
  <2>12. g \o e = h \o (f1 \o e)
    <3>1. Associate(h, f1, e)
      BY JoinedAgain
    <3> QED
      BY <2>7, <3>1, Zenon DEF Associate
  <2>13. g \o e \in Seq(Bytes(k)) /\ Len(g \o e) = Len(g) + Len(e)
    BY Joined
  <2>14. Len(g) + Len(e) = Len(h) + SizeOf(c)
    <3>1. SizeOf(c) = Len(f1) + Len(f2) + Len(f3) + Len(f4)
      BY <2>1, <2>2, <2>3, <2>4 DEF SizeOf
    <3>2. Len(g) = Len(h) + Len(f1) /\ Len(e) = Len(f2) + Len(f3) + Len(f4)
      BY <2>7, <2>8, <2>9
    <3> QED
      BY <3>1, <3>2
  <2> QED
    BY <2>5, <2>6, <2>7, <2>10, <2>11, <2>12, <2>13, <2>14, Zenon
<1> QED
  BY <1>1, <1>5, <1>6, <1>7, <1>8, <1>9

(***************************************************************************)
(* What every class of information objects keeps to                        *)
(***************************************************************************)
LEMMA Widths ==
  /\ Width["SIQ"] = 1 /\ Width["DIQ"] = 1 /\ Width["VTI"] = 1 /\ Width["QDS"] = 1
  /\ Width["BSI"] = 4 /\ Width["NVA"] = 2 /\ Width["SVA"] = 2 /\ Width["R32"] = 4
  /\ Width["BCR"] = 5 /\ Width["SEP"] = 1 /\ Width["SPE"] = 1 /\ Width["QDP"] = 1
  /\ Width["OCI"] = 1 /\ Width["SCD"] = 4 /\ Width["SCO"] = 1 /\ Width["DCO"] = 1
  /\ Width["RCO"] = 1 /\ Width["QOS"] = 1 /\ Width["QPA"] = 1 /\ Width["COI"] = 1
  /\ Width["QOI"] = 1 /\ Width["QCC"] = 1 /\ Width["FBP"] = 2 /\ Width["TSC"] = 2
  /\ Width["QRP"] = 1 /\ Width["NOF"] = 2 /\ Width["LOF"] = 3 /\ Width["FRQ"] = 1
  /\ Width["NOS"] = 1 /\ Width["SRQ"] = 1 /\ Width["SCQ"] = 1 /\ Width["LSQ"] = 1
  /\ Width["CHS"] = 1 /\ Width["AFQ"] = 1 /\ Width["SOF"] = 1 /\ Width["LOS"] = 1
  /\ Width["SEG"] = MaxSegment /\ Width["CP16"] = 2 /\ Width["CP24"] = 3 /\ Width["CP56"] = 7
BY DEF Width

LEMMA ElementSizes ==
  /\ ElementSize["M_SP_NA_1"] = 1 /\ ElementSize["M_SP_TA_1"] = 4 /\ ElementSize["M_DP_NA_1"] = 1
  /\ ElementSize["M_DP_TA_1"] = 4 /\ ElementSize["M_ST_NA_1"] = 2 /\ ElementSize["M_ST_TA_1"] = 5
  /\ ElementSize["M_BO_NA_1"] = 5 /\ ElementSize["M_BO_TA_1"] = 8
  /\ ElementSize["M_ME_NA_1"] = 3 /\ ElementSize["M_ME_TA_1"] = 6 /\ ElementSize["M_ME_NB_1"] = 3
  /\ ElementSize["M_ME_TB_1"] = 6 /\ ElementSize["M_ME_NC_1"] = 5 /\ ElementSize["M_ME_TC_1"] = 8
  /\ ElementSize["M_IT_NA_1"] = 5 /\ ElementSize["M_IT_TA_1"] = 8
  /\ ElementSize["M_EP_TA_1"] = 6 /\ ElementSize["M_EP_TB_1"] = 7 /\ ElementSize["M_EP_TC_1"] = 7
  /\ ElementSize["M_PS_NA_1"] = 5 /\ ElementSize["M_ME_ND_1"] = 2 /\ ElementSize["M_SP_TB_1"] = 8
  /\ ElementSize["M_DP_TB_1"] = 8 /\ ElementSize["M_ST_TB_1"] = 9
  /\ ElementSize["M_BO_TB_1"] = 12 /\ ElementSize["M_ME_TD_1"] = 10 /\ ElementSize["M_ME_TE_1"] = 10
  /\ ElementSize["M_ME_TF_1"] = 12 /\ ElementSize["M_IT_TB_1"] = 12 /\ ElementSize["M_EP_TD_1"] = 10
  /\ ElementSize["M_EP_TE_1"] = 11 /\ ElementSize["M_EP_TF_1"] = 11
  /\ ElementSize["C_SC_NA_1"] = 1 /\ ElementSize["C_DC_NA_1"] = 1 /\ ElementSize["C_RC_NA_1"] = 1
  /\ ElementSize["C_SE_NA_1"] = 3 /\ ElementSize["C_SE_NB_1"] = 3 /\ ElementSize["C_SE_NC_1"] = 5
  /\ ElementSize["C_BO_NA_1"] = 4 /\ ElementSize["C_SC_TA_1"] = 8 /\ ElementSize["C_DC_TA_1"] = 8
  /\ ElementSize["C_RC_TA_1"] = 8 /\ ElementSize["C_SE_TA_1"] = 10 /\ ElementSize["C_SE_TB_1"] = 10
  /\ ElementSize["C_SE_TC_1"] = 12 /\ ElementSize["C_BO_TA_1"] = 11
  /\ ElementSize["P_ME_NA_1"] = 3 /\ ElementSize["P_ME_NB_1"] = 3 /\ ElementSize["P_ME_NC_1"] = 5
  /\ ElementSize["P_AC_NA_1"] = 1 /\ ElementSize["F_DR_TA_1"] = 13
<1>1. \A t \in DOMAIN MonitoredElementSize : ElementSize[t] = MonitoredElementSize[t]
  BY DEF ElementSize, MonitoredElementSize, MeasuredElementSize, ProtectionElementSize,
         LongTimeElementSize, ControlElementSize, FileElementSize
<1>2. \A t \in DOMAIN MeasuredElementSize : ElementSize[t] = MeasuredElementSize[t]
  BY DEF ElementSize, MonitoredElementSize, MeasuredElementSize, ProtectionElementSize,
         LongTimeElementSize, ControlElementSize, FileElementSize
<1>3. \A t \in DOMAIN ProtectionElementSize : ElementSize[t] = ProtectionElementSize[t]
  BY DEF ElementSize, MonitoredElementSize, MeasuredElementSize, ProtectionElementSize,
         LongTimeElementSize, ControlElementSize, FileElementSize
<1>4. \A t \in DOMAIN LongTimeElementSize : ElementSize[t] = LongTimeElementSize[t]
  BY DEF ElementSize, MonitoredElementSize, MeasuredElementSize, ProtectionElementSize,
         LongTimeElementSize, ControlElementSize, FileElementSize
<1>5. \A t \in DOMAIN ControlElementSize : ElementSize[t] = ControlElementSize[t]
  BY DEF ElementSize, MonitoredElementSize, MeasuredElementSize, ProtectionElementSize,
         LongTimeElementSize, ControlElementSize, FileElementSize
<1>6. \A t \in DOMAIN FileElementSize : ElementSize[t] = FileElementSize[t]
  BY DEF ElementSize, MonitoredElementSize, MeasuredElementSize, ProtectionElementSize,
         LongTimeElementSize, ControlElementSize, FileElementSize
<1>7. /\ ElementSize["M_SP_NA_1"] = 1 /\ ElementSize["M_SP_TA_1"] = 4
      /\ ElementSize["M_DP_NA_1"] = 1 /\ ElementSize["M_DP_TA_1"] = 4
      /\ ElementSize["M_ST_NA_1"] = 2 /\ ElementSize["M_ST_TA_1"] = 5
      /\ ElementSize["M_BO_NA_1"] = 5 /\ ElementSize["M_BO_TA_1"] = 8
  BY <1>1 DEF MonitoredElementSize
<1>8. /\ ElementSize["M_ME_NA_1"] = 3 /\ ElementSize["M_ME_TA_1"] = 6
      /\ ElementSize["M_ME_NB_1"] = 3 /\ ElementSize["M_ME_TB_1"] = 6
      /\ ElementSize["M_ME_NC_1"] = 5 /\ ElementSize["M_ME_TC_1"] = 8
      /\ ElementSize["M_IT_NA_1"] = 5 /\ ElementSize["M_IT_TA_1"] = 8
  BY <1>2 DEF MeasuredElementSize
<1>9. /\ ElementSize["M_EP_TA_1"] = 6 /\ ElementSize["M_EP_TB_1"] = 7
      /\ ElementSize["M_EP_TC_1"] = 7 /\ ElementSize["M_PS_NA_1"] = 5
      /\ ElementSize["M_ME_ND_1"] = 2 /\ ElementSize["M_SP_TB_1"] = 8
      /\ ElementSize["M_DP_TB_1"] = 8 /\ ElementSize["M_ST_TB_1"] = 9
  BY <1>3 DEF ProtectionElementSize
<1>10. /\ ElementSize["M_BO_TB_1"] = 12 /\ ElementSize["M_ME_TD_1"] = 10
       /\ ElementSize["M_ME_TE_1"] = 10 /\ ElementSize["M_ME_TF_1"] = 12
       /\ ElementSize["M_IT_TB_1"] = 12 /\ ElementSize["M_EP_TD_1"] = 10
       /\ ElementSize["M_EP_TE_1"] = 11 /\ ElementSize["M_EP_TF_1"] = 11
  BY <1>4 DEF LongTimeElementSize
<1>11. /\ ElementSize["C_SC_NA_1"] = 1 /\ ElementSize["C_DC_NA_1"] = 1
       /\ ElementSize["C_RC_NA_1"] = 1 /\ ElementSize["C_SE_NA_1"] = 3
       /\ ElementSize["C_SE_NB_1"] = 3 /\ ElementSize["C_SE_NC_1"] = 5
       /\ ElementSize["C_BO_NA_1"] = 4 /\ ElementSize["C_SC_TA_1"] = 8
       /\ ElementSize["C_DC_TA_1"] = 8 /\ ElementSize["C_RC_TA_1"] = 8
       /\ ElementSize["C_SE_TA_1"] = 10 /\ ElementSize["C_SE_TB_1"] = 10
       /\ ElementSize["C_SE_TC_1"] = 12 /\ ElementSize["C_BO_TA_1"] = 11
  BY <1>5 DEF ControlElementSize
<1>12. /\ ElementSize["P_ME_NA_1"] = 3 /\ ElementSize["P_ME_NB_1"] = 3
       /\ ElementSize["P_ME_NC_1"] = 5 /\ ElementSize["P_AC_NA_1"] = 1
       /\ ElementSize["F_DR_TA_1"] = 13
  BY <1>6 DEF FileElementSize
<1> QED
  BY <1>7, <1>8, <1>9, <1>10, <1>11, <1>12

\* The encoder asks for the room that it takes, the decoder for no more than there is, and
\* getElement looks where the encoder has put the element.
Laid(c) ==
  /\ Writable(c) /\ SizeOf(c) \in Nat
  /\ c.needs \in Int /\ c.needs <= SizeOf(c)
  /\ c.indexed \in {"sequence", "object", "first"}
  /\ c.indexed # "first" =>
       ElementSize[c.type] = SizeOf(c) /\ SizeOf(c) >= 1 /\ c.needs >= 1
  /\ c.addressAlways \in BOOLEAN
  /\ c.addressAlways = TRUE => SizeOf(c) >= 3 /\ c.indexed = "sequence"
  /\ HeaderLength + SizeOfIOA + SizeOf(c) <= MaxSizeOfASDU
  /\ c.type \notin FileTypes =>
       /\ c.checked = TRUE /\ c.space \in Nat /\ c.space >= SizeOf(c)
       /\ c.spaceInSequence \in Nat
       /\ c.spaceInSequence >= SizeOf(c) \/ c.type = "C_TS_TA_1"

\* A class whose encoder and decoder ask for what it writes.
Regular(c) ==
  /\ c.checked = TRUE /\ c.addressAlways = FALSE
  /\ c.space = SizeOf(c) /\ c.spaceInSequence = SizeOf(c) /\ c.needs = SizeOf(c)
  /\ c.indexed \in {"sequence", "object", "first"}
  /\ c.indexed # "first" => SizeOf(c) >= 1 /\ ElementSize[c.type] = SizeOf(c)

LEMMA RegularLaid ==
  ASSUME NEW c, Regular(c), Writable(c), SizeOf(c) \in 0..16
  PROVE  Laid(c)
<1>1. HeaderLength + SizeOfIOA + SizeOf(c) <= MaxSizeOfASDU
  BY Parameters
<1>2. /\ SizeOf(c) \in Nat /\ c.needs \in Int /\ c.needs <= SizeOf(c)
      /\ c.indexed # "first" =>
           ElementSize[c.type] = SizeOf(c) /\ SizeOf(c) >= 1 /\ c.needs >= 1
  BY DEF Regular
<1>3. /\ c.addressAlways \in BOOLEAN /\ c.indexed \in {"sequence", "object", "first"}
      /\ c.addressAlways = TRUE => SizeOf(c) >= 3 /\ c.indexed = "sequence"
  BY DEF Regular
<1>4. /\ c.checked = TRUE /\ c.space \in Nat /\ c.space >= SizeOf(c)
      /\ c.spaceInSequence \in Nat /\ c.spaceInSequence >= SizeOf(c)
  BY DEF Regular
<1> QED
  BY <1>1, <1>2, <1>3, <1>4 DEF Laid

LEMMA Laid1 == \A c \in Classes1 : Laid(c)
<1>1. Laid(SinglePointInformation)
  <2> DEFINE c == SinglePointInformation
  <2>1. /\ c.type = "M_SP_NA_1" /\ c.fields = <<"SIQ">>
        /\ c.checked = TRUE /\ c.space = 1 /\ c.spaceInSequence = 1
        /\ c.needs = 1 /\ c.addressAlways = FALSE /\ c.indexed = "sequence"
    BY DEF SinglePointInformation, Monitored, Class
  <2> SUFFICES Laid(c)
    OBVIOUS
  <2> HIDE DEF c
  <2>2. SizeOf(c) = 1 /\ Writable(c)
    BY <2>1, Widths DEF SizeOf, WidthOf, Writable
  <2>3. ElementSize[c.type] = 1
    BY <2>1, ElementSizes
  <2>4. Regular(c)
    BY <2>1, <2>2, <2>3 DEF Regular
  <2> QED
    BY <2>2, <2>4, RegularLaid
<1>2. Laid(SinglePointWithCP24Time2a)
  <2> DEFINE c == SinglePointWithCP24Time2a
  <2>1. /\ c.type = "M_SP_TA_1" /\ c.fields = <<"SIQ", "CP24">>
        /\ c.checked = TRUE /\ c.space = 4 /\ c.spaceInSequence = 4
        /\ c.needs = 4 /\ c.addressAlways = FALSE /\ c.indexed = "sequence"
    BY DEF SinglePointWithCP24Time2a, Monitored, Class
  <2> SUFFICES Laid(c)
    OBVIOUS
  <2> HIDE DEF c
  <2>2. SizeOf(c) = 4 /\ Writable(c)
    BY <2>1, Widths DEF SizeOf, WidthOf, Writable
  <2>3. ElementSize[c.type] = 4
    BY <2>1, ElementSizes
  <2>4. Regular(c)
    BY <2>1, <2>2, <2>3 DEF Regular
  <2> QED
    BY <2>2, <2>4, RegularLaid
<1>3. Laid(DoublePointInformation)
  <2> DEFINE c == DoublePointInformation
  <2>1. /\ c.type = "M_DP_NA_1" /\ c.fields = <<"DIQ">>
        /\ c.checked = TRUE /\ c.space = 1 /\ c.spaceInSequence = 1
        /\ c.needs = 1 /\ c.addressAlways = FALSE /\ c.indexed = "sequence"
    BY DEF DoublePointInformation, Monitored, Class
  <2> SUFFICES Laid(c)
    OBVIOUS
  <2> HIDE DEF c
  <2>2. SizeOf(c) = 1 /\ Writable(c)
    BY <2>1, Widths DEF SizeOf, WidthOf, Writable
  <2>3. ElementSize[c.type] = 1
    BY <2>1, ElementSizes
  <2>4. Regular(c)
    BY <2>1, <2>2, <2>3 DEF Regular
  <2> QED
    BY <2>2, <2>4, RegularLaid
<1>4. Laid(DoublePointWithCP24Time2a)
  <2> DEFINE c == DoublePointWithCP24Time2a
  <2>1. /\ c.type = "M_DP_TA_1" /\ c.fields = <<"DIQ", "CP24">>
        /\ c.checked = TRUE /\ c.space = 4 /\ c.spaceInSequence = 4
        /\ c.needs = 4 /\ c.addressAlways = FALSE /\ c.indexed = "sequence"
    BY DEF DoublePointWithCP24Time2a, Monitored, Class
  <2> SUFFICES Laid(c)
    OBVIOUS
  <2> HIDE DEF c
  <2>2. SizeOf(c) = 4 /\ Writable(c)
    BY <2>1, Widths DEF SizeOf, WidthOf, Writable
  <2>3. ElementSize[c.type] = 4
    BY <2>1, ElementSizes
  <2>4. Regular(c)
    BY <2>1, <2>2, <2>3 DEF Regular
  <2> QED
    BY <2>2, <2>4, RegularLaid
<1>5. Laid(StepPositionInformation)
  <2> DEFINE c == StepPositionInformation
  <2>1. /\ c.type = "M_ST_NA_1" /\ c.fields = <<"VTI", "QDS">>
        /\ c.checked = TRUE /\ c.space = 2 /\ c.spaceInSequence = 2
        /\ c.needs = 2 /\ c.addressAlways = FALSE /\ c.indexed = "sequence"
    BY DEF StepPositionInformation, Monitored, Class
  <2> SUFFICES Laid(c)
    OBVIOUS
  <2> HIDE DEF c
  <2>2. SizeOf(c) = 2 /\ Writable(c)
    BY <2>1, Widths DEF SizeOf, WidthOf, Writable
  <2>3. ElementSize[c.type] = 2
    BY <2>1, ElementSizes
  <2>4. Regular(c)
    BY <2>1, <2>2, <2>3 DEF Regular
  <2> QED
    BY <2>2, <2>4, RegularLaid
<1>6. Laid(StepPositionWithCP24Time2a)
  <2> DEFINE c == StepPositionWithCP24Time2a
  <2>1. /\ c.type = "M_ST_TA_1" /\ c.fields = <<"VTI", "QDS", "CP24">>
        /\ c.checked = TRUE /\ c.space = 5 /\ c.spaceInSequence = 5
        /\ c.needs = 5 /\ c.addressAlways = FALSE /\ c.indexed = "sequence"
    BY DEF StepPositionWithCP24Time2a, Monitored, Class
  <2> SUFFICES Laid(c)
    OBVIOUS
  <2> HIDE DEF c
  <2>2. SizeOf(c) = 5 /\ Writable(c)
    BY <2>1, Widths DEF SizeOf, WidthOf, Writable
  <2>3. ElementSize[c.type] = 5
    BY <2>1, ElementSizes
  <2>4. Regular(c)
    BY <2>1, <2>2, <2>3 DEF Regular
  <2> QED
    BY <2>2, <2>4, RegularLaid
<1>7. Laid(BitString32)
  <2> DEFINE c == BitString32
  <2>1. /\ c.type = "M_BO_NA_1" /\ c.fields = <<"BSI", "QDS">>
        /\ c.checked = TRUE /\ c.space = 5 /\ c.spaceInSequence = 5
        /\ c.needs = 5 /\ c.addressAlways = FALSE /\ c.indexed = "sequence"
    BY DEF BitString32, Monitored, Class
  <2> SUFFICES Laid(c)
    OBVIOUS
  <2> HIDE DEF c
  <2>2. SizeOf(c) = 5 /\ Writable(c)
    BY <2>1, Widths DEF SizeOf, WidthOf, Writable
  <2>3. ElementSize[c.type] = 5
    BY <2>1, ElementSizes
  <2>4. Regular(c)
    BY <2>1, <2>2, <2>3 DEF Regular
  <2> QED
    BY <2>2, <2>4, RegularLaid
<1>8. Laid(Bitstring32WithCP24Time2a)
  <2> DEFINE c == Bitstring32WithCP24Time2a
  <2>1. /\ c.type = "M_BO_TA_1" /\ c.fields = <<"BSI", "QDS", "CP24">>
        /\ c.checked = TRUE /\ c.space = 8 /\ c.spaceInSequence = 8
        /\ c.needs = 8 /\ c.addressAlways = FALSE /\ c.indexed = "sequence"
    BY DEF Bitstring32WithCP24Time2a, Monitored, Class
  <2> SUFFICES Laid(c)
    OBVIOUS
  <2> HIDE DEF c
  <2>2. SizeOf(c) = 8 /\ Writable(c)
    BY <2>1, Widths DEF SizeOf, WidthOf, Writable
  <2>3. ElementSize[c.type] = 8
    BY <2>1, ElementSizes
  <2>4. Regular(c)
    BY <2>1, <2>2, <2>3 DEF Regular
  <2> QED
    BY <2>2, <2>4, RegularLaid
<1>9. Laid(MeasuredValueNormalized)
  <2> DEFINE c == MeasuredValueNormalized
  <2>1. /\ c.type = "M_ME_NA_1" /\ c.fields = <<"NVA", "QDS">>
        /\ c.checked = TRUE /\ c.space = 3 /\ c.spaceInSequence = 3
        /\ c.needs = 3 /\ c.addressAlways = FALSE /\ c.indexed = "sequence"
    BY DEF MeasuredValueNormalized, Monitored, Class
  <2> SUFFICES Laid(c)
    OBVIOUS
  <2> HIDE DEF c
  <2>2. SizeOf(c) = 3 /\ Writable(c)
    BY <2>1, Widths DEF SizeOf, WidthOf, Writable
  <2>3. ElementSize[c.type] = 3
    BY <2>1, ElementSizes
  <2>4. Regular(c)
    BY <2>1, <2>2, <2>3 DEF Regular
  <2> QED
    BY <2>2, <2>4, RegularLaid
<1> QED
  BY <1>1, <1>2, <1>3, <1>4, <1>5, <1>6, <1>7, <1>8, <1>9 DEF Classes1

LEMMA Laid2 == \A c \in Classes2 : Laid(c)
<1>1. Laid(MeasuredValueNormalizedWithCP24Time2a)
  <2> DEFINE c == MeasuredValueNormalizedWithCP24Time2a
  <2>1. /\ c.type = "M_ME_TA_1" /\ c.fields = <<"NVA", "QDS", "CP24">>
        /\ c.checked = TRUE /\ c.space = 6 /\ c.spaceInSequence = 6
        /\ c.needs = 6 /\ c.addressAlways = FALSE /\ c.indexed = "sequence"
    BY DEF MeasuredValueNormalizedWithCP24Time2a, Monitored, Class
  <2> SUFFICES Laid(c)
    OBVIOUS
  <2> HIDE DEF c
  <2>2. SizeOf(c) = 6 /\ Writable(c)
    BY <2>1, Widths DEF SizeOf, WidthOf, Writable
  <2>3. ElementSize[c.type] = 6
    BY <2>1, ElementSizes
  <2>4. Regular(c)
    BY <2>1, <2>2, <2>3 DEF Regular
  <2> QED
    BY <2>2, <2>4, RegularLaid
<1>2. Laid(MeasuredValueScaled)
  <2> DEFINE c == MeasuredValueScaled
  <2>1. /\ c.type = "M_ME_NB_1" /\ c.fields = <<"SVA", "QDS">>
        /\ c.checked = TRUE /\ c.space = 3 /\ c.spaceInSequence = 3
        /\ c.needs = 3 /\ c.addressAlways = FALSE /\ c.indexed = "sequence"
    BY DEF MeasuredValueScaled, Monitored, Class
  <2> SUFFICES Laid(c)
    OBVIOUS
  <2> HIDE DEF c
  <2>2. SizeOf(c) = 3 /\ Writable(c)
    BY <2>1, Widths DEF SizeOf, WidthOf, Writable
  <2>3. ElementSize[c.type] = 3
    BY <2>1, ElementSizes
  <2>4. Regular(c)
    BY <2>1, <2>2, <2>3 DEF Regular
  <2> QED
    BY <2>2, <2>4, RegularLaid
<1>3. Laid(MeasuredValueScaledWithCP24Time2a)
  <2> DEFINE c == MeasuredValueScaledWithCP24Time2a
  <2>1. /\ c.type = "M_ME_TB_1" /\ c.fields = <<"SVA", "QDS", "CP24">>
        /\ c.checked = TRUE /\ c.space = 6 /\ c.spaceInSequence = 6
        /\ c.needs = 6 /\ c.addressAlways = FALSE /\ c.indexed = "sequence"
    BY DEF MeasuredValueScaledWithCP24Time2a, Monitored, Class
  <2> SUFFICES Laid(c)
    OBVIOUS
  <2> HIDE DEF c
  <2>2. SizeOf(c) = 6 /\ Writable(c)
    BY <2>1, Widths DEF SizeOf, WidthOf, Writable
  <2>3. ElementSize[c.type] = 6
    BY <2>1, ElementSizes
  <2>4. Regular(c)
    BY <2>1, <2>2, <2>3 DEF Regular
  <2> QED
    BY <2>2, <2>4, RegularLaid
<1>4. Laid(MeasuredValueShort)
  <2> DEFINE c == MeasuredValueShort
  <2>1. /\ c.type = "M_ME_NC_1" /\ c.fields = <<"R32", "QDS">>
        /\ c.checked = TRUE /\ c.space = 5 /\ c.spaceInSequence = 5
        /\ c.needs = 5 /\ c.addressAlways = FALSE /\ c.indexed = "sequence"
    BY DEF MeasuredValueShort, Monitored, Class
  <2> SUFFICES Laid(c)
    OBVIOUS
  <2> HIDE DEF c
  <2>2. SizeOf(c) = 5 /\ Writable(c)
    BY <2>1, Widths DEF SizeOf, WidthOf, Writable
  <2>3. ElementSize[c.type] = 5
    BY <2>1, ElementSizes
  <2>4. Regular(c)
    BY <2>1, <2>2, <2>3 DEF Regular
  <2> QED
    BY <2>2, <2>4, RegularLaid
<1>5. Laid(MeasuredValueShortWithCP24Time2a)
  <2> DEFINE c == MeasuredValueShortWithCP24Time2a
  <2>1. /\ c.type = "M_ME_TC_1" /\ c.fields = <<"R32", "QDS", "CP24">>
        /\ c.checked = TRUE /\ c.space = 8 /\ c.spaceInSequence = 8
        /\ c.needs = 8 /\ c.addressAlways = FALSE /\ c.indexed = "sequence"
    BY DEF MeasuredValueShortWithCP24Time2a, Monitored, Class
  <2> SUFFICES Laid(c)
    OBVIOUS
  <2> HIDE DEF c
  <2>2. SizeOf(c) = 8 /\ Writable(c)
    BY <2>1, Widths DEF SizeOf, WidthOf, Writable
  <2>3. ElementSize[c.type] = 8
    BY <2>1, ElementSizes
  <2>4. Regular(c)
    BY <2>1, <2>2, <2>3 DEF Regular
  <2> QED
    BY <2>2, <2>4, RegularLaid
<1>6. Laid(IntegratedTotals)
  <2> DEFINE c == IntegratedTotals
  <2>1. /\ c.type = "M_IT_NA_1" /\ c.fields = <<"BCR">>
        /\ c.checked = TRUE /\ c.space = 5 /\ c.spaceInSequence = 5
        /\ c.needs = 5 /\ c.addressAlways = FALSE /\ c.indexed = "sequence"
    BY DEF IntegratedTotals, Monitored, Class
  <2> SUFFICES Laid(c)
    OBVIOUS
  <2> HIDE DEF c
  <2>2. SizeOf(c) = 5 /\ Writable(c)
    BY <2>1, Widths DEF SizeOf, WidthOf, Writable
  <2>3. ElementSize[c.type] = 5
    BY <2>1, ElementSizes
  <2>4. Regular(c)
    BY <2>1, <2>2, <2>3 DEF Regular
  <2> QED
    BY <2>2, <2>4, RegularLaid
<1>7. Laid(IntegratedTotalsWithCP24Time2a)
  <2> DEFINE c == IntegratedTotalsWithCP24Time2a
  <2>1. /\ c.type = "M_IT_TA_1" /\ c.fields = <<"BCR", "CP24">>
        /\ c.checked = TRUE /\ c.space = 8 /\ c.spaceInSequence = 8
        /\ c.needs = 8 /\ c.addressAlways = FALSE /\ c.indexed = "sequence"
    BY DEF IntegratedTotalsWithCP24Time2a, Monitored, Class
  <2> SUFFICES Laid(c)
    OBVIOUS
  <2> HIDE DEF c
  <2>2. SizeOf(c) = 8 /\ Writable(c)
    BY <2>1, Widths DEF SizeOf, WidthOf, Writable
  <2>3. ElementSize[c.type] = 8
    BY <2>1, ElementSizes
  <2>4. Regular(c)
    BY <2>1, <2>2, <2>3 DEF Regular
  <2> QED
    BY <2>2, <2>4, RegularLaid
<1>8. Laid(EventOfProtectionEquipment)
  <2> DEFINE c == EventOfProtectionEquipment
  <2>1. /\ c.type = "M_EP_TA_1" /\ c.fields = <<"SEP", "CP16", "CP24">>
        /\ c.checked = TRUE /\ c.space = 6 /\ c.spaceInSequence = 6
        /\ c.needs = 6 /\ c.addressAlways = FALSE /\ c.indexed = "sequence"
    BY DEF EventOfProtectionEquipment, Monitored, Class
  <2> SUFFICES Laid(c)
    OBVIOUS
  <2> HIDE DEF c
  <2>2. SizeOf(c) = 6 /\ Writable(c)
    BY <2>1, Widths DEF SizeOf, WidthOf, Writable
  <2>3. ElementSize[c.type] = 6
    BY <2>1, ElementSizes
  <2>4. Regular(c)
    BY <2>1, <2>2, <2>3 DEF Regular
  <2> QED
    BY <2>2, <2>4, RegularLaid
<1>9. Laid(PackedStartEventsOfProtectionEquipment)
  <2> DEFINE c == PackedStartEventsOfProtectionEquipment
  <2>1. /\ c.type = "M_EP_TB_1" /\ c.fields = <<"SPE", "QDP", "CP16", "CP24">>
        /\ c.checked = TRUE /\ c.space = 7 /\ c.spaceInSequence = 7
        /\ c.needs = 7 /\ c.addressAlways = FALSE /\ c.indexed = "sequence"
    BY DEF PackedStartEventsOfProtectionEquipment, Monitored, Class
  <2> SUFFICES Laid(c)
    OBVIOUS
  <2> HIDE DEF c
  <2>2. SizeOf(c) = 7 /\ Writable(c)
    BY <2>1, Widths DEF SizeOf, WidthOf, Writable
  <2>3. ElementSize[c.type] = 7
    BY <2>1, ElementSizes
  <2>4. Regular(c)
    BY <2>1, <2>2, <2>3 DEF Regular
  <2> QED
    BY <2>2, <2>4, RegularLaid
<1> QED
  BY <1>1, <1>2, <1>3, <1>4, <1>5, <1>6, <1>7, <1>8, <1>9 DEF Classes2

LEMMA Laid3 == \A c \in Classes3 : Laid(c)
<1>1. Laid(PackedOutputCircuitInfo)
  <2> DEFINE c == PackedOutputCircuitInfo
  <2>1. /\ c.type = "M_EP_TC_1" /\ c.fields = <<"OCI", "QDP", "CP16", "CP24">>
        /\ c.checked = TRUE /\ c.space = 7 /\ c.spaceInSequence = 7
        /\ c.needs = 7 /\ c.addressAlways = FALSE /\ c.indexed = "sequence"
    BY DEF PackedOutputCircuitInfo, Monitored, Class
  <2> SUFFICES Laid(c)
    OBVIOUS
  <2> HIDE DEF c
  <2>2. SizeOf(c) = 7 /\ Writable(c)
    BY <2>1, Widths DEF SizeOf, WidthOf, Writable
  <2>3. ElementSize[c.type] = 7
    BY <2>1, ElementSizes
  <2>4. Regular(c)
    BY <2>1, <2>2, <2>3 DEF Regular
  <2> QED
    BY <2>2, <2>4, RegularLaid
<1>2. Laid(PackedSinglePointWithSCD)
  <2> DEFINE c == PackedSinglePointWithSCD
  <2>1. /\ c.type = "M_PS_NA_1" /\ c.fields = <<"SCD", "QDS">>
        /\ c.checked = TRUE /\ c.space = 5 /\ c.spaceInSequence = 5
        /\ c.needs = 5 /\ c.addressAlways = FALSE /\ c.indexed = "sequence"
    BY DEF PackedSinglePointWithSCD, Monitored, Class
  <2> SUFFICES Laid(c)
    OBVIOUS
  <2> HIDE DEF c
  <2>2. SizeOf(c) = 5 /\ Writable(c)
    BY <2>1, Widths DEF SizeOf, WidthOf, Writable
  <2>3. ElementSize[c.type] = 5
    BY <2>1, ElementSizes
  <2>4. Regular(c)
    BY <2>1, <2>2, <2>3 DEF Regular
  <2> QED
    BY <2>2, <2>4, RegularLaid
<1>3. Laid(MeasuredValueNormalizedWithoutQuality)
  <2> DEFINE c == MeasuredValueNormalizedWithoutQuality
  <2>1. /\ c.type = "M_ME_ND_1" /\ c.fields = <<"NVA">>
        /\ c.checked = TRUE /\ c.space = 2 /\ c.spaceInSequence = 2
        /\ c.needs = 2 /\ c.addressAlways = FALSE /\ c.indexed = "sequence"
    BY DEF MeasuredValueNormalizedWithoutQuality, Monitored, Class
  <2> SUFFICES Laid(c)
    OBVIOUS
  <2> HIDE DEF c
  <2>2. SizeOf(c) = 2 /\ Writable(c)
    BY <2>1, Widths DEF SizeOf, WidthOf, Writable
  <2>3. ElementSize[c.type] = 2
    BY <2>1, ElementSizes
  <2>4. Regular(c)
    BY <2>1, <2>2, <2>3 DEF Regular
  <2> QED
    BY <2>2, <2>4, RegularLaid
<1>4. Laid(SinglePointWithCP56Time2a)
  <2> DEFINE c == SinglePointWithCP56Time2a
  <2>1. /\ c.type = "M_SP_TB_1" /\ c.fields = <<"SIQ", "CP56">>
        /\ c.checked = TRUE /\ c.space = 8 /\ c.spaceInSequence = 8
        /\ c.needs = 8 /\ c.addressAlways = FALSE /\ c.indexed = "sequence"
    BY DEF SinglePointWithCP56Time2a, Monitored, Class
  <2> SUFFICES Laid(c)
    OBVIOUS
  <2> HIDE DEF c
  <2>2. SizeOf(c) = 8 /\ Writable(c)
    BY <2>1, Widths DEF SizeOf, WidthOf, Writable
  <2>3. ElementSize[c.type] = 8
    BY <2>1, ElementSizes
  <2>4. Regular(c)
    BY <2>1, <2>2, <2>3 DEF Regular
  <2> QED
    BY <2>2, <2>4, RegularLaid
<1>5. Laid(DoublePointWithCP56Time2a)
  <2> DEFINE c == DoublePointWithCP56Time2a
  <2>1. /\ c.type = "M_DP_TB_1" /\ c.fields = <<"DIQ", "CP56">>
        /\ c.checked = TRUE /\ c.space = 8 /\ c.spaceInSequence = 8
        /\ c.needs = 8 /\ c.addressAlways = FALSE /\ c.indexed = "sequence"
    BY DEF DoublePointWithCP56Time2a, Monitored, Class
  <2> SUFFICES Laid(c)
    OBVIOUS
  <2> HIDE DEF c
  <2>2. SizeOf(c) = 8 /\ Writable(c)
    BY <2>1, Widths DEF SizeOf, WidthOf, Writable
  <2>3. ElementSize[c.type] = 8
    BY <2>1, ElementSizes
  <2>4. Regular(c)
    BY <2>1, <2>2, <2>3 DEF Regular
  <2> QED
    BY <2>2, <2>4, RegularLaid
<1>6. Laid(StepPositionWithCP56Time2a)
  <2> DEFINE c == StepPositionWithCP56Time2a
  <2>1. /\ c.type = "M_ST_TB_1" /\ c.fields = <<"VTI", "QDS", "CP56">>
        /\ c.checked = TRUE /\ c.space = 9 /\ c.spaceInSequence = 9
        /\ c.needs = 9 /\ c.addressAlways = FALSE /\ c.indexed = "sequence"
    BY DEF StepPositionWithCP56Time2a, Monitored, Class
  <2> SUFFICES Laid(c)
    OBVIOUS
  <2> HIDE DEF c
  <2>2. SizeOf(c) = 9 /\ Writable(c)
    BY <2>1, Widths DEF SizeOf, WidthOf, Writable
  <2>3. ElementSize[c.type] = 9
    BY <2>1, ElementSizes
  <2>4. Regular(c)
    BY <2>1, <2>2, <2>3 DEF Regular
  <2> QED
    BY <2>2, <2>4, RegularLaid
<1>7. Laid(Bitstring32WithCP56Time2a)
  <2> DEFINE c == Bitstring32WithCP56Time2a
  <2>1. /\ c.type = "M_BO_TB_1" /\ c.fields = <<"BSI", "QDS", "CP56">>
        /\ c.checked = TRUE /\ c.space = 12 /\ c.spaceInSequence = 12
        /\ c.needs = 12 /\ c.addressAlways = FALSE /\ c.indexed = "sequence"
    BY DEF Bitstring32WithCP56Time2a, Monitored, Class
  <2> SUFFICES Laid(c)
    OBVIOUS
  <2> HIDE DEF c
  <2>2. SizeOf(c) = 12 /\ Writable(c)
    BY <2>1, Widths DEF SizeOf, WidthOf, Writable
  <2>3. ElementSize[c.type] = 12
    BY <2>1, ElementSizes
  <2>4. Regular(c)
    BY <2>1, <2>2, <2>3 DEF Regular
  <2> QED
    BY <2>2, <2>4, RegularLaid
<1>8. Laid(MeasuredValueNormalizedWithCP56Time2a)
  <2> DEFINE c == MeasuredValueNormalizedWithCP56Time2a
  <2>1. /\ c.type = "M_ME_TD_1" /\ c.fields = <<"NVA", "QDS", "CP56">>
        /\ c.checked = TRUE /\ c.space = 10 /\ c.spaceInSequence = 10
        /\ c.needs = 10 /\ c.addressAlways = FALSE /\ c.indexed = "sequence"
    BY DEF MeasuredValueNormalizedWithCP56Time2a, Monitored, Class
  <2> SUFFICES Laid(c)
    OBVIOUS
  <2> HIDE DEF c
  <2>2. SizeOf(c) = 10 /\ Writable(c)
    BY <2>1, Widths DEF SizeOf, WidthOf, Writable
  <2>3. ElementSize[c.type] = 10
    BY <2>1, ElementSizes
  <2>4. Regular(c)
    BY <2>1, <2>2, <2>3 DEF Regular
  <2> QED
    BY <2>2, <2>4, RegularLaid
<1>9. Laid(MeasuredValueScaledWithCP56Time2a)
  <2> DEFINE c == MeasuredValueScaledWithCP56Time2a
  <2>1. /\ c.type = "M_ME_TE_1" /\ c.fields = <<"SVA", "QDS", "CP56">>
        /\ c.checked = TRUE /\ c.space = 10 /\ c.spaceInSequence = 10
        /\ c.needs = 10 /\ c.addressAlways = FALSE /\ c.indexed = "sequence"
    BY DEF MeasuredValueScaledWithCP56Time2a, Monitored, Class
  <2> SUFFICES Laid(c)
    OBVIOUS
  <2> HIDE DEF c
  <2>2. SizeOf(c) = 10 /\ Writable(c)
    BY <2>1, Widths DEF SizeOf, WidthOf, Writable
  <2>3. ElementSize[c.type] = 10
    BY <2>1, ElementSizes
  <2>4. Regular(c)
    BY <2>1, <2>2, <2>3 DEF Regular
  <2> QED
    BY <2>2, <2>4, RegularLaid
<1> QED
  BY <1>1, <1>2, <1>3, <1>4, <1>5, <1>6, <1>7, <1>8, <1>9 DEF Classes3

LEMMA Laid4 == \A c \in Classes4 : Laid(c)
<1>1. Laid(MeasuredValueShortWithCP56Time2a)
  <2> DEFINE c == MeasuredValueShortWithCP56Time2a
  <2>1. /\ c.type = "M_ME_TF_1" /\ c.fields = <<"R32", "QDS", "CP56">>
        /\ c.checked = TRUE /\ c.space = 12 /\ c.spaceInSequence = 12
        /\ c.needs = 12 /\ c.addressAlways = FALSE /\ c.indexed = "sequence"
    BY DEF MeasuredValueShortWithCP56Time2a, Monitored, Class
  <2> SUFFICES Laid(c)
    OBVIOUS
  <2> HIDE DEF c
  <2>2. SizeOf(c) = 12 /\ Writable(c)
    BY <2>1, Widths DEF SizeOf, WidthOf, Writable
  <2>3. ElementSize[c.type] = 12
    BY <2>1, ElementSizes
  <2>4. Regular(c)
    BY <2>1, <2>2, <2>3 DEF Regular
  <2> QED
    BY <2>2, <2>4, RegularLaid
<1>2. Laid(IntegratedTotalsWithCP56Time2a)
  <2> DEFINE c == IntegratedTotalsWithCP56Time2a
  <2>1. /\ c.type = "M_IT_TB_1" /\ c.fields = <<"BCR", "CP56">>
        /\ c.checked = TRUE /\ c.space = 12 /\ c.spaceInSequence = 12
        /\ c.needs = 12 /\ c.addressAlways = FALSE /\ c.indexed = "sequence"
    BY DEF IntegratedTotalsWithCP56Time2a, Monitored, Class
  <2> SUFFICES Laid(c)
    OBVIOUS
  <2> HIDE DEF c
  <2>2. SizeOf(c) = 12 /\ Writable(c)
    BY <2>1, Widths DEF SizeOf, WidthOf, Writable
  <2>3. ElementSize[c.type] = 12
    BY <2>1, ElementSizes
  <2>4. Regular(c)
    BY <2>1, <2>2, <2>3 DEF Regular
  <2> QED
    BY <2>2, <2>4, RegularLaid
<1>3. Laid(EventOfProtectionEquipmentWithCP56Time2a)
  <2> DEFINE c == EventOfProtectionEquipmentWithCP56Time2a
  <2>1. /\ c.type = "M_EP_TD_1" /\ c.fields = <<"SEP", "CP16", "CP56">>
        /\ c.checked = TRUE /\ c.space = 10 /\ c.spaceInSequence = 10
        /\ c.needs = 10 /\ c.addressAlways = FALSE /\ c.indexed = "sequence"
    BY DEF EventOfProtectionEquipmentWithCP56Time2a, Monitored, Class
  <2> SUFFICES Laid(c)
    OBVIOUS
  <2> HIDE DEF c
  <2>2. SizeOf(c) = 10 /\ Writable(c)
    BY <2>1, Widths DEF SizeOf, WidthOf, Writable
  <2>3. ElementSize[c.type] = 10
    BY <2>1, ElementSizes
  <2>4. Regular(c)
    BY <2>1, <2>2, <2>3 DEF Regular
  <2> QED
    BY <2>2, <2>4, RegularLaid
<1>4. Laid(PackedStartEventsOfProtectionEquipmentWithCP56Time2a)
  <2> DEFINE c == PackedStartEventsOfProtectionEquipmentWithCP56Time2a
  <2>1. /\ c.type = "M_EP_TE_1" /\ c.fields = <<"SPE", "QDP", "CP16", "CP56">>
        /\ c.checked = TRUE /\ c.space = 11 /\ c.spaceInSequence = 11
        /\ c.needs = 11 /\ c.addressAlways = FALSE /\ c.indexed = "sequence"
    BY DEF PackedStartEventsOfProtectionEquipmentWithCP56Time2a, Monitored, Class
  <2> SUFFICES Laid(c)
    OBVIOUS
  <2> HIDE DEF c
  <2>2. SizeOf(c) = 11 /\ Writable(c)
    BY <2>1, Widths DEF SizeOf, WidthOf, Writable
  <2>3. ElementSize[c.type] = 11
    BY <2>1, ElementSizes
  <2>4. Regular(c)
    BY <2>1, <2>2, <2>3 DEF Regular
  <2> QED
    BY <2>2, <2>4, RegularLaid
<1>5. Laid(PackedOutputCircuitInfoWithCP56Time2a)
  <2> DEFINE c == PackedOutputCircuitInfoWithCP56Time2a
  <2>1. /\ c.type = "M_EP_TF_1" /\ c.fields = <<"OCI", "QDP", "CP16", "CP56">>
        /\ c.checked = TRUE /\ c.space = 11 /\ c.spaceInSequence = 11
        /\ c.needs = 11 /\ c.addressAlways = FALSE /\ c.indexed = "sequence"
    BY DEF PackedOutputCircuitInfoWithCP56Time2a, Monitored, Class
  <2> SUFFICES Laid(c)
    OBVIOUS
  <2> HIDE DEF c
  <2>2. SizeOf(c) = 11 /\ Writable(c)
    BY <2>1, Widths DEF SizeOf, WidthOf, Writable
  <2>3. ElementSize[c.type] = 11
    BY <2>1, ElementSizes
  <2>4. Regular(c)
    BY <2>1, <2>2, <2>3 DEF Regular
  <2> QED
    BY <2>2, <2>4, RegularLaid
<1>6. Laid(FileDirectory)
  <2> DEFINE c == FileDirectory
  <2>1. /\ c.type = "F_DR_TA_1" /\ c.fields = <<"NOF", "LOF", "SOF", "CP56">>
        /\ c.checked = TRUE /\ c.space = 13 /\ c.spaceInSequence = 13
        /\ c.needs = 13 /\ c.addressAlways = TRUE /\ c.indexed = "sequence"
    BY DEF FileDirectory, Monitored, Class
  <2> SUFFICES Laid(c)
    OBVIOUS
  <2> HIDE DEF c
  <2>2. SizeOf(c) = 13 /\ Writable(c)
    BY <2>1, Widths DEF SizeOf, WidthOf, Writable
  <2>3. ElementSize[c.type] = 13
    BY <2>1, ElementSizes
  <2>4. HeaderLength + SizeOfIOA + SizeOf(c) <= MaxSizeOfASDU
    BY <2>2, Parameters
  <2>5. /\ SizeOf(c) \in Nat /\ c.needs \in Int /\ c.needs <= SizeOf(c)
        /\ c.indexed # "first" =>
             ElementSize[c.type] = SizeOf(c) /\ SizeOf(c) >= 1 /\ c.needs >= 1
    BY <2>1, <2>2, <2>3
  <2>6. /\ c.addressAlways \in BOOLEAN /\ c.indexed \in {"sequence", "object", "first"}
        /\ c.addressAlways = TRUE => SizeOf(c) >= 3 /\ c.indexed = "sequence"
    <3>1. c.addressAlways \in BOOLEAN
      BY <2>1, Zenon
    <3> QED
      BY <2>1, <2>2, <3>1
  <2>7. /\ c.checked = TRUE /\ c.space \in Nat /\ c.space >= SizeOf(c)
        /\ c.spaceInSequence \in Nat
        /\ c.spaceInSequence >= SizeOf(c) \/ c.type = "C_TS_TA_1"
    BY <2>1, <2>2
  <2> QED
    BY <2>2, <2>4, <2>5, <2>6, <2>7 DEF Laid
<1>7. Laid(SingleCommand)
  <2> DEFINE c == SingleCommand
  <2>1. /\ c.type = "C_SC_NA_1" /\ c.fields = <<"SCO">>
        /\ c.checked = TRUE /\ c.space = 1 /\ c.spaceInSequence = 1
        /\ c.needs = 1 /\ c.addressAlways = FALSE /\ c.indexed = "object"
    BY DEF SingleCommand, Control, Class
  <2> SUFFICES Laid(c)
    OBVIOUS
  <2> HIDE DEF c
  <2>2. SizeOf(c) = 1 /\ Writable(c)
    BY <2>1, Widths DEF SizeOf, WidthOf, Writable
  <2>3. ElementSize[c.type] = 1
    BY <2>1, ElementSizes
  <2>4. Regular(c)
    BY <2>1, <2>2, <2>3 DEF Regular
  <2> QED
    BY <2>2, <2>4, RegularLaid
<1>8. Laid(DoubleCommand)
  <2> DEFINE c == DoubleCommand
  <2>1. /\ c.type = "C_DC_NA_1" /\ c.fields = <<"DCO">>
        /\ c.checked = TRUE /\ c.space = 1 /\ c.spaceInSequence = 1
        /\ c.needs = 1 /\ c.addressAlways = FALSE /\ c.indexed = "object"
    BY DEF DoubleCommand, Control, Class
  <2> SUFFICES Laid(c)
    OBVIOUS
  <2> HIDE DEF c
  <2>2. SizeOf(c) = 1 /\ Writable(c)
    BY <2>1, Widths DEF SizeOf, WidthOf, Writable
  <2>3. ElementSize[c.type] = 1
    BY <2>1, ElementSizes
  <2>4. Regular(c)
    BY <2>1, <2>2, <2>3 DEF Regular
  <2> QED
    BY <2>2, <2>4, RegularLaid
<1>9. Laid(StepCommand)
  <2> DEFINE c == StepCommand
  <2>1. /\ c.type = "C_RC_NA_1" /\ c.fields = <<"RCO">>
        /\ c.checked = TRUE /\ c.space = 1 /\ c.spaceInSequence = 1
        /\ c.needs = 1 /\ c.addressAlways = FALSE /\ c.indexed = "object"
    BY DEF StepCommand, Control, Class
  <2> SUFFICES Laid(c)
    OBVIOUS
  <2> HIDE DEF c
  <2>2. SizeOf(c) = 1 /\ Writable(c)
    BY <2>1, Widths DEF SizeOf, WidthOf, Writable
  <2>3. ElementSize[c.type] = 1
    BY <2>1, ElementSizes
  <2>4. Regular(c)
    BY <2>1, <2>2, <2>3 DEF Regular
  <2> QED
    BY <2>2, <2>4, RegularLaid
<1> QED
  BY <1>1, <1>2, <1>3, <1>4, <1>5, <1>6, <1>7, <1>8, <1>9 DEF Classes4

LEMMA Laid5 == \A c \in Classes5 : Laid(c)
<1>1. Laid(SetpointCommandNormalized)
  <2> DEFINE c == SetpointCommandNormalized
  <2>1. /\ c.type = "C_SE_NA_1" /\ c.fields = <<"NVA", "QOS">>
        /\ c.checked = TRUE /\ c.space = 3 /\ c.spaceInSequence = 3
        /\ c.needs = 3 /\ c.addressAlways = FALSE /\ c.indexed = "object"
    BY DEF SetpointCommandNormalized, Control, Class
  <2> SUFFICES Laid(c)
    OBVIOUS
  <2> HIDE DEF c
  <2>2. SizeOf(c) = 3 /\ Writable(c)
    BY <2>1, Widths DEF SizeOf, WidthOf, Writable
  <2>3. ElementSize[c.type] = 3
    BY <2>1, ElementSizes
  <2>4. Regular(c)
    BY <2>1, <2>2, <2>3 DEF Regular
  <2> QED
    BY <2>2, <2>4, RegularLaid
<1>2. Laid(SetpointCommandScaled)
  <2> DEFINE c == SetpointCommandScaled
  <2>1. /\ c.type = "C_SE_NB_1" /\ c.fields = <<"SVA", "QOS">>
        /\ c.checked = TRUE /\ c.space = 3 /\ c.spaceInSequence = 3
        /\ c.needs = 3 /\ c.addressAlways = FALSE /\ c.indexed = "object"
    BY DEF SetpointCommandScaled, Control, Class
  <2> SUFFICES Laid(c)
    OBVIOUS
  <2> HIDE DEF c
  <2>2. SizeOf(c) = 3 /\ Writable(c)
    BY <2>1, Widths DEF SizeOf, WidthOf, Writable
  <2>3. ElementSize[c.type] = 3
    BY <2>1, ElementSizes
  <2>4. Regular(c)
    BY <2>1, <2>2, <2>3 DEF Regular
  <2> QED
    BY <2>2, <2>4, RegularLaid
<1>3. Laid(SetpointCommandShort)
  <2> DEFINE c == SetpointCommandShort
  <2>1. /\ c.type = "C_SE_NC_1" /\ c.fields = <<"R32", "QOS">>
        /\ c.checked = TRUE /\ c.space = 5 /\ c.spaceInSequence = 5
        /\ c.needs = 5 /\ c.addressAlways = FALSE /\ c.indexed = "object"
    BY DEF SetpointCommandShort, Control, Class
  <2> SUFFICES Laid(c)
    OBVIOUS
  <2> HIDE DEF c
  <2>2. SizeOf(c) = 5 /\ Writable(c)
    BY <2>1, Widths DEF SizeOf, WidthOf, Writable
  <2>3. ElementSize[c.type] = 5
    BY <2>1, ElementSizes
  <2>4. Regular(c)
    BY <2>1, <2>2, <2>3 DEF Regular
  <2> QED
    BY <2>2, <2>4, RegularLaid
<1>4. Laid(Bitstring32Command)
  <2> DEFINE c == Bitstring32Command
  <2>1. /\ c.type = "C_BO_NA_1" /\ c.fields = <<"BSI">>
        /\ c.checked = TRUE /\ c.space = 5 /\ c.spaceInSequence = 5
        /\ c.needs = 4 /\ c.addressAlways = FALSE /\ c.indexed = "object"
    BY DEF Bitstring32Command, Control, Class
  <2> SUFFICES Laid(c)
    OBVIOUS
  <2> HIDE DEF c
  <2>2. SizeOf(c) = 4 /\ Writable(c)
    BY <2>1, Widths DEF SizeOf, WidthOf, Writable
  <2>3. ElementSize[c.type] = 4
    BY <2>1, ElementSizes
  <2>4. HeaderLength + SizeOfIOA + SizeOf(c) <= MaxSizeOfASDU
    BY <2>2, Parameters
  <2>5. /\ SizeOf(c) \in Nat /\ c.needs \in Int /\ c.needs <= SizeOf(c)
        /\ c.indexed # "first" =>
             ElementSize[c.type] = SizeOf(c) /\ SizeOf(c) >= 1 /\ c.needs >= 1
    BY <2>1, <2>2, <2>3
  <2>6. /\ c.addressAlways \in BOOLEAN /\ c.indexed \in {"sequence", "object", "first"}
        /\ c.addressAlways = TRUE => SizeOf(c) >= 3 /\ c.indexed = "sequence"
    BY <2>1, <2>2
  <2>7. /\ c.checked = TRUE /\ c.space \in Nat /\ c.space >= SizeOf(c)
        /\ c.spaceInSequence \in Nat
        /\ c.spaceInSequence >= SizeOf(c) \/ c.type = "C_TS_TA_1"
    BY <2>1, <2>2
  <2> QED
    BY <2>2, <2>4, <2>5, <2>6, <2>7 DEF Laid
<1>5. Laid(SingleCommandWithCP56Time2a)
  <2> DEFINE c == SingleCommandWithCP56Time2a
  <2>1. /\ c.type = "C_SC_TA_1" /\ c.fields = <<"SCO", "CP56">>
        /\ c.checked = TRUE /\ c.space = 8 /\ c.spaceInSequence = 8
        /\ c.needs = 8 /\ c.addressAlways = FALSE /\ c.indexed = "object"
    BY DEF SingleCommandWithCP56Time2a, Control, Class
  <2> SUFFICES Laid(c)
    OBVIOUS
  <2> HIDE DEF c
  <2>2. SizeOf(c) = 8 /\ Writable(c)
    BY <2>1, Widths DEF SizeOf, WidthOf, Writable
  <2>3. ElementSize[c.type] = 8
    BY <2>1, ElementSizes
  <2>4. Regular(c)
    BY <2>1, <2>2, <2>3 DEF Regular
  <2> QED
    BY <2>2, <2>4, RegularLaid
<1>6. Laid(DoubleCommandWithCP56Time2a)
  <2> DEFINE c == DoubleCommandWithCP56Time2a
  <2>1. /\ c.type = "C_DC_TA_1" /\ c.fields = <<"DCO", "CP56">>
        /\ c.checked = TRUE /\ c.space = 8 /\ c.spaceInSequence = 8
        /\ c.needs = 8 /\ c.addressAlways = FALSE /\ c.indexed = "object"
    BY DEF DoubleCommandWithCP56Time2a, Control, Class
  <2> SUFFICES Laid(c)
    OBVIOUS
  <2> HIDE DEF c
  <2>2. SizeOf(c) = 8 /\ Writable(c)
    BY <2>1, Widths DEF SizeOf, WidthOf, Writable
  <2>3. ElementSize[c.type] = 8
    BY <2>1, ElementSizes
  <2>4. Regular(c)
    BY <2>1, <2>2, <2>3 DEF Regular
  <2> QED
    BY <2>2, <2>4, RegularLaid
<1>7. Laid(StepCommandWithCP56Time2a)
  <2> DEFINE c == StepCommandWithCP56Time2a
  <2>1. /\ c.type = "C_RC_TA_1" /\ c.fields = <<"RCO", "CP56">>
        /\ c.checked = TRUE /\ c.space = 8 /\ c.spaceInSequence = 8
        /\ c.needs = 8 /\ c.addressAlways = FALSE /\ c.indexed = "object"
    BY DEF StepCommandWithCP56Time2a, Control, Class
  <2> SUFFICES Laid(c)
    OBVIOUS
  <2> HIDE DEF c
  <2>2. SizeOf(c) = 8 /\ Writable(c)
    BY <2>1, Widths DEF SizeOf, WidthOf, Writable
  <2>3. ElementSize[c.type] = 8
    BY <2>1, ElementSizes
  <2>4. Regular(c)
    BY <2>1, <2>2, <2>3 DEF Regular
  <2> QED
    BY <2>2, <2>4, RegularLaid
<1>8. Laid(SetpointCommandNormalizedWithCP56Time2a)
  <2> DEFINE c == SetpointCommandNormalizedWithCP56Time2a
  <2>1. /\ c.type = "C_SE_TA_1" /\ c.fields = <<"NVA", "QOS", "CP56">>
        /\ c.checked = TRUE /\ c.space = 10 /\ c.spaceInSequence = 10
        /\ c.needs = 10 /\ c.addressAlways = FALSE /\ c.indexed = "object"
    BY DEF SetpointCommandNormalizedWithCP56Time2a, Control, Class
  <2> SUFFICES Laid(c)
    OBVIOUS
  <2> HIDE DEF c
  <2>2. SizeOf(c) = 10 /\ Writable(c)
    BY <2>1, Widths DEF SizeOf, WidthOf, Writable
  <2>3. ElementSize[c.type] = 10
    BY <2>1, ElementSizes
  <2>4. Regular(c)
    BY <2>1, <2>2, <2>3 DEF Regular
  <2> QED
    BY <2>2, <2>4, RegularLaid
<1>9. Laid(SetpointCommandScaledWithCP56Time2a)
  <2> DEFINE c == SetpointCommandScaledWithCP56Time2a
  <2>1. /\ c.type = "C_SE_TB_1" /\ c.fields = <<"SVA", "QOS", "CP56">>
        /\ c.checked = TRUE /\ c.space = 10 /\ c.spaceInSequence = 10
        /\ c.needs = 10 /\ c.addressAlways = FALSE /\ c.indexed = "object"
    BY DEF SetpointCommandScaledWithCP56Time2a, Control, Class
  <2> SUFFICES Laid(c)
    OBVIOUS
  <2> HIDE DEF c
  <2>2. SizeOf(c) = 10 /\ Writable(c)
    BY <2>1, Widths DEF SizeOf, WidthOf, Writable
  <2>3. ElementSize[c.type] = 10
    BY <2>1, ElementSizes
  <2>4. Regular(c)
    BY <2>1, <2>2, <2>3 DEF Regular
  <2> QED
    BY <2>2, <2>4, RegularLaid
<1> QED
  BY <1>1, <1>2, <1>3, <1>4, <1>5, <1>6, <1>7, <1>8, <1>9 DEF Classes5

LEMMA Laid6 == \A c \in Classes6 : Laid(c)
<1>1. Laid(SetpointCommandShortWithCP56Time2a)
  <2> DEFINE c == SetpointCommandShortWithCP56Time2a
  <2>1. /\ c.type = "C_SE_TC_1" /\ c.fields = <<"R32", "QOS", "CP56">>
        /\ c.checked = TRUE /\ c.space = 12 /\ c.spaceInSequence = 12
        /\ c.needs = 12 /\ c.addressAlways = FALSE /\ c.indexed = "object"
    BY DEF SetpointCommandShortWithCP56Time2a, Control, Class
  <2> SUFFICES Laid(c)
    OBVIOUS
  <2> HIDE DEF c
  <2>2. SizeOf(c) = 12 /\ Writable(c)
    BY <2>1, Widths DEF SizeOf, WidthOf, Writable
  <2>3. ElementSize[c.type] = 12
    BY <2>1, ElementSizes
  <2>4. Regular(c)
    BY <2>1, <2>2, <2>3 DEF Regular
  <2> QED
    BY <2>2, <2>4, RegularLaid
<1>2. Laid(Bitstring32CommandWithCP56Time2a)
  <2> DEFINE c == Bitstring32CommandWithCP56Time2a
  <2>1. /\ c.type = "C_BO_TA_1" /\ c.fields = <<"BSI", "CP56">>
        /\ c.checked = TRUE /\ c.space = 12 /\ c.spaceInSequence = 12
        /\ c.needs = 11 /\ c.addressAlways = FALSE /\ c.indexed = "object"
    BY DEF Bitstring32CommandWithCP56Time2a, Control, Class
  <2> SUFFICES Laid(c)
    OBVIOUS
  <2> HIDE DEF c
  <2>2. SizeOf(c) = 11 /\ Writable(c)
    BY <2>1, Widths DEF SizeOf, WidthOf, Writable
  <2>3. ElementSize[c.type] = 11
    BY <2>1, ElementSizes
  <2>4. HeaderLength + SizeOfIOA + SizeOf(c) <= MaxSizeOfASDU
    BY <2>2, Parameters
  <2>5. /\ SizeOf(c) \in Nat /\ c.needs \in Int /\ c.needs <= SizeOf(c)
        /\ c.indexed # "first" =>
             ElementSize[c.type] = SizeOf(c) /\ SizeOf(c) >= 1 /\ c.needs >= 1
    BY <2>1, <2>2, <2>3
  <2>6. /\ c.addressAlways \in BOOLEAN /\ c.indexed \in {"sequence", "object", "first"}
        /\ c.addressAlways = TRUE => SizeOf(c) >= 3 /\ c.indexed = "sequence"
    BY <2>1, <2>2
  <2>7. /\ c.checked = TRUE /\ c.space \in Nat /\ c.space >= SizeOf(c)
        /\ c.spaceInSequence \in Nat
        /\ c.spaceInSequence >= SizeOf(c) \/ c.type = "C_TS_TA_1"
    BY <2>1, <2>2
  <2> QED
    BY <2>2, <2>4, <2>5, <2>6, <2>7 DEF Laid
<1>3. Laid(ParameterActivation)
  <2> DEFINE c == ParameterActivation
  <2>1. /\ c.type = "P_AC_NA_1" /\ c.fields = <<"QPA">>
        /\ c.checked = TRUE /\ c.space = 1 /\ c.spaceInSequence = 1
        /\ c.needs = 1 /\ c.addressAlways = FALSE /\ c.indexed = "object"
    BY DEF ParameterActivation, Control, Class
  <2> SUFFICES Laid(c)
    OBVIOUS
  <2> HIDE DEF c
  <2>2. SizeOf(c) = 1 /\ Writable(c)
    BY <2>1, Widths DEF SizeOf, WidthOf, Writable
  <2>3. ElementSize[c.type] = 1
    BY <2>1, ElementSizes
  <2>4. Regular(c)
    BY <2>1, <2>2, <2>3 DEF Regular
  <2> QED
    BY <2>2, <2>4, RegularLaid
<1>4. Laid(ParameterNormalizedValue)
  <2> DEFINE c == ParameterNormalizedValue
  <2>1. /\ c.type = "P_ME_NA_1" /\ c.fields = <<"NVA", "QDS">>
        /\ c.checked = TRUE /\ c.space = 3 /\ c.spaceInSequence = 3
        /\ c.needs = 3 /\ c.addressAlways = FALSE /\ c.indexed = "object"
    BY DEF ParameterNormalizedValue, Parameter, MeasuredValueNormalized, Monitored, Class
  <2> SUFFICES Laid(c)
    OBVIOUS
  <2> HIDE DEF c
  <2>2. SizeOf(c) = 3 /\ Writable(c)
    BY <2>1, Widths DEF SizeOf, WidthOf, Writable
  <2>3. ElementSize[c.type] = 3
    BY <2>1, ElementSizes
  <2>4. Regular(c)
    BY <2>1, <2>2, <2>3 DEF Regular
  <2> QED
    BY <2>2, <2>4, RegularLaid
<1>5. Laid(ParameterScaledValue)
  <2> DEFINE c == ParameterScaledValue
  <2>1. /\ c.type = "P_ME_NB_1" /\ c.fields = <<"SVA", "QDS">>
        /\ c.checked = TRUE /\ c.space = 3 /\ c.spaceInSequence = 3
        /\ c.needs = 3 /\ c.addressAlways = FALSE /\ c.indexed = "object"
    BY DEF ParameterScaledValue, Parameter, MeasuredValueScaled, Monitored, Class
  <2> SUFFICES Laid(c)
    OBVIOUS
  <2> HIDE DEF c
  <2>2. SizeOf(c) = 3 /\ Writable(c)
    BY <2>1, Widths DEF SizeOf, WidthOf, Writable
  <2>3. ElementSize[c.type] = 3
    BY <2>1, ElementSizes
  <2>4. Regular(c)
    BY <2>1, <2>2, <2>3 DEF Regular
  <2> QED
    BY <2>2, <2>4, RegularLaid
<1>6. Laid(ParameterFloatValue)
  <2> DEFINE c == ParameterFloatValue
  <2>1. /\ c.type = "P_ME_NC_1" /\ c.fields = <<"R32", "QDS">>
        /\ c.checked = TRUE /\ c.space = 5 /\ c.spaceInSequence = 5
        /\ c.needs = 5 /\ c.addressAlways = FALSE /\ c.indexed = "object"
    BY DEF ParameterFloatValue, Parameter, MeasuredValueShort, Monitored, Class
  <2> SUFFICES Laid(c)
    OBVIOUS
  <2> HIDE DEF c
  <2>2. SizeOf(c) = 5 /\ Writable(c)
    BY <2>1, Widths DEF SizeOf, WidthOf, Writable
  <2>3. ElementSize[c.type] = 5
    BY <2>1, ElementSizes
  <2>4. Regular(c)
    BY <2>1, <2>2, <2>3 DEF Regular
  <2> QED
    BY <2>2, <2>4, RegularLaid
<1>7. Laid(EndOfInitialization)
  <2> DEFINE c == EndOfInitialization
  <2>1. /\ c.type = "M_EI_NA_1" /\ c.fields = <<"COI">>
        /\ c.checked = TRUE /\ c.space = 1 /\ c.spaceInSequence = 1
        /\ c.needs = 1 /\ c.addressAlways = FALSE /\ c.indexed = "first"
    BY DEF EndOfInitialization, Single, Class
  <2> SUFFICES Laid(c)
    OBVIOUS
  <2> HIDE DEF c
  <2>2. SizeOf(c) = 1 /\ Writable(c)
    BY <2>1, Widths DEF SizeOf, WidthOf, Writable
  <2>3. Regular(c)
    BY <2>1, <2>2 DEF Regular
  <2> QED
    BY <2>2, <2>3, RegularLaid
<1>8. Laid(InterrogationCommand)
  <2> DEFINE c == InterrogationCommand
  <2>1. /\ c.type = "C_IC_NA_1" /\ c.fields = <<"QOI">>
        /\ c.checked = TRUE /\ c.space = 1 /\ c.spaceInSequence = 1
        /\ c.needs = 1 /\ c.addressAlways = FALSE /\ c.indexed = "first"
    BY DEF InterrogationCommand, Single, Class
  <2> SUFFICES Laid(c)
    OBVIOUS
  <2> HIDE DEF c
  <2>2. SizeOf(c) = 1 /\ Writable(c)
    BY <2>1, Widths DEF SizeOf, WidthOf, Writable
  <2>3. Regular(c)
    BY <2>1, <2>2 DEF Regular
  <2> QED
    BY <2>2, <2>3, RegularLaid
<1>9. Laid(CounterInterrogationCommand)
  <2> DEFINE c == CounterInterrogationCommand
  <2>1. /\ c.type = "C_CI_NA_1" /\ c.fields = <<"QCC">>
        /\ c.checked = TRUE /\ c.space = 1 /\ c.spaceInSequence = 1
        /\ c.needs = 1 /\ c.addressAlways = FALSE /\ c.indexed = "first"
    BY DEF CounterInterrogationCommand, Single, Class
  <2> SUFFICES Laid(c)
    OBVIOUS
  <2> HIDE DEF c
  <2>2. SizeOf(c) = 1 /\ Writable(c)
    BY <2>1, Widths DEF SizeOf, WidthOf, Writable
  <2>3. Regular(c)
    BY <2>1, <2>2 DEF Regular
  <2> QED
    BY <2>2, <2>3, RegularLaid
<1> QED
  BY <1>1, <1>2, <1>3, <1>4, <1>5, <1>6, <1>7, <1>8, <1>9 DEF Classes6

LEMMA Laid7 == \A c \in Classes7 : Laid(c)
<1>1. Laid(ReadCommand)
  <2> DEFINE c == ReadCommand
  <2>1. /\ c.type = "C_RD_NA_1" /\ c.fields = <<>>
        /\ c.checked = TRUE /\ c.space = 0 /\ c.spaceInSequence = 0
        /\ c.needs = 0 /\ c.addressAlways = FALSE /\ c.indexed = "first"
    BY DEF ReadCommand, Single, Class
  <2> SUFFICES Laid(c)
    OBVIOUS
  <2> HIDE DEF c
  <2>2. SizeOf(c) = 0 /\ Writable(c)
    BY <2>1, Widths DEF SizeOf, WidthOf, Writable
  <2>3. Regular(c)
    BY <2>1, <2>2 DEF Regular
  <2> QED
    BY <2>2, <2>3, RegularLaid
<1>2. Laid(ClockSynchronizationCommand)
  <2> DEFINE c == ClockSynchronizationCommand
  <2>1. /\ c.type = "C_CS_NA_1" /\ c.fields = <<"CP56">>
        /\ c.checked = TRUE /\ c.space = 7 /\ c.spaceInSequence = 7
        /\ c.needs = 7 /\ c.addressAlways = FALSE /\ c.indexed = "first"
    BY DEF ClockSynchronizationCommand, Single, Class
  <2> SUFFICES Laid(c)
    OBVIOUS
  <2> HIDE DEF c
  <2>2. SizeOf(c) = 7 /\ Writable(c)
    BY <2>1, Widths DEF SizeOf, WidthOf, Writable
  <2>3. Regular(c)
    BY <2>1, <2>2 DEF Regular
  <2> QED
    BY <2>2, <2>3, RegularLaid
<1>3. Laid(TestCommand)
  <2> DEFINE c == TestCommand
  <2>1. /\ c.type = "C_TS_NA_1" /\ c.fields = <<"FBP">>
        /\ c.checked = TRUE /\ c.space = 2 /\ c.spaceInSequence = 2
        /\ c.needs = 2 - SizeOfIOA /\ c.addressAlways = FALSE /\ c.indexed = "first"
    BY DEF TestCommand, Single, Class
  <2> SUFFICES Laid(c)
    OBVIOUS
  <2> HIDE DEF c
  <2>2. SizeOf(c) = 2 /\ Writable(c)
    BY <2>1, Widths DEF SizeOf, WidthOf, Writable
  <2>3. HeaderLength + SizeOfIOA + SizeOf(c) <= MaxSizeOfASDU
    BY <2>2, Parameters
  <2>4. /\ SizeOf(c) \in Nat /\ c.needs \in Int /\ c.needs <= SizeOf(c)
        /\ c.indexed # "first" =>
             ElementSize[c.type] = SizeOf(c) /\ SizeOf(c) >= 1 /\ c.needs >= 1
    BY <2>1, <2>2, Parameters
  <2>5. /\ c.addressAlways \in BOOLEAN /\ c.indexed \in {"sequence", "object", "first"}
        /\ c.addressAlways = TRUE => SizeOf(c) >= 3 /\ c.indexed = "sequence"
    BY <2>1, <2>2
  <2>6. /\ c.checked = TRUE /\ c.space \in Nat /\ c.space >= SizeOf(c)
        /\ c.spaceInSequence \in Nat
        /\ c.spaceInSequence >= SizeOf(c) \/ c.type = "C_TS_TA_1"
    BY <2>1, <2>2
  <2> QED
    BY <2>2, <2>3, <2>4, <2>5, <2>6 DEF Laid
<1>4. Laid(ResetProcessCommand)
  <2> DEFINE c == ResetProcessCommand
  <2>1. /\ c.type = "C_RP_NA_1" /\ c.fields = <<"QRP">>
        /\ c.checked = TRUE /\ c.space = 1 /\ c.spaceInSequence = 1
        /\ c.needs = 1 /\ c.addressAlways = FALSE /\ c.indexed = "first"
    BY DEF ResetProcessCommand, Single, Class
  <2> SUFFICES Laid(c)
    OBVIOUS
  <2> HIDE DEF c
  <2>2. SizeOf(c) = 1 /\ Writable(c)
    BY <2>1, Widths DEF SizeOf, WidthOf, Writable
  <2>3. Regular(c)
    BY <2>1, <2>2 DEF Regular
  <2> QED
    BY <2>2, <2>3, RegularLaid
<1>5. Laid(DelayAcquisitionCommand)
  <2> DEFINE c == DelayAcquisitionCommand
  <2>1. /\ c.type = "C_CD_NA_1" /\ c.fields = <<"CP16">>
        /\ c.checked = TRUE /\ c.space = 2 /\ c.spaceInSequence = 2
        /\ c.needs = 2 /\ c.addressAlways = FALSE /\ c.indexed = "first"
    BY DEF DelayAcquisitionCommand, Single, Class
  <2> SUFFICES Laid(c)
    OBVIOUS
  <2> HIDE DEF c
  <2>2. SizeOf(c) = 2 /\ Writable(c)
    BY <2>1, Widths DEF SizeOf, WidthOf, Writable
  <2>3. Regular(c)
    BY <2>1, <2>2 DEF Regular
  <2> QED
    BY <2>2, <2>3, RegularLaid
<1>6. Laid(TestCommandWithCP56Time2a)
  <2> DEFINE c == TestCommandWithCP56Time2a
  <2>1. /\ c.type = "C_TS_TA_1" /\ c.fields = <<"TSC", "CP56">>
        /\ c.checked = TRUE /\ c.space = 9 /\ c.spaceInSequence = 2
        /\ c.needs = 9 - SizeOfIOA /\ c.addressAlways = FALSE /\ c.indexed = "first"
    BY DEF TestCommandWithCP56Time2a, Single, Class
  <2> SUFFICES Laid(c)
    OBVIOUS
  <2> HIDE DEF c
  <2>2. SizeOf(c) = 9 /\ Writable(c)
    BY <2>1, Widths DEF SizeOf, WidthOf, Writable
  <2>3. HeaderLength + SizeOfIOA + SizeOf(c) <= MaxSizeOfASDU
    BY <2>2, Parameters
  <2>4. /\ SizeOf(c) \in Nat /\ c.needs \in Int /\ c.needs <= SizeOf(c)
        /\ c.indexed # "first" =>
             ElementSize[c.type] = SizeOf(c) /\ SizeOf(c) >= 1 /\ c.needs >= 1
    BY <2>1, <2>2, Parameters
  <2>5. /\ c.addressAlways \in BOOLEAN /\ c.indexed \in {"sequence", "object", "first"}
        /\ c.addressAlways = TRUE => SizeOf(c) >= 3 /\ c.indexed = "sequence"
    BY <2>1, <2>2
  <2>6. /\ c.checked = TRUE /\ c.space \in Nat /\ c.space >= SizeOf(c)
        /\ c.spaceInSequence \in Nat
        /\ c.spaceInSequence >= SizeOf(c) \/ c.type = "C_TS_TA_1"
    BY <2>1, <2>2
  <2> QED
    BY <2>2, <2>3, <2>4, <2>5, <2>6 DEF Laid
<1>7. Laid(FileReady)
  <2> DEFINE c == FileReady
  <2>1. /\ c.type = "F_FR_NA_1" /\ c.fields = <<"NOF", "LOF", "FRQ">>
        /\ c.checked = TRUE /\ c.space = 1 /\ c.spaceInSequence = 1
        /\ c.needs = 6 /\ c.addressAlways = FALSE /\ c.indexed = "first"
    BY DEF FileReady, Single, Class
  <2> SUFFICES Laid(c)
    OBVIOUS
  <2> HIDE DEF c
  <2>2. SizeOf(c) = 6 /\ Writable(c)
    BY <2>1, Widths DEF SizeOf, WidthOf, Writable
  <2>3. HeaderLength + SizeOfIOA + SizeOf(c) <= MaxSizeOfASDU
    BY <2>2, Parameters
  <2>4. /\ SizeOf(c) \in Nat /\ c.needs \in Int /\ c.needs <= SizeOf(c)
        /\ c.indexed # "first" =>
             ElementSize[c.type] = SizeOf(c) /\ SizeOf(c) >= 1 /\ c.needs >= 1
    BY <2>1, <2>2, Parameters
  <2>5. /\ c.addressAlways \in BOOLEAN /\ c.indexed \in {"sequence", "object", "first"}
        /\ c.addressAlways = TRUE => SizeOf(c) >= 3 /\ c.indexed = "sequence"
    BY <2>1, <2>2
  <2>6. c.type \in FileTypes
    BY <2>1 DEF FileTypes
  <2> QED
    BY <2>2, <2>3, <2>4, <2>5, <2>6 DEF Laid
<1>8. Laid(SectionReady)
  <2> DEFINE c == SectionReady
  <2>1. /\ c.type = "F_SR_NA_1" /\ c.fields = <<"NOF", "NOS", "LOF", "SRQ">>
        /\ c.checked = TRUE /\ c.space = 1 /\ c.spaceInSequence = 1
        /\ c.needs = 7 /\ c.addressAlways = FALSE /\ c.indexed = "first"
    BY DEF SectionReady, Single, Class
  <2> SUFFICES Laid(c)
    OBVIOUS
  <2> HIDE DEF c
  <2>2. SizeOf(c) = 7 /\ Writable(c)
    BY <2>1, Widths DEF SizeOf, WidthOf, Writable
  <2>3. HeaderLength + SizeOfIOA + SizeOf(c) <= MaxSizeOfASDU
    BY <2>2, Parameters
  <2>4. /\ SizeOf(c) \in Nat /\ c.needs \in Int /\ c.needs <= SizeOf(c)
        /\ c.indexed # "first" =>
             ElementSize[c.type] = SizeOf(c) /\ SizeOf(c) >= 1 /\ c.needs >= 1
    BY <2>1, <2>2, Parameters
  <2>5. /\ c.addressAlways \in BOOLEAN /\ c.indexed \in {"sequence", "object", "first"}
        /\ c.addressAlways = TRUE => SizeOf(c) >= 3 /\ c.indexed = "sequence"
    BY <2>1, <2>2
  <2>6. c.type \in FileTypes
    BY <2>1 DEF FileTypes
  <2> QED
    BY <2>2, <2>3, <2>4, <2>5, <2>6 DEF Laid
<1>9. Laid(FileCallOrSelect)
  <2> DEFINE c == FileCallOrSelect
  <2>1. /\ c.type = "F_SC_NA_1" /\ c.fields = <<"NOF", "NOS", "SCQ">>
        /\ c.checked = TRUE /\ c.space = 1 /\ c.spaceInSequence = 1
        /\ c.needs = 4 /\ c.addressAlways = FALSE /\ c.indexed = "first"
    BY DEF FileCallOrSelect, Single, Class
  <2> SUFFICES Laid(c)
    OBVIOUS
  <2> HIDE DEF c
  <2>2. SizeOf(c) = 4 /\ Writable(c)
    BY <2>1, Widths DEF SizeOf, WidthOf, Writable
  <2>3. HeaderLength + SizeOfIOA + SizeOf(c) <= MaxSizeOfASDU
    BY <2>2, Parameters
  <2>4. /\ SizeOf(c) \in Nat /\ c.needs \in Int /\ c.needs <= SizeOf(c)
        /\ c.indexed # "first" =>
             ElementSize[c.type] = SizeOf(c) /\ SizeOf(c) >= 1 /\ c.needs >= 1
    BY <2>1, <2>2, Parameters
  <2>5. /\ c.addressAlways \in BOOLEAN /\ c.indexed \in {"sequence", "object", "first"}
        /\ c.addressAlways = TRUE => SizeOf(c) >= 3 /\ c.indexed = "sequence"
    BY <2>1, <2>2
  <2>6. c.type \in FileTypes
    BY <2>1 DEF FileTypes
  <2> QED
    BY <2>2, <2>3, <2>4, <2>5, <2>6 DEF Laid
<1> QED
  BY <1>1, <1>2, <1>3, <1>4, <1>5, <1>6, <1>7, <1>8, <1>9 DEF Classes7

LEMMA Laid8 == \A c \in Classes8 : Laid(c)
<1>1. Laid(FileLastSegmentOrSection)
  <2> DEFINE c == FileLastSegmentOrSection
  <2>1. /\ c.type = "F_LS_NA_1" /\ c.fields = <<"NOF", "NOS", "LSQ", "CHS">>
        /\ c.checked = FALSE /\ c.space = 5 /\ c.spaceInSequence = 5
        /\ c.needs = 5 /\ c.addressAlways = FALSE /\ c.indexed = "first"
    BY DEF FileLastSegmentOrSection, Single, Class
  <2> SUFFICES Laid(c)
    OBVIOUS
  <2> HIDE DEF c
  <2>2. SizeOf(c) = 5 /\ Writable(c)
    BY <2>1, Widths DEF SizeOf, WidthOf, Writable
  <2>3. HeaderLength + SizeOfIOA + SizeOf(c) <= MaxSizeOfASDU
    BY <2>2, Parameters
  <2>4. /\ SizeOf(c) \in Nat /\ c.needs \in Int /\ c.needs <= SizeOf(c)
        /\ c.indexed # "first" =>
             ElementSize[c.type] = SizeOf(c) /\ SizeOf(c) >= 1 /\ c.needs >= 1
    BY <2>1, <2>2, Parameters
  <2>5. /\ c.addressAlways \in BOOLEAN /\ c.indexed \in {"sequence", "object", "first"}
        /\ c.addressAlways = TRUE => SizeOf(c) >= 3 /\ c.indexed = "sequence"
    BY <2>1, <2>2
  <2>6. c.type \in FileTypes
    BY <2>1 DEF FileTypes
  <2> QED
    BY <2>2, <2>3, <2>4, <2>5, <2>6 DEF Laid
<1>2. Laid(FileACK)
  <2> DEFINE c == FileACK
  <2>1. /\ c.type = "F_AF_NA_1" /\ c.fields = <<"NOF", "NOS", "AFQ">>
        /\ c.checked = FALSE /\ c.space = 4 /\ c.spaceInSequence = 4
        /\ c.needs = 4 /\ c.addressAlways = FALSE /\ c.indexed = "first"
    BY DEF FileACK, Single, Class
  <2> SUFFICES Laid(c)
    OBVIOUS
  <2> HIDE DEF c
  <2>2. SizeOf(c) = 4 /\ Writable(c)
    BY <2>1, Widths DEF SizeOf, WidthOf, Writable
  <2>3. HeaderLength + SizeOfIOA + SizeOf(c) <= MaxSizeOfASDU
    BY <2>2, Parameters
  <2>4. /\ SizeOf(c) \in Nat /\ c.needs \in Int /\ c.needs <= SizeOf(c)
        /\ c.indexed # "first" =>
             ElementSize[c.type] = SizeOf(c) /\ SizeOf(c) >= 1 /\ c.needs >= 1
    BY <2>1, <2>2, Parameters
  <2>5. /\ c.addressAlways \in BOOLEAN /\ c.indexed \in {"sequence", "object", "first"}
        /\ c.addressAlways = TRUE => SizeOf(c) >= 3 /\ c.indexed = "sequence"
    BY <2>1, <2>2
  <2>6. c.type \in FileTypes
    BY <2>1 DEF FileTypes
  <2> QED
    BY <2>2, <2>3, <2>4, <2>5, <2>6 DEF Laid
<1>3. Laid(FileSegment)
  <2> DEFINE c == FileSegment
  <2>1. /\ c.type = "F_SG_NA_1" /\ c.fields = <<"NOF", "NOS", "LOS", "SEG">>
        /\ c.checked = FALSE /\ c.space = 4 /\ c.spaceInSequence = 4
        /\ c.needs = 4 /\ c.addressAlways = FALSE /\ c.indexed = "first"
    BY DEF FileSegment, Single, Class
  <2> SUFFICES Laid(c)
    OBVIOUS
  <2> HIDE DEF c
  <2>2. SizeOf(c) = 4 + MaxSegment /\ MaxSegment \in Nat /\ Writable(c)
    BY <2>1, Widths, Parameters DEF SizeOf, WidthOf, Writable, MaxSegment
  <2>3. HeaderLength + SizeOfIOA + SizeOf(c) <= MaxSizeOfASDU
    BY <2>2, Parameters DEF MaxSegment
  <2>4. /\ SizeOf(c) \in Nat /\ c.needs \in Int /\ c.needs <= SizeOf(c)
        /\ c.indexed # "first" =>
             ElementSize[c.type] = SizeOf(c) /\ SizeOf(c) >= 1 /\ c.needs >= 1
    BY <2>1, <2>2, Parameters
  <2>5. /\ c.addressAlways \in BOOLEAN /\ c.indexed \in {"sequence", "object", "first"}
        /\ c.addressAlways = TRUE => SizeOf(c) >= 3 /\ c.indexed = "sequence"
    BY <2>1, <2>2
  <2>6. c.type \in FileTypes
    BY <2>1 DEF FileTypes
  <2> QED
    BY <2>2, <2>3, <2>4, <2>5, <2>6 DEF Laid
<1>4. Laid(QueryLog)
  <2> DEFINE c == QueryLog
  <2>1. /\ c.type = "F_SC_NB_1" /\ c.fields = <<"NOF", "CP56", "CP56">>
        /\ c.checked = TRUE /\ c.space = 16 /\ c.spaceInSequence = 16
        /\ c.needs = 16 /\ c.addressAlways = FALSE /\ c.indexed = "first"
    BY DEF QueryLog, Single, Class
  <2> SUFFICES Laid(c)
    OBVIOUS
  <2> HIDE DEF c
  <2>2. SizeOf(c) = 16 /\ Writable(c)
    BY <2>1, Widths DEF SizeOf, WidthOf, Writable
  <2>3. Regular(c)
    BY <2>1, <2>2 DEF Regular
  <2> QED
    BY <2>2, <2>3, RegularLaid
<1> QED
  BY <1>1, <1>2, <1>3, <1>4 DEF Classes8

LEMMA AllLaid ==
  ASSUME NEW c \in Classes
  PROVE  Laid(c)
<1>1. Classes = Classes1 \cup Classes2 \cup Classes3 \cup Classes4 \cup Classes5 \cup Classes6
                  \cup Classes7 \cup Classes8
  BY DEF Classes, Classes1, Classes2, Classes3, Classes4, Classes5, Classes6, Classes7, Classes8
<1> QED
  BY <1>1, Laid1, Laid2, Laid3, Laid4, Laid5, Laid6, Laid7, Laid8

(***************************************************************************)
(* Elements in a payload                                                   *)
(***************************************************************************)
Octets == Nat \X Nat \X Nat

\* The octets of e are those of p behind the first at.
Stands(p, at, e) == \A b \in 1..Len(e) : p[at + b] = e[b]

\* Where the i-th element ends, in a sequence (q) or not, and where its fields begin.
End(q, s, i) == IF q THEN (IF i = 0 THEN 0 ELSE SizeOfIOA + i * s) ELSE i * (SizeOfIOA + s)
Element(q, c, k) == Encoded(c, k, k = 1 \/ ~q)

\* p holds n elements of class c and nothing else.
Holds(q, c, p, n) ==
  /\ p \in Seq(Octets) /\ Len(p) = End(q, SizeOf(c), n)
  /\ \A k \in 1..n : Stands(p, End(q, SizeOf(c), k - 1), Element(q, c, k))

LEMMA EncodedType ==
  ASSUME NEW c, Writable(c), SizeOf(c) \in Nat, NEW k \in Nat, NEW w \in BOOLEAN
  PROVE  /\ Encoded(c, k, w) \in Seq(Bytes(k))
         /\ Len(Encoded(c, k, w)) = (IF w THEN SizeOfIOA ELSE 0) + SizeOf(c)
         /\ Encoded(c, k, w) = (IF w THEN Address(k) ELSE <<>>) \o Written(c, k, <<>>)
<1> DEFINE h == IF w THEN Address(k) ELSE <<>>
<1>1. h \in Seq(Bytes(k)) /\ Len(h) = IF w THEN SizeOfIOA ELSE 0
  BY AddressType
<1>2. Encoded(c, k, w) = Written(c, k, h)
  BY EncodedIs
<1> HIDE DEF h
<1>3. /\ Written(c, k, h) \in Seq(Bytes(k))
      /\ Len(Written(c, k, h)) = Len(h) + SizeOf(c)
      /\ Written(c, k, h) = h \o Written(c, k, <<>>)
  BY <1>1, WrittenIs
<1>4. /\ Encoded(c, k, w) \in Seq(Bytes(k))
      /\ Len(Encoded(c, k, w)) = (IF w THEN SizeOfIOA ELSE 0) + SizeOf(c)
      /\ Encoded(c, k, w) = h \o Written(c, k, <<>>)
  BY <1>1, <1>2, <1>3
<1> QED
  BY <1>4 DEF h

\* The ends of the elements follow one another.
LEMMA EndNext ==
  ASSUME NEW q \in BOOLEAN, NEW s \in Nat, NEW i \in Nat
  PROVE  /\ End(q, s, i) \in Nat
         /\ End(q, s, i + 1) = End(q, s, i) + (IF i = 0 \/ ~q THEN SizeOfIOA ELSE 0) + s
<1>1. PICK a \in Nat : a = SizeOfIOA
  BY Parameters
<1>2. i * s \in Nat /\ (i + 1) * s = i * s + s
  OBVIOUS
<1>3. i * (a + s) \in Nat /\ (i + 1) * (a + s) = i * (a + s) + (a + s)
  OBVIOUS
<1>4. CASE q
  BY <1>1, <1>2, <1>4 DEF End
<1>5. CASE ~q
  BY <1>1, <1>3, <1>5 DEF End
<1> QED
  BY <1>4, <1>5

LEMMA EndsGrow ==
  ASSUME NEW q \in BOOLEAN, NEW s \in Nat, NEW n \in Nat, NEW k \in 0..n
  PROVE  End(q, s, k) <= End(q, s, n)
<1>1. PICK a \in Nat : a = SizeOfIOA
  BY Parameters
<1>2. ASSUME NEW x \in Nat
      PROVE  k * x <= n * x /\ k * x \in Nat /\ n * x \in Nat
  <2>1. PICK d \in Nat : n = k + d
    <3>1. n - k \in Nat /\ n = k + (n - k)
      OBVIOUS
    <3> QED
      BY <3>1
  <2>2. n * x = k * x + d * x /\ d * x \in Nat /\ k * x \in Nat
    BY <2>1
  <2> QED
    BY <2>2
<1>3. k * s <= n * s /\ k * s \in Nat /\ n * s \in Nat
  BY <1>2
<1>4. k * (a + s) <= n * (a + s) /\ k * (a + s) \in Nat /\ n * (a + s) \in Nat
  <2>1. a + s \in Nat
    OBVIOUS
  <2> QED
    BY <1>2, <2>1
<1>5. CASE q
  BY <1>1, <1>3, <1>5 DEF End
<1>6. CASE ~q
  BY <1>1, <1>4, <1>6 DEF End
<1> QED
  BY <1>5, <1>6

LEMMA HoldsNone ==
  ASSUME NEW q \in BOOLEAN, NEW c, SizeOf(c) \in Nat
  PROVE  Holds(q, c, <<>>, 0)
<1>1. End(q, SizeOf(c), 0) = 0
  <2>1. 0 * (SizeOfIOA + SizeOf(c)) = 0
    BY Parameters
  <2> QED
    BY <2>1 DEF End
<1> QED
  BY <1>1 DEF Holds

\* One element more.
LEMMA HoldsMore ==
  ASSUME NEW q \in BOOLEAN, NEW c, Writable(c), SizeOf(c) \in Nat, NEW p, NEW n \in Nat,
         Holds(q, c, p, n)
  PROVE  Holds(q, c, p \o Encoded(c, n + 1, n = 0 \/ ~q), n + 1)
<1> DEFINE w == n = 0 \/ ~q
<1>1. PICK s \in Nat : s = SizeOf(c)
  OBVIOUS
<1>2. PICK e : e = Encoded(c, n + 1, n = 0 \/ ~q)
  OBVIOUS
<1>3. e \in Seq(Octets) /\ Len(e) = (IF n = 0 \/ ~q THEN SizeOfIOA ELSE 0) + s
  <2>1. w \in BOOLEAN /\ n + 1 \in Nat
    OBVIOUS
  <2>2. Encoded(c, n + 1, w) \in Seq(Bytes(n + 1))
    BY <2>1, EncodedType
  <2>3. Len(Encoded(c, n + 1, w)) = (IF w THEN SizeOfIOA ELSE 0) + SizeOf(c)
    BY <2>1, EncodedType
  <2>4. Bytes(n + 1) \subseteq Octets
    BY DEF Bytes, Octets
  <2>5. e \in Seq(Octets)
    BY <1>2, <2>2, <2>4
  <2> QED
    BY <1>1, <1>2, <2>3, <2>5
<1>4. p \in Seq(Octets) /\ Len(p) = End(q, s, n)
  BY <1>1 DEF Holds
<1>5. PICK r \in Seq(Octets) : r = p \o e /\ Len(r) = Len(p) + Len(e)
  <2>1. p \in Seq(Octets) /\ e \in Seq(Octets)
    BY <1>3, <1>4, Zenon
  <2> QED
    BY <2>1, Joined, Zenon
<1>6. Len(r) = Len(p) + Len(e) /\ Len(p) \in Nat /\ Len(e) \in Nat
  <2>1. p \in Seq(Octets) /\ e \in Seq(Octets)
    BY <1>3, <1>4, Zenon
  <2> QED
    BY <1>5, <2>1
<1>7. Len(r) = End(q, s, n + 1)
  <2>1. /\ End(q, s, n) \in Nat
        /\ End(q, s, n + 1) = End(q, s, n) + (IF n = 0 \/ ~q THEN SizeOfIOA ELSE 0) + s
    BY EndNext
  <2>2. PICK x \in Nat : x = IF n = 0 \/ ~q THEN SizeOfIOA ELSE 0
    BY Parameters
  <2>3. Len(e) = x + s /\ Len(p) = End(q, s, n) /\ End(q, s, n + 1) = End(q, s, n) + x + s
    BY <1>3, <1>4, <2>1, <2>2, Zenon
  <2> QED
    BY <1>6, <2>1, <2>3
<1>8. p \in Seq(Octets) /\ e \in Seq(Octets)
  BY <1>3, <1>4, Zenon
<1>9. /\ \A b \in 1..Len(p) : r[b] = p[b]
      /\ \A b \in 1..Len(e) : r[Len(p) + b] = e[b]
  <2>1. \A b \in 1..Len(p) : (p \o e)[b] = p[b]
    BY <1>8, JoinedAt
  <2>2. \A b \in 1..Len(e) : (p \o e)[Len(p) + b] = e[b]
    BY <1>8, JoinedAt
  <2> QED
    BY <1>5, <2>1, <2>2
<1>10. ASSUME NEW k \in 1..(n + 1)
       PROVE  Stands(r, End(q, s, k - 1), Element(q, c, k))
  <2>1. CASE k = n + 1
    <3>1. Element(q, c, k) = e
      <4>1. (k = 1 \/ ~q) = (n = 0 \/ ~q)
        BY <2>1
      <4> QED
        BY <1>2, <2>1, <4>1 DEF Element
    <3>2. k - 1 = n
      BY <2>1
    <3> QED
      BY <1>4, <1>9, <3>1, <3>2 DEF Stands
  <2>2. CASE k # n + 1
    <3>1. k \in 1..n /\ k - 1 \in Nat /\ k \in Nat
      BY <2>2
    <3>2. Stands(p, End(q, s, k - 1), Element(q, c, k))
      BY <1>1, <3>1 DEF Holds
    <3>3. PICK x : x = Element(q, c, k)
      OBVIOUS
    <3>4. PICK at \in Nat : at = End(q, s, k - 1)
      BY <3>1, EndNext
    <3>5. Len(x) \in Nat /\ at + Len(x) <= Len(p)
      <4>1. (k = 1 \/ ~q) \in BOOLEAN
        OBVIOUS
      <4>2. Len(x) = (IF k = 1 \/ ~q THEN SizeOfIOA ELSE 0) + s
        BY <1>1, <3>1, <3>3, <4>1, EncodedType DEF Element
      <4>3. /\ (k - 1) + 1 = k /\ (k - 1 = 0) = (k = 1)
        BY <3>1
      <4>4. End(q, s, (k - 1) + 1)
              = End(q, s, k - 1) + (IF k - 1 = 0 \/ ~q THEN SizeOfIOA ELSE 0) + s
        BY <3>1, EndNext
      <4>5. End(q, s, k) = at + (IF k = 1 \/ ~q THEN SizeOfIOA ELSE 0) + s
        BY <3>4, <4>3, <4>4
      <4>6. End(q, s, k) <= End(q, s, n)
        BY <3>1, EndsGrow
      <4>7. End(q, s, n) \in Nat
        BY EndNext
      <4> QED
        BY <1>4, <4>2, <4>5, <4>6, <4>7, Parameters
    <3>6. ASSUME NEW b \in 1..Len(x)
          PROVE  r[at + b] = x[b]
      <4>1. p[at + b] = x[b]
        BY <3>2, <3>3, <3>4 DEF Stands
      <4>2. at + b \in 1..Len(p)
        BY <3>5, <1>6
      <4> QED
        BY <1>9, <4>1, <4>2
    <3> QED
      BY <3>3, <3>4, <3>6 DEF Stands
  <2> QED
    BY <2>1, <2>2
<1> QED
  BY <1>1, <1>2, <1>5, <1>7, <1>10 DEF Holds

(***************************************************************************)
(* The ASDU holds the elements that were added, and nothing else           *)
(***************************************************************************)
Filled(c) == /\ c.type = typeId /\ Holds(IsSequence, c, payload, NumberOfElements)
             /\ AsduWithinLimit

\* The addresses go up by the stride, which is one in a sequence of several.
AsduInv ==
  /\ vsq \in 0..255 /\ stride \in {1, 2}
  /\ added \in Seq([type : {c.type : c \in Classes}, address : Nat])
  /\ Len(added) = NumberOfElements
  /\ \A k \in 1..NumberOfElements : added[k].address = FirstAddress + stride * (k - 1)
  /\ IsSequence /\ NumberOfElements > 1 => stride = 1
  /\ NumberOfElements = 0 => payload = <<>>
  /\ NumberOfElements > 0 => \E c \in Classes : Filled(c)

LEMMA CountOf ==
  ASSUME vsq \in 0..255
  PROVE  /\ NumberOfElements \in 0..127 /\ IsSequence \in BOOLEAN
         /\ vsq = NumberOfElements + (IF IsSequence THEN 128 ELSE 0)
BY DEF NumberOfElements, IsSequence

LEMMA CountAgain ==
  ASSUME NEW v \in Nat, NEW n \in 0..127, NEW q \in BOOLEAN, v = n + (IF q THEN 128 ELSE 0)
  PROVE  v \in 0..255 /\ v % 128 = n /\ (v >= 128) = q
OBVIOUS

LEMMA CountNext ==
  ASSUME NEW v \in Nat, NEW n \in 0..126, NEW q \in BOOLEAN, v = n + (IF q THEN 128 ELSE 0)
  PROVE  (v + 1) % 256 = (n + 1) + (IF q THEN 128 ELSE 0)
OBVIOUS

LEMMA AsduStart == AsduInit => AsduInv
<1> SUFFICES ASSUME AsduInit
             PROVE  AsduInv
  OBVIOUS
<1>1. vsq \in 0..255 /\ stride \in {1, 2} /\ payload = <<>> /\ added = <<>>
  BY DEF AsduInit
<1>2. NumberOfElements = 0
  BY DEF AsduInit, NumberOfElements
<1> QED
  BY <1>1, <1>2 DEF AsduInv

\* What the encoder's test leaves room for.
LEMMA StaysWithin ==
  ASSUME NEW c, Laid(c), NEW q \in BOOLEAN, NEW n \in 0..126, NEW size \in Nat,
         HasSpace(c, size, n > 0 /\ q), n = 0 => size = 0
  PROVE  \/ HeaderLength + size + (IF n = 0 \/ ~q THEN SizeOfIOA ELSE 0) + SizeOf(c)
              <= MaxSizeOfASDU
         \/ n > 0 /\ c.type \in FileTypes
         \/ n > 0 /\ q /\ c.type = "C_TS_TA_1"
<1>1. PICK s \in Nat : s = SizeOf(c)
  BY DEF Laid
<1>2. HeaderLength + SizeOfIOA + s <= MaxSizeOfASDU
  BY <1>1 DEF Laid
<1>3. CASE n = 0
  BY <1>1, <1>2, <1>3, Parameters
<1>4. CASE n > 0 /\ c.type \notin FileTypes /\ c.type # "C_TS_TA_1"
  <2>1. /\ c.checked = TRUE /\ c.space \in Nat /\ c.space >= s
        /\ c.spaceInSequence \in Nat /\ c.spaceInSequence >= s
    BY <1>1, <1>4 DEF Laid
  <2>2. (IF n > 0 /\ q THEN c.spaceInSequence ELSE SizeOfIOA + c.space)
          <= MaxSizeOfASDU - size - HeaderLength
    BY <2>1 DEF HasSpace
  <2>3. CASE q
    BY <1>1, <1>4, <2>1, <2>2, <2>3, Parameters
  <2>4. CASE ~q
    BY <1>1, <1>4, <2>1, <2>2, <2>4, Parameters
  <2> QED
    BY <2>3, <2>4
<1>5. CASE n > 0 /\ c.type = "C_TS_TA_1" /\ ~q /\ c.type \notin FileTypes
  <2>1. c.checked = TRUE /\ c.space \in Nat /\ c.space >= s
    BY <1>1, <1>5 DEF Laid
  <2>2. SizeOfIOA + c.space <= MaxSizeOfASDU - size - HeaderLength
    BY <1>5, <2>1 DEF HasSpace
  <2> QED
    BY <1>1, <1>5, <2>1, <2>2, Parameters
<1> QED
  BY <1>3, <1>4, <1>5

\* An object that is taken.
LEMMA Added ==
  ASSUME AsduInv, NEW c \in Classes, AddInformationObject(c),
         Accepts(c, FirstAddress + stride * NumberOfElements)
  PROVE  AsduInv'
<1> DEFINE n == NumberOfElements
           q == IsSequence
           a == FirstAddress + stride * n
           e == Encoded(c, n + 1, n = 0 \/ ~q)
<1>1. /\ n \in 0..127 /\ q \in BOOLEAN /\ vsq = n + (IF q THEN 128 ELSE 0) /\ n < 127
      /\ stride \in {1, 2}
  BY CountOf DEF AsduInv, Accepts
<1>2. /\ typeId' = IF n = 0 THEN c.type ELSE typeId
      /\ payload' = payload \o e
      /\ vsq' = (vsq + 1) % 256
      /\ added' = Append(added, [type |-> c.type, address |-> a])
      /\ stride' = stride
  BY DEF AddInformationObject
<1>3. vsq' \in 0..255 /\ NumberOfElements' = n + 1 /\ IsSequence' = q
  <2>1. vsq' \in Nat /\ vsq' = (n + 1) + (IF q THEN 128 ELSE 0)
    <3>1. (vsq + 1) % 256 = (n + 1) + (IF q THEN 128 ELSE 0)
      <4>1. /\ vsq \in Nat /\ n \in 0..126 /\ q \in BOOLEAN
            /\ vsq = n + (IF q THEN 128 ELSE 0)
        BY <1>1 DEF AsduInv
      <4> HIDE DEF n, q
      <4> QED
        BY <4>1, CountNext
    <3> QED
      BY <1>1, <1>2, <3>1
  <2>2. n + 1 \in 0..127
    BY <1>1
  <2>3. vsq' \in 0..255 /\ vsq' % 128 = n + 1 /\ (vsq' >= 128) = q
    BY <1>1, <2>1, <2>2, CountAgain
  <2> QED
    BY <2>3 DEF NumberOfElements, IsSequence
<1>4. Laid(c) /\ Writable(c) /\ SizeOf(c) \in Nat
  BY AllLaid DEF Laid
<1>5. Holds(q, c, payload, n) /\ typeId' = c.type
  <2>1. CASE n = 0
    <3>1. payload = <<>> /\ Holds(q, c, <<>>, 0)
      BY <1>1, <1>4, <2>1, HoldsNone DEF AsduInv
    <3> QED
      BY <1>2, <2>1, <3>1
  <2>2. CASE n > 0
    <3>1. PICK d \in Classes : d.type = typeId /\ Holds(q, d, payload, n)
      BY <2>2 DEF AsduInv, Filled
    <3>2. typeId = c.type
      BY <2>2 DEF Accepts
    <3>3. d = c
      BY <3>1, <3>2, TypesDiffer
    <3> QED
      BY <1>2, <2>2, <3>1, <3>2, <3>3
  <2> QED
    BY <1>1, <2>1, <2>2
<1>6. Holds(q, c, payload', n + 1)
  <2>1. n \in Nat
    BY <1>1
  <2> QED
    BY <1>1, <1>2, <1>4, <1>5, <2>1, HoldsMore, Zenon
<1>7. AsduWithinLimit'
  <2>1. /\ Len(payload) \in Nat /\ n = 0 => Len(payload) = 0
    <3>1. Len(payload) = End(q, SizeOf(c), n) /\ payload \in Seq(Octets)
      BY <1>5 DEF Holds
    <3> QED
      BY <3>1 DEF AsduInv
  <2>2. HasSpace(c, Len(payload), n > 0 /\ q)
    BY DEF Accepts
  <2>3. \/ HeaderLength + Len(payload) + (IF n = 0 \/ ~q THEN SizeOfIOA ELSE 0) + SizeOf(c)
             <= MaxSizeOfASDU
        \/ n > 0 /\ c.type \in FileTypes
        \/ n > 0 /\ q /\ c.type = "C_TS_TA_1"
    <3>1. n \in 0..126
      BY <1>1
    <3> QED
      BY <1>1, <1>4, <2>1, <2>2, <3>1, StaysWithin
  <2>4. Len(payload') = Len(payload) + (IF n = 0 \/ ~q THEN SizeOfIOA ELSE 0) + SizeOf(c)
    <3>1. /\ Len(payload') = End(q, SizeOf(c), n + 1) /\ Len(payload) = End(q, SizeOf(c), n)
      BY <1>5, <1>6 DEF Holds
    <3>2. End(q, SizeOf(c), n + 1)
            = End(q, SizeOf(c), n) + (IF n = 0 \/ ~q THEN SizeOfIOA ELSE 0) + SizeOf(c)
      <4>1. n \in Nat /\ q \in BOOLEAN /\ SizeOf(c) \in Nat
        BY <1>1, <1>4
      <4> HIDE DEF n, q
      <4> QED
        BY <4>1, EndNext
    <3> QED
      BY <3>1, <3>2
  <2>5. CASE n > 0 /\ c.type \in FileTypes
    BY <1>1, <1>3, <1>5, <2>5 DEF AsduWithinLimit
  <2>6. CASE n > 0 /\ q /\ c.type = "C_TS_TA_1"
    BY <1>1, <1>3, <1>5, <2>6 DEF AsduWithinLimit
  <2>7. CASE HeaderLength + Len(payload) + (IF n = 0 \/ ~q THEN SizeOfIOA ELSE 0) + SizeOf(c)
               <= MaxSizeOfASDU
    <3>1. HeaderLength' = HeaderLength /\ MaxSizeOfASDU' = MaxSizeOfASDU
      BY DEF HeaderLength
    <3>2. HeaderLength + Len(payload') <= MaxSizeOfASDU
      BY <1>1, <1>4, <2>1, <2>4, <2>7, Parameters
    <3> QED
      BY <3>1, <3>2 DEF AsduWithinLimit
  <2> QED
    BY <2>3, <2>5, <2>6, <2>7
<1>8. Filled(c)'
  <2>1. c.type = typeId' /\ Holds(q, c, payload', n + 1)
    BY <1>5, <1>6
  <2> QED
    BY <1>3, <1>7, <2>1 DEF Filled, Holds, Stands, End, Element, Octets
<1>9. /\ added' \in Seq([type : {d.type : d \in Classes}, address : Nat])
      /\ Len(added') = n + 1
      /\ \A k \in 1..(n + 1) : added'[k].address = FirstAddress + stride * (k - 1)
  <2> DEFINE T == [type : {d.type : d \in Classes}, address : Nat]
  <2>1. added \in Seq(T) /\ Len(added) = n
        /\ \A k \in 1..n : added[k].address = FirstAddress + stride * (k - 1)
    BY DEF AsduInv
  <2>2. PICK x \in T : x = [type |-> c.type, address |-> a]
    <3>1. a \in Nat
      <4>1. stride = 1 \/ stride = 2
        BY <1>1
      <4> QED
        BY <1>1, <4>1 DEF FirstAddress
    <3>2. c.type \in {d.type : d \in Classes}
      OBVIOUS
    <3> HIDE DEF a
    <3> QED
      BY <3>1, <3>2
  <2>3. x.address = a
    BY <2>2
  <2> HIDE DEF T
  <2>4. added' = Append(added, x)
    BY <1>2, <2>2
  <2>5. added' \in Seq(T) /\ Len(added') = n + 1
    BY <2>1, <2>2, <2>4
  <2>6. ASSUME NEW k \in 1..(n + 1)
        PROVE  added'[k].address = FirstAddress + stride * (k - 1)
    <3>1. CASE k = n + 1
      <4>1. added'[k] = x
        BY <2>1, <2>4, <3>1
      <4>2. k - 1 = n
        BY <1>1, <3>1
      <4> QED
        BY <2>3, <4>1, <4>2
    <3>2. CASE k # n + 1
      <4>1. k \in 1..n
        BY <1>1, <3>2
      <4>2. added'[k] = added[k]
        BY <2>1, <2>4, <4>1
      <4> QED
        BY <2>1, <4>1, <4>2
    <3> QED
      BY <3>1, <3>2
  <2> QED
    BY <2>5, <2>6 DEF T
<1>10. q /\ n + 1 > 1 => stride = 1
  <2> SUFFICES ASSUME q, n > 0
               PROVE  stride = 1
    BY <1>1
  <2>1. a = added[1].address + n
    BY DEF Accepts
  <2>2. added[1].address = FirstAddress
    <3>1. added[1].address = FirstAddress + stride * (1 - 1)
      BY <1>1 DEF AsduInv
    <3> QED
      BY <1>1, <3>1 DEF FirstAddress
  <2> QED
    BY <1>1, <2>1, <2>2 DEF FirstAddress
<1> QED
  <2>1. /\ Len(added') = NumberOfElements'
        /\ \A k \in 1..NumberOfElements' : added'[k].address = FirstAddress + stride' * (k - 1)
        /\ IsSequence' /\ NumberOfElements' > 1 => stride' = 1
        /\ NumberOfElements' # 0
    <3>1. n + 1 # 0 /\ (q /\ n + 1 > 1 => stride = 1)
      BY <1>1, <1>10
    <3> HIDE DEF n, q, a, e
    <3> QED
      BY <1>2, <1>3, <1>9, <3>1, Zenon
  <2>2. vsq' \in 0..255 /\ stride' \in {1, 2}
    BY <1>1, <1>2, <1>3
  <2> HIDE DEF n, q, a, e
  <2> QED
    BY <1>8, <1>9, <2>1, <2>2 DEF AsduInv, FirstAddress

LEMMA AsduStep == AsduInv /\ [AsduNext]_asduVars => AsduInv'
<1> SUFFICES ASSUME AsduInv, [AsduNext]_asduVars
             PROVE  AsduInv'
  OBVIOUS
<1>1. ASSUME NEW c \in Classes, AddInformationObject(c)
      PROVE  AsduInv'
  <2>1. CASE Accepts(c, FirstAddress + stride * NumberOfElements)
    BY <1>1, <2>1, Added
  <2>2. CASE ~Accepts(c, FirstAddress + stride * NumberOfElements)
    <3>1. /\ payload' = payload /\ vsq' = vsq /\ added' = added /\ stride' = stride
          /\ typeId' = IF NumberOfElements = 0 THEN c.type ELSE typeId
      BY <1>1, <2>2 DEF AddInformationObject
    <3>2. NumberOfElements' = NumberOfElements /\ IsSequence' = IsSequence
      BY <3>1 DEF NumberOfElements, IsSequence
    <3>3. NumberOfElements > 0 => \E d \in Classes : Filled(d)'
      <4> SUFFICES ASSUME NumberOfElements > 0
                   PROVE  \E d \in Classes : Filled(d)'
        OBVIOUS
      <4>1. PICK d \in Classes : Filled(d)
        BY DEF AsduInv
      <4>2. typeId' = typeId
        BY <3>1, CountOf DEF AsduInv
      <4> QED
        BY <3>1, <3>2, <4>1, <4>2 DEF Filled, Holds, Stands, End, Element, Octets, AsduWithinLimit,
           HeaderLength
    <3> QED
      BY <3>1, <3>2, <3>3 DEF AsduInv, FirstAddress
  <2> QED
    BY <2>1, <2>2
<1>2. CASE RemoveAllElements
  <2>1. /\ vsq' = (IF IsSequence THEN 128 ELSE 0) /\ payload' = <<>> /\ added' = <<>>
        /\ stride' = stride
    BY <1>2 DEF RemoveAllElements
  <2>2. vsq' \in 0..255 /\ NumberOfElements' = 0
    BY <2>1 DEF NumberOfElements
  <2> QED
    BY <2>1, <2>2 DEF AsduInv
<1>3. CASE UNCHANGED asduVars
  BY <1>3 DEF asduVars, AsduInv, NumberOfElements, IsSequence, Filled, Holds, Stands, End, Element,
              Octets, AsduWithinLimit, HeaderLength, FirstAddress
<1>4. \A c \in Tried : c \in Classes
  <2>1. \E c \in Classes : c.type # typeId
    <3>1. /\ SinglePointInformation \in Classes /\ DoublePointInformation \in Classes
          /\ SinglePointInformation.type = "M_SP_NA_1" /\ DoublePointInformation.type = "M_DP_NA_1"
      BY DEF Classes, SinglePointInformation, DoublePointInformation, Monitored, Class
    <3> QED
      BY <3>1
  <2> QED
    BY <2>1 DEF Tried
<1> QED
  BY <1>1, <1>2, <1>3, <1>4 DEF AsduNext

(***************************************************************************)
(* What is read from a payload                                             *)
(***************************************************************************)
\* The whole of an element where it stands.
LEMMA ReadWhole ==
  ASSUME NEW c, Laid(c), payload \in Seq(Octets), NEW at \in Nat, NEW w \in BOOLEAN, NEW k \in Nat,
         Stands(payload, at, Encoded(c, k, w)), w \/ SizeOf(c) >= 1,
         at + (IF w THEN SizeOfIOA ELSE 0) + SizeOf(c) <= Len(payload),
         at + c.needs + (IF c.addressAlways THEN SizeOfIOA ELSE IF w THEN SizeOfIOA ELSE 0)
           <= Len(payload)
  PROVE  GetFromBuffer(c, at, w)
           = [address |-> IF w THEN added[k].address ELSE 0, element |-> k]
<1>1. Writable(c) /\ SizeOf(c) \in Nat
  BY DEF Laid
<1>2. PICK size \in Nat : /\ size = (IF w THEN SizeOfIOA ELSE 0) + SizeOf(c) /\ size >= 1
                          /\ at + size <= Len(payload)
  BY <1>1, Parameters
<1>3. Len(Encoded(c, 0, w)) = size
  BY <1>1, <1>2, EncodedType
<1>4. PICK e \in Seq(Bytes(k)) : e = Encoded(c, k, w) /\ Len(e) = size
  BY <1>1, <1>2, EncodedType
<1>5. payload[at + 1][1] = k
  <2>1. payload[at + 1] = e[1] /\ e[1] \in Bytes(k)
    BY <1>2, <1>4 DEF Stands
  <2> QED
    BY <2>1 DEF Bytes
<1>6. SubSeq(payload, at + 1, at + size) = e
  <2>1. \A b \in 1..size : payload[at + b] = e[b]
    BY <1>4 DEF Stands
  <2>2. PICK r : r = SubSeq(payload, at + 1, at + size)
    OBVIOUS
  <2>3. r \in Seq(Octets) /\ Len(r) = size /\ \A b \in 1..size : r[b] = payload[at + b]
    <3>1. at + 1 \in 1..(Len(payload) + 1) /\ at + size \in (at + 1) - 1..Len(payload)
      BY <1>2
    <3>2. (at + size) - (at + 1) + 1 = size
      BY <1>2
    <3>3. \A b \in 1..size : (at + 1) + b - 1 = at + b
      OBVIOUS
    <3>4. r \in Seq(Octets) /\ Len(r) = (at + size) - (at + 1) + 1
      BY <2>2, <3>1, SubSeqProperties
    <3>5. \A b \in 1..(at + size) - (at + 1) + 1 : r[b] = payload[(at + 1) + b - 1]
      BY <2>2, <3>1, SubSeqProperties
    <3> QED
      BY <3>2, <3>3, <3>4, <3>5
  <2>4. \A b \in 1..size : r[b] = e[b]
    BY <2>1, <2>3
  <2> QED
    BY <1>4, <2>2, <2>3, <2>4
<1>7. ~(at + c.needs + (IF c.addressAlways THEN SizeOfIOA ELSE IF w THEN SizeOfIOA ELSE 0)
          > Len(payload))
  <2>1. PICK x \in Int : x = at + c.needs
                             + (IF c.addressAlways THEN SizeOfIOA ELSE IF w THEN SizeOfIOA ELSE 0)
    BY Parameters DEF Laid
  <2>2. PICK y \in Nat : y = Len(payload)
    OBVIOUS
  <2> QED
    BY <2>1, <2>2
<1>8. at + size <= Len(payload) /\ SubSeq(payload, at + 1, at + size) = Encoded(c, k, w)
  BY <1>2, <1>4, <1>6
<1> QED
  BY <1>3, <1>5, <1>7, <1>8, Zenon DEF GetFromBuffer

\* An element without its address is the rest of one with it.
LEMMA StandsBehind ==
  ASSUME NEW c, Writable(c), SizeOf(c) \in Nat, NEW p, NEW at \in Nat, NEW k \in Nat,
         Stands(p, at, Encoded(c, k, TRUE))
  PROVE  Stands(p, at + SizeOfIOA, Encoded(c, k, FALSE))
<1>1. PICK m \in Seq(Bytes(k)) : m = Written(c, k, <<>>)
  <2>1. <<>> \in Seq(Bytes(k))
    OBVIOUS
  <2> QED
    BY <2>1, WrittenIs
<1>2. PICK h \in Seq(Bytes(k)) : h = Address(k) /\ Len(h) = SizeOfIOA
  BY AddressType
<1>3. Encoded(c, k, TRUE) = h \o m
  BY <1>1, <1>2, EncodedType
<1>4. Encoded(c, k, FALSE) = m
  <2>1. Encoded(c, k, FALSE) = <<>> \o m
    BY <1>1, EncodedType
  <2>2. <<>> \o m = m
    OBVIOUS
  <2> QED
    BY <2>1, <2>2
<1>5. ASSUME NEW b \in 1..Len(m)
      PROVE  p[(at + SizeOfIOA) + b] = m[b]
  <2>1. SizeOfIOA + b \in 1..Len(h \o m) /\ (h \o m)[SizeOfIOA + b] = m[b]
    BY <1>2
  <2>2. p[at + (SizeOfIOA + b)] = m[b]
    BY <1>3, <2>1 DEF Stands
  <2>3. at + (SizeOfIOA + b) = (at + SizeOfIOA) + b
    BY <1>2
  <2> QED
    BY <2>2, <2>3
<1> QED
  BY <1>4, <1>5 DEF Stands

\* An ASDU of n elements of class c.
AsduHolds(c, q, n) ==
  /\ c \in Classes /\ Laid(c) /\ ClassOf(typeId) = c /\ c.type = typeId
  /\ q \in BOOLEAN /\ IsSequence = q /\ n \in 1..127 /\ NumberOfElements = n
  /\ Holds(q, c, payload, n)

LEMMA AsduIs ==
  ASSUME AsduInv, NumberOfElements > 0
  PROVE  \E c : AsduHolds(c, IsSequence, NumberOfElements)
<1>1. PICK c \in Classes : Filled(c)
  BY DEF AsduInv
<1>2. ClassOf(typeId) = c
  BY <1>1, ClassOfType DEF Filled
<1>3. NumberOfElements \in 1..127 /\ IsSequence \in BOOLEAN
  BY CountOf DEF AsduInv
<1> QED
  BY <1>1, <1>2, <1>3, AllLaid DEF AsduHolds, Filled

\* Element k lies within the payload.
LEMMA ElementWithin ==
  ASSUME NEW c, NEW q, NEW n, AsduHolds(c, q, n), NEW k \in 1..n
  PROVE  /\ k - 1 \in Nat /\ End(q, SizeOf(c), k - 1) \in Nat
         /\ Stands(payload, End(q, SizeOf(c), k - 1), Element(q, c, k))
         /\ End(q, SizeOf(c), k - 1) + (IF k = 1 \/ ~q THEN SizeOfIOA ELSE 0) + SizeOf(c)
              <= Len(payload)
<1>1. n \in Nat /\ k \in 0..n /\ k - 1 \in Nat /\ (k - 1) + 1 = k /\ (k - 1 = 0) = (k = 1)
  BY DEF AsduHolds
<1>2. q \in BOOLEAN /\ SizeOf(c) \in Nat
  BY DEF AsduHolds, Laid
<1>3. /\ End(q, SizeOf(c), k - 1) \in Nat
      /\ End(q, SizeOf(c), (k - 1) + 1) = End(q, SizeOf(c), k - 1)
            + (IF k - 1 = 0 \/ ~q THEN SizeOfIOA ELSE 0) + SizeOf(c)
  BY <1>1, <1>2, EndNext
<1>4. End(q, SizeOf(c), k) <= End(q, SizeOf(c), n)
  BY <1>1, <1>2, EndsGrow
<1>5. /\ Len(payload) = End(q, SizeOf(c), n)
      /\ Stands(payload, End(q, SizeOf(c), k - 1), Element(q, c, k))
  BY DEF AsduHolds, Holds
<1>6. End(q, SizeOf(c), k) = End(q, SizeOf(c), k - 1)
        + (IF k = 1 \/ ~q THEN SizeOfIOA ELSE 0) + SizeOf(c)
  BY <1>1, <1>3
<1> QED
  BY <1>1, <1>3, <1>4, <1>5, <1>6

\* The first element, whatever the class.
LEMMA FirstRead ==
  ASSUME NEW c, NEW q, NEW n, AsduHolds(c, q, n)
  PROVE  GetFromBuffer(c, 0, TRUE) = [address |-> added[1].address, element |-> 1]
<1>1. 1 \in 1..n
  BY DEF AsduHolds
<1>2. End(q, SizeOf(c), 0) = 0
  <2>1. 0 * (SizeOfIOA + SizeOf(c)) = 0
    BY Parameters DEF AsduHolds, Laid
  <2> QED
    BY <2>1 DEF End
<1>3. /\ Stands(payload, 0, Encoded(c, 1, TRUE)) /\ SizeOfIOA + SizeOf(c) <= Len(payload)
  <2>1. /\ Stands(payload, End(q, SizeOf(c), 1 - 1), Element(q, c, 1))
        /\ End(q, SizeOf(c), 1 - 1) + SizeOfIOA + SizeOf(c) <= Len(payload)
    BY <1>1, ElementWithin
  <2>2. 1 - 1 = 0 /\ Element(q, c, 1) = Encoded(c, 1, TRUE)
    <3>1. (1 = 1 \/ ~q) = TRUE
      OBVIOUS
    <3>2. Element(q, c, 1) = Encoded(c, 1, TRUE)
      BY <3>1, Zenon DEF Element
    <3>3. 1 - 1 = 0
      OBVIOUS
    <3> QED
      BY <3>2, <3>3, Zenon
  <2>3. 0 + SizeOfIOA + SizeOf(c) = SizeOfIOA + SizeOf(c)
    BY Parameters DEF AsduHolds, Laid
  <2> QED
    BY <1>2, <2>1, <2>2, <2>3
<1>4. Laid(c) /\ payload \in Seq(Octets)
  BY DEF AsduHolds, Holds
<1>5. 0 + c.needs + SizeOfIOA <= Len(payload) /\ 0 + SizeOfIOA + SizeOf(c) <= Len(payload)
  BY <1>3, <1>4, Parameters DEF Laid
<1>6. (IF c.addressAlways THEN SizeOfIOA ELSE IF TRUE THEN SizeOfIOA ELSE 0) = SizeOfIOA
  OBVIOUS
<1> QED
  BY <1>3, <1>4, <1>5, <1>6, ReadWhole

\* Any element of an ASDU that is no sequence.
LEMMA ObjectRead ==
  ASSUME NEW c, NEW n, AsduHolds(c, FALSE, n), NEW i \in 0..(n - 1)
  PROVE  GetFromBuffer(c, i * (SizeOfIOA + SizeOf(c)), TRUE)
           = [address |-> added[i + 1].address, element |-> i + 1]
<1>1. i + 1 \in 1..n /\ (i + 1) - 1 = i /\ i + 1 \in Nat
  BY DEF AsduHolds
<1>2. PICK at \in Nat : at = i * (SizeOfIOA + SizeOf(c)) /\ at = End(FALSE, SizeOf(c), i)
  BY <1>1, ElementWithin DEF End
<1>3. /\ Stands(payload, at, Encoded(c, i + 1, TRUE)) /\ at + SizeOfIOA + SizeOf(c) <= Len(payload)
  <2>1. /\ Stands(payload, End(FALSE, SizeOf(c), (i + 1) - 1), Element(FALSE, c, i + 1))
        /\ End(FALSE, SizeOf(c), (i + 1) - 1) + SizeOfIOA + SizeOf(c) <= Len(payload)
    BY <1>1, ElementWithin
  <2>2. Element(FALSE, c, i + 1) = Encoded(c, i + 1, TRUE)
    BY DEF Element
  <2> QED
    BY <1>1, <1>2, <2>1, <2>2
<1>4. Laid(c) /\ payload \in Seq(Octets)
  BY DEF AsduHolds, Holds
<1>5. at + c.needs + SizeOfIOA <= Len(payload)
  BY <1>3, <1>4, Parameters DEF Laid
<1>6. (IF c.addressAlways THEN SizeOfIOA ELSE IF TRUE THEN SizeOfIOA ELSE 0) = SizeOfIOA
  OBVIOUS
<1>7. GetFromBuffer(c, at, TRUE) = [address |-> added[i + 1].address, element |-> i + 1]
  BY <1>1, <1>3, <1>4, <1>5, <1>6, ReadWhole
<1> QED
  BY <1>2, <1>7

\* An element of a sequence, for the classes that getElement looks for there.
LEMMA SequenceRead ==
  ASSUME NEW c, NEW n, AsduHolds(c, TRUE, n), NEW i \in 0..(n - 1), c.indexed = "sequence",
         c.addressAlways = TRUE => i # n - 1
  PROVE  GetFromBuffer(c, SizeOfIOA + i * SizeOf(c), FALSE) = [address |-> 0, element |-> i + 1]
<1>1. i + 1 \in 1..n /\ (i + 1) - 1 = i /\ i + 1 \in Nat /\ n \in Nat
  BY DEF AsduHolds
<1>2. /\ Laid(c) /\ payload \in Seq(Octets) /\ Len(payload) = SizeOfIOA + n * SizeOf(c)
      /\ Writable(c)
  BY <1>1 DEF AsduHolds, Holds, End, Laid
<1>3. PICK s \in Nat : s = SizeOf(c) /\ s >= 1
  BY <1>2 DEF Laid
<1>4. PICK at \in Nat : at = SizeOfIOA + i * s
  BY <1>1, <1>3, Parameters
<1>5. Stands(payload, at, Encoded(c, i + 1, FALSE))
  <2>1. Stands(payload, End(TRUE, s, i), Element(TRUE, c, i + 1))
    BY <1>1, <1>3, ElementWithin
  <2>2. CASE i = 0
    <3>1. Stands(payload, 0, Encoded(c, 1, TRUE))
      <4>1. End(TRUE, s, i) = 0 /\ i + 1 = 1
        BY <2>2 DEF End
      <4>2. Element(TRUE, c, 1) = Encoded(c, 1, TRUE)
        <5>1. (1 = 1 \/ ~TRUE) = TRUE
          OBVIOUS
        <5> QED
          BY <5>1 DEF Element
      <4> QED
        BY <2>1, <4>1, <4>2
    <3>2. Stands(payload, 0 + SizeOfIOA, Encoded(c, 1, FALSE))
      BY <1>2, <1>3, <3>1, StandsBehind
    <3>3. at = 0 + SizeOfIOA /\ i + 1 = 1
      BY <1>3, <1>4, <2>2, Parameters
    <3> QED
      BY <3>2, <3>3
  <2>3. CASE i # 0
    <3>1. End(TRUE, s, i) = at
      BY <1>4, <2>3 DEF End
    <3>2. Element(TRUE, c, i + 1) = Encoded(c, i + 1, FALSE)
      <4>1. (i + 1 = 1 \/ ~TRUE) = FALSE
        BY <2>3
      <4> QED
        BY <4>1 DEF Element
    <3> QED
      BY <2>1, <3>1, <3>2
  <2> QED
    BY <2>2, <2>3
<1>6. at + s <= Len(payload) /\ (i # n - 1 => at + s + s <= Len(payload))
  <2>1. PICK d \in Nat : n = (i + 1) + d
    <3>1. n - (i + 1) \in Nat /\ n = (i + 1) + (n - (i + 1))
      BY <1>1
    <3> QED
      BY <3>1
  <2>2. n * s = i * s + s + d * s /\ d * s \in Nat /\ i * s \in Nat /\ n * s \in Nat
    <3>1. i \in Nat
      OBVIOUS
    <3> QED
      BY <1>3, <2>1, <3>1
  <2>3. d # 0 => d * s >= s
    <3>1. d # 0 => d - 1 \in Nat /\ d * s = (d - 1) * s + s /\ (d - 1) * s \in Nat
      BY <2>1
    <3> QED
      BY <3>1
  <2>4. Len(payload) = SizeOfIOA + n * s
    BY <1>2, <1>3
  <2>5. i # n - 1 => d # 0
    BY <2>1
  <2> QED
    BY <1>4, <2>2, <2>3, <2>4, <2>5, Parameters
<1>7. at + c.needs + (IF c.addressAlways THEN SizeOfIOA ELSE IF FALSE THEN SizeOfIOA ELSE 0)
        <= Len(payload)
  <2>1. c.needs \in Int /\ c.needs <= s /\ (c.addressAlways = TRUE => s >= 3)
        /\ c.addressAlways \in BOOLEAN
    BY <1>2, <1>3 DEF Laid
  <2>2. CASE c.addressAlways = TRUE
    <3>1. (IF c.addressAlways THEN SizeOfIOA ELSE IF FALSE THEN SizeOfIOA ELSE 0) = SizeOfIOA
      BY <2>2
    <3>2. at + c.needs + SizeOfIOA <= Len(payload)
      BY <1>6, <2>1, <2>2, Parameters
    <3> QED
      BY <3>1, <3>2
  <2>3. CASE c.addressAlways = FALSE
    <3>1. (IF c.addressAlways THEN SizeOfIOA ELSE IF FALSE THEN SizeOfIOA ELSE 0) = 0
      BY <2>3
    <3>2. at + c.needs + 0 <= Len(payload)
      BY <1>6, <2>1
    <3> QED
      BY <3>1, <3>2
  <2> QED
    BY <2>1, <2>2, <2>3
<1>8. at + 0 + SizeOf(c) <= Len(payload)
  BY <1>3, <1>6
<1>9. GetFromBuffer(c, at, FALSE) = [address |-> 0, element |-> i + 1]
  <2>1. SizeOf(c) >= 1
    BY <1>3
  <2> QED
    BY <1>1, <1>2, <1>5, <1>7, <1>8, <2>1, ReadWhole
<1> QED
  BY <1>3, <1>4, <1>9

\* Behind the last element there is nothing to read.
LEMMA NothingRead ==
  ASSUME NEW c, Laid(c), c.needs >= 1, payload \in Seq(Octets), NEW w \in BOOLEAN
  PROVE  GetFromBuffer(c, Len(payload), w) = Unreadable
<1>1. PICK y \in Nat : y = Len(payload)
  OBVIOUS
<1>2. PICK x \in Nat : x = IF c.addressAlways THEN SizeOfIOA ELSE IF w THEN SizeOfIOA ELSE 0
  BY Parameters
<1>3. c.needs \in Int
  BY DEF Laid
<1>4. y + c.needs + x > y
  BY <1>3
<1> QED
  BY <1>1, <1>2, <1>4 DEF GetFromBuffer

LEMMA ElementFound ==
  ASSUME AsduInv, NumberOfElements > 0, NEW i \in 0..(NumberOfElements - 1), Findable(i)
  PROVE  GetElement(i) = [address |-> added[i + 1].address, element |-> i + 1]
<1>1. PICK c, q, n : AsduHolds(c, q, n)
  BY AsduIs
<1>2. /\ n = NumberOfElements /\ q = IsSequence /\ ClassOf(typeId) = c /\ typeId = c.type
      /\ Laid(c) /\ q \in BOOLEAN /\ n \in 1..127
  BY <1>1 DEF AsduHolds
<1>3. /\ i = 0 \/ c.indexed = "sequence" \/ (c.indexed = "object" /\ ~q)
      /\ ~(q /\ c.addressAlways /\ i = n - 1)
  BY <1>2 DEF Findable, Indexable
<1>4. c.indexed = "sequence" \/ c.indexed = "object" \/ c.indexed = "first"
  BY <1>2 DEF Laid
<1>5. c.indexed # "first" => ElementSize[typeId] = SizeOf(c)
  BY <1>2 DEF Laid
<1>6. CASE c.indexed = "first"
  <2>1. i = 0 /\ i + 1 = 1
    BY <1>3, <1>6
  <2>2. GetElement(i) = GetFromBuffer(c, 0, TRUE)
    BY <1>2, <1>6 DEF GetElement
  <2> QED
    BY <1>1, <2>1, <2>2, FirstRead
<1>7. CASE c.indexed = "sequence" /\ q
  <2> DEFINE e == GetFromBuffer(c, SizeOfIOA + i * SizeOf(c), FALSE)
  <2>1. i \in 0..(n - 1) /\ (c.addressAlways = TRUE => i # n - 1) /\ AsduHolds(c, TRUE, n)
    BY <1>1, <1>2, <1>3, <1>7
  <2>2. e = [address |-> 0, element |-> i + 1]
    BY <1>7, <2>1, SequenceRead
  <2>3. GetElement(i) = IF e = Unreadable THEN NullDereferenced
                        ELSE [e EXCEPT !.address = added[1].address + i]
    BY <1>2, <1>5, <1>7 DEF GetElement
  <2> HIDE DEF e
  <2>4. e # Unreadable
    BY <2>2 DEF Unreadable
  <2>5. [e EXCEPT !.address = added[1].address + i]
          = [address |-> added[1].address + i, element |-> i + 1]
    <3>1. PICK x : x = added[1].address + i
      OBVIOUS
    <3>2. [e EXCEPT !.address = x] = [address |-> x, element |-> i + 1]
      BY <2>2
    <3> QED
      BY <3>1, <3>2
  <2>6. added[1].address + i = added[i + 1].address
    <3>1. 1 \in 1..NumberOfElements /\ i + 1 \in 1..NumberOfElements
      BY <1>2
    <3>2. /\ added[1].address = FirstAddress + stride * (1 - 1)
          /\ added[i + 1].address = FirstAddress + stride * ((i + 1) - 1)
      BY <3>1 DEF AsduInv
    <3>3. stride = 1 \/ (stride = 2 /\ i = 0)
      BY <1>2, <1>7 DEF AsduInv
    <3> QED
      BY <3>2, <3>3 DEF FirstAddress
  <2> QED
    BY <2>3, <2>4, <2>5, <2>6
<1>8. CASE c.indexed # "first" /\ ~(c.indexed = "sequence" /\ q)
  <2>1. GetElement(i) = GetFromBuffer(c, i * (SizeOfIOA + SizeOf(c)), TRUE)
    BY <1>2, <1>5, <1>8 DEF GetElement
  <2>2. CASE q
    <3>1. i = 0 /\ i + 1 = 1
      BY <1>3, <1>8, <2>2
    <3>2. i * (SizeOfIOA + SizeOf(c)) = 0
      BY <1>2, <3>1, Parameters DEF Laid
    <3> QED
      BY <1>1, <2>1, <3>1, <3>2, FirstRead
  <2>3. CASE ~q
    <3>1. i \in 0..(n - 1) /\ AsduHolds(c, FALSE, n)
      BY <1>1, <1>2, <2>3
    <3> QED
      BY <2>1, <3>1, ObjectRead
  <2> QED
    BY <1>2, <2>2, <2>3
<1> QED
  BY <1>4, <1>6, <1>7, <1>8

LEMMA NothingAfter ==
  ASSUME AsduInv, NumberOfElements > 0, Indexable(ClassOf(typeId))
  PROVE  GetElement(NumberOfElements) = IF IsSequence THEN NullDereferenced ELSE Unreadable
<1>1. PICK c, q, n : AsduHolds(c, q, n)
  BY AsduIs
<1>2. /\ n = NumberOfElements /\ q = IsSequence /\ ClassOf(typeId) = c /\ typeId = c.type
      /\ Laid(c) /\ q \in BOOLEAN /\ n \in 1..127
      /\ payload \in Seq(Octets) /\ Len(payload) = End(q, SizeOf(c), n)
  BY <1>1 DEF AsduHolds, Holds
<1>3. c.indexed = "sequence" \/ (c.indexed = "object" /\ ~q)
  BY <1>2 DEF Indexable
<1>4. c.indexed # "first" /\ ElementSize[typeId] = SizeOf(c) /\ c.needs >= 1
  BY <1>2, <1>3 DEF Laid
<1>5. CASE q
  <2>1. Len(payload) = SizeOfIOA + n * SizeOf(c)
    BY <1>2, <1>5 DEF End
  <2>2. GetFromBuffer(c, SizeOfIOA + n * SizeOf(c), FALSE) = Unreadable
    BY <1>2, <1>4, <2>1, NothingRead
  <2> QED
    BY <1>2, <1>3, <1>4, <1>5, <2>2 DEF GetElement
<1>6. CASE ~q
  <2>1. Len(payload) = n * (SizeOfIOA + SizeOf(c))
    BY <1>2, <1>6 DEF End
  <2>2. GetFromBuffer(c, n * (SizeOfIOA + SizeOf(c)), TRUE) = Unreadable
    BY <1>2, <1>4, <2>1, NothingRead
  <2> QED
    BY <1>2, <1>3, <1>4, <1>6, <2>2 DEF GetElement
<1> QED
  BY <1>2, <1>5, <1>6

\* What is added to an ASDU fits there and is read back where and as it was written, for every
\* class of information objects, both kinds of ASDU, every size of an ASDU and of the addresses;
\* behind the last element an ASDU of single objects gives NULL, and a sequence dereferences it.
THEOREM ElementsAreReadBack == AsduSpec => []CodecAgrees
<1>1. AsduInv => CodecAgrees
  <2> SUFFICES ASSUME AsduInv
               PROVE  CodecAgrees
    OBVIOUS
  <2>1. CASE NumberOfElements > 0
    <3>1. ElementsReadBack
      BY <2>1, ElementFound, NothingAfter DEF ElementsReadBack, AsduInv
    <3>2. AsduWithinLimit
      BY <2>1 DEF AsduInv, Filled
    <3> QED
      BY <3>1, <3>2 DEF CodecAgrees
  <2>2. CASE NumberOfElements = 0
    <3>1. HeaderLength + Len(payload) <= MaxSizeOfASDU
      BY <2>2, Parameters DEF AsduInv
    <3> QED
      BY <2>2, <3>1 DEF CodecAgrees, ElementsReadBack, AsduWithinLimit
  <2>3. NumberOfElements \in 0..127
    BY CountOf DEF AsduInv
  <2> QED
    BY <2>1, <2>2, <2>3
<1> QED
  BY <1>1, AsduStart, AsduStep, PTL DEF AsduSpec
=============================================================================

---------------------------- MODULE EncodedTypes ----------------------------
(***************************************************************************)
(* The packed types of lib60870: the time stamps CP16, CP24, CP32 and      *)
(* CP56Time2a (apl/cpXXtime2a.c) and the binary counter reading            *)
(* (cs101/cs101_bcr.c).  Several fields share an octet, every setter       *)
(* changes the octets in place, and a time stamp is also written from and  *)
(* read as milliseconds since 1970.                                        *)
(***************************************************************************)
EXTENDS Integers, Sequences, FiniteSets

CONSTANTS
  Values,                \* for each field, the values it is set to
  Years, Months, Days,   \* the dates of the time stamps
  DayTimes               \* <<hour, minute, second, millisecond>>

Size == [CP16 |-> 2, CP24 |-> 3, CP32 |-> 4, CP56 |-> 7, BCR |-> 5]

\* A type with more octets has the fields of the smaller one as well.
Fields24 == {"millisecond", "second", "minute", "invalid", "substituted"}
Fields32 == {"hour", "summerTime"} \cup Fields24
FieldsDate == {"dayOfWeek", "dayOfMonth", "month", "year"}
Fields56 == FieldsDate \cup Fields32
FieldsBCR == {"value", "sequenceNumber", "carry", "adjusted", "invalid"}
Fields == [CP16 |-> {"elapsed"}, CP24 |-> Fields24, CP32 |-> Fields32, CP56 |-> Fields56,
           BCR |-> FieldsBCR]

\* What the setters are called with: no negative number, no second or millisecond that an int
\* does not hold in milliseconds, and 0 or 1 for a flag.  A value need not fit its field: an
\* information object is given a time of 24123 milliseconds.
Within(value, low, high) == value \in Int /\ low <= value /\ value <= high
InRange(field, value) ==
  CASE field = "second"      -> Within(value, 0, 2147482)
    [] field = "millisecond" -> Within(value, 0, 2147418112)
    [] field = "value"       -> Within(value, -2147483647 - 1, 2147483647)
    [] field \in {"invalid", "substituted", "summerTime", "carry", "adjusted"} ->
         value \in {0, 1}
    [] OTHER                 -> value \in Nat

\* A time of the day as gmtime gives it.
TimeOfDay(time) ==
  /\ time \in Seq(Nat) /\ Len(time) = 4
  /\ Within(time[1], 0, 23) /\ Within(time[2], 0, 59)
  /\ Within(time[3], 0, 59) /\ Within(time[4], 0, 999)

\* The years are those which a CP56Time2a, with two digits for the year, stands for.
ASSUME EncodedAssumption ==
  /\ \A field \in {"elapsed"} \cup Fields56 \cup FieldsBCR :
       \A value \in Values[field] : InRange(field, value)
  /\ \A year \in Years : Within(year, 2000, 2099)
  /\ \A month \in Months : Within(month, 1, 12)
  /\ \A day \in Days : Within(day, 1, 31)
  /\ \A time \in DayTimes : TimeOfDay(time)

VARIABLES
  kind,     \* the type of the value
  octets,   \* encodedValue
  given,    \* history: what each field is to be read as
  stamp     \* history: the timestamp the value was made from, or NoStamp
encodedVars == <<kind, octets, given, stamp>>

NoStamp == <<>>
\* Of the bits of an octet, those from the one worth unit on that make count values; and the
\* octets when these are set and the other bits of octet i are kept.
Bits(octet, unit, count) == (octet \div unit) % count
WithBits(o, i, unit, count, value) ==
  [o EXCEPT ![i] = @ - Bits(@, unit, count) * unit + (value % count) * unit]
IsSet(o, i, bit)       == Bits(o[i], bit, 2)
Flag(o, i, bit, value) == WithBits(o, i, bit, 2, value)

-----------------------------------------------------------------------------
\* Seconds and milliseconds share the first two octets.
Millies(o)          == o[1] + o[2] * 256
WithMillies(o, n)   == [o EXCEPT ![1] = n % 256, ![2] = (n \div 256) % 256]
getMillisecond(o)   == Millies(o) % 1000
setMillisecond(o, value) == WithMillies(o, Millies(o) - (Millies(o) % 1000) + value)
getSecond(o)        == Millies(o) \div 1000

\* Mutant of setSecond: the milliseconds are lost.
setSecondAlone(o, value) == WithMillies(o, value * 1000)

setSecond(o, value) == WithMillies(o, value * 1000 + (Millies(o) % 1000))
getMinute(o)        == Bits(o[3], 1, 64)
setMinute(o, value) == WithBits(o, 3, 1, 64, value)
isInvalid(o)        == IsSet(o, 3, 128)
setInvalid(o, value) == Flag(o, 3, 128, value)
isSubstituted(o)    == IsSet(o, 3, 64)
setSubstituted(o, value) == Flag(o, 3, 64, value)

\* The getters of each type.
getCP16(o, field) == o[1] + o[2] * 256
getCP24(o, field) ==
  CASE field = "millisecond" -> getMillisecond(o)
    [] field = "second"      -> getSecond(o)
    [] field = "minute"      -> getMinute(o)
    [] field = "invalid"     -> isInvalid(o)
    [] field = "substituted" -> isSubstituted(o)
getCP32(o, field) ==
  CASE field = "hour"        -> Bits(o[4], 1, 32)
    [] field = "summerTime"  -> IsSet(o, 4, 128)
    [] OTHER                 -> getCP24(o, field)
getDate(o, field) ==
  CASE field = "dayOfWeek"   -> Bits(o[5], 32, 8)
    [] field = "dayOfMonth"  -> Bits(o[5], 1, 32)
    [] field = "month"       -> Bits(o[6], 1, 16)
    [] field = "year"        -> Bits(o[7], 1, 128)
getCP56(o, field) == IF field \in FieldsDate THEN getDate(o, field) ELSE getCP32(o, field)
\* The value of a counter is a signed integer of 32 bits, the least octet first.
getBCR(o, field) ==
  CASE field = "value" ->
         o[1] + 256 * (o[2] + 256 * (o[3] + 256 * (IF o[4] < 128 THEN o[4] ELSE o[4] - 256)))
    [] field = "sequenceNumber" -> Bits(o[5], 1, 32)
    [] field = "carry"          -> IsSet(o, 5, 32)
    [] field = "adjusted"       -> IsSet(o, 5, 64)
    [] field = "invalid"        -> IsSet(o, 5, 128)

Read(k, o, f) == CASE k = "CP16" -> getCP16(o, f) [] k = "CP24" -> getCP24(o, f)
                   [] k = "CP32" -> getCP32(o, f) [] k = "CP56" -> getCP56(o, f)
                   [] k = "BCR"  -> getBCR(o, f)

\* The setters.
setCP16(o, field, value) == [o EXCEPT ![1] = value % 256, ![2] = (value \div 256) % 256]
setCP24(o, field, value) ==
  CASE field = "millisecond" -> setMillisecond(o, value)
    [] field = "second"      -> setSecond(o, value)
    [] field = "minute"      -> setMinute(o, value)
    [] field = "invalid"     -> setInvalid(o, value)
    [] field = "substituted" -> setSubstituted(o, value)
setCP32(o, field, value) ==
  CASE field = "hour"        -> WithBits(o, 4, 1, 32, value)
    [] field = "summerTime"  -> Flag(o, 4, 128, value)
    [] field = "millisecond" -> WithMillies(o, getSecond(o) * 1000 + value)
    [] OTHER                 -> setCP24(o, field, value)
setDate(o, field, value) ==
  CASE field = "dayOfWeek"   -> WithBits(o, 5, 32, 8, value)
    [] field = "dayOfMonth"  -> WithBits(o, 5, 1, 32, value)
    [] field = "month"       -> WithBits(o, 6, 1, 16, value)
    [] field = "year"        -> WithBits(o, 7, 1, 128, value % 100)
setCP56(o, field, value) ==
  IF field \in FieldsDate THEN setDate(o, field, value)
  ELSE IF field \in Fields24 THEN setCP24(o, field, value) ELSE setCP32(o, field, value)
setBCR(o, field, value) ==
  CASE field = "value"          -> [o EXCEPT ![1] = value % 256,
                                             ![2] = (value \div 256) % 256,
                                             ![3] = (value \div 65536) % 256,
                                             ![4] = (value \div 16777216) % 256]
    [] field = "sequenceNumber" -> WithBits(o, 5, 1, 32, value)
    [] field = "carry"          -> Flag(o, 5, 32, value)
    [] field = "adjusted"       -> Flag(o, 5, 64, value)
    [] field = "invalid"        -> Flag(o, 5, 128, value)

Write(k, o, f, v) == CASE k = "CP16" -> setCP16(o, f, v) [] k = "CP24" -> setCP24(o, f, v)
                       [] k = "CP32" -> setCP32(o, f, v) [] k = "CP56" -> setCP56(o, f, v)
                       [] k = "BCR"  -> setBCR(o, f, v)

-----------------------------------------------------------------------------
\* The calendar.  gmtime gives the date a timestamp falls on; a timestamp is given here by
\* the number of its day since 1970, counted year by year and month by month.
IsLeap(year) == year % 4 = 0 /\ (year % 100 # 0 \/ year % 400 = 0)
DaysOf(year, month) == CASE month = 2 -> IF IsLeap(year) THEN 29 ELSE 28
                         [] month \in {4, 6, 9, 11} -> 30 [] OTHER -> 31
Month == 1..12
DayNumber(year, month, day) ==
  LET before[m \in Month] == IF m = 1 THEN 0 ELSE before[m - 1] + DaysOf(year, m - 1)
  IN (year - 1970) * 365 + Cardinality({y \in 1970..(year - 1) : IsLeap(y)})
       + before[month] + day - 1

\* my_mktime: the day, with the year counted from 1900 and the month from 0.
my_mktime(year, month, day) ==
  LET m == IF month < 2 THEN month + 12 ELSE month
      y == IF month < 2 THEN year - 1 ELSE year
  IN (y - 69) * 365 + y \div 4 - ((y \div 100) * 3) \div 4 + ((m + 2) * 153) \div 5 - 446 + day

\* CP56Time2a_toMsTimestamp: the day and the time of the day.
toMsTimestamp(o) ==
  <<my_mktime(getCP56(o, "year") + 100, getCP56(o, "month") - 1, getCP56(o, "dayOfMonth")),
    getCP56(o, "hour"), getCP56(o, "minute"), getCP56(o, "second"),
    getCP56(o, "millisecond")>>

\* CP32Time2a_setFromMsTimestamp and CP56Time2a_setFromMsTimestamp, from zeroed octets.
Zero(k) == [i \in 1..Size[k] |-> 0]
WithTime(g, time) == [g EXCEPT !["hour"] = time[1], !["minute"] = time[2],
                               !["second"] = time[3], !["millisecond"] = time[4]]
CP32FromMsTimestamp(time) ==
  LET o1 == setCP32(Zero("CP32"), "second", time[3])
      o2 == setCP32(o1, "millisecond", time[4])
      o3 == setCP32(o2, "minute", time[2])
  IN setCP32(o3, "hour", time[1])
CP56FromMsTimestamp(year, month, day, time) ==
  LET o1 == setCP56(Zero("CP56"), "millisecond", time[4])
      o2 == setCP56(o1, "second", time[3])
      o3 == setCP56(o2, "minute", time[2])
      o4 == setCP56(o3, "hour", time[1])
      o5 == setCP56(o4, "dayOfMonth", day)
      o6 == setCP56(o5, "dayOfWeek", 0)
      o7 == setCP56(o6, "month", month)
  IN setCP56(o7, "year", year - 1900)

-----------------------------------------------------------------------------
\* What a field that is set to a value is read as: the bits it has, and two digits of a year.
Meaning(field, value) ==
  CASE field = "elapsed"   -> value % 65536
    [] field = "minute"    -> value % 64
    [] field \in {"hour", "dayOfMonth", "sequenceNumber"} -> value % 32
    [] field = "dayOfWeek" -> value % 8
    [] field = "month"     -> value % 16
    [] field = "year"      -> value % 100
    [] OTHER               -> value

\* Seconds and milliseconds are one number of 16 bits: what exceeds 999 milliseconds counts as
\* seconds.
Shared == {"second", "millisecond"}
Carried(g, field, value) ==
  (IF field = "second" THEN value * 1000 + g["millisecond"] ELSE g["second"] * 1000 + value)
    % 65536

\* What field h is to be read as when field is set to value, after those of g.
ReadAs(g, field, value, h) ==
  CASE field \in Shared /\ h = "second"      -> Carried(g, field, value) \div 1000
    [] field \in Shared /\ h = "millisecond" -> Carried(g, field, value) % 1000
    [] field \notin Shared /\ h = field      -> Meaning(field, value)
    [] OTHER                                 -> g[h]
Flags == {"invalid", "substituted", "summerTime", "dayOfWeek"}

\* GLOBAL_CALLOC, memset.
EncodedInit ==
  /\ kind \in DOMAIN Size /\ octets = Zero(kind) /\ given = [field \in Fields[kind] |-> 0]
  /\ stamp = NoStamp

\* bound: what was carried is not carried into, unless Values has it as well.
Bounded(field, value) ==
  /\ field = "second" /\ value > 65 => given["millisecond"] \in Values["millisecond"]
  /\ field = "millisecond" /\ value > 999 => given["second"] \in Values["second"]

Assign(field, value) ==
  /\ stamp = NoStamp \/ field \in Flags   \* bound: a dated value keeps its date
  /\ Bounded(field, value)
  /\ octets' = Write(kind, octets, field, value)
  /\ given' = [h \in Fields[kind] |-> ReadAs(given, field, value, h)]
  /\ UNCHANGED <<kind, stamp>>

FromMsTimestamp(year, month, day, time) ==
  /\ kind = "CP56" /\ octets = Zero(kind) /\ day <= DaysOf(year, month)
  /\ octets' = CP56FromMsTimestamp(year, month, day, time)
  /\ given' = [WithTime(given, time) EXCEPT !["dayOfMonth"] = day, !["month"] = month,
                                            !["year"] = year % 100]
  /\ stamp' = <<DayNumber(year, month, day), time[1], time[2], time[3], time[4]>>
  /\ UNCHANGED kind

FromMsOfDay(time) ==
  /\ kind = "CP32" /\ octets = Zero(kind)
  /\ octets' = CP32FromMsTimestamp(time)
  /\ given' = WithTime(given, time)
  /\ UNCHANGED <<kind, stamp>>

EncodedNext ==
  \/ \E field \in Fields[kind] : \E value \in Values[field] : Assign(field, value)
  \/ \E year \in Years, month \in Months, day \in Days, time \in DayTimes :
        FromMsTimestamp(year, month, day, time)
  \/ \E time \in DayTimes : FromMsOfDay(time)

-----------------------------------------------------------------------------
\* Whatever the order of the calls, every getter returns what its field was last set to, and no
\* setter changes another field, with one exception: the second and the millisecond are one
\* number of 16 bits, so milliseconds above 999 change the second, and a number that does not
\* fit loses its high bits.  A value too large for another field loses its high bits there.  A
\* CP56Time2a made from a timestamp of the years 2000 to 2099 is read as that timestamp, whatever
\* flags are set afterwards.
FieldsIndependent ==
  /\ \A field \in Fields[kind] : Read(kind, octets, field) = given[field]
  /\ stamp # NoStamp => toMsTimestamp(octets) = stamp
=============================================================================

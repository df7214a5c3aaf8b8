--------------------------- MODULE MainLoopProofs ---------------------------
(***************************************************************************)
(* Theorems about the main loop, for every size of the buffer, length of   *)
(* the clock's turn and duration of poll() that the hypotheses allow.      *)
(***************************************************************************)
EXTENDS MainLoop, SequenceTheorems, TLAPS


\* A multiple of w closer to 0 than w is 0.
LEMMA Multiples ==
    ASSUME NEW w \in Nat \ {0}, NEW d \in Int, -w < w * d, w * d < w
    PROVE  d = 0
<1>1. CASE d >= 1
  <2>1. w * d = w + w * (d - 1)
    OBVIOUS
  <2>2. w * (d - 1) >= 0
    BY <1>1
  <2> QED
    BY <2>1, <2>2
<1>2. CASE d <= -1
  <2>1. w * d = -w + w * (d + 1)
    OBVIOUS
  <2>2. w * (d + 1) <= 0
    BY <1>2
  <2> QED
    BY <2>1, <2>2
<1> QED
  BY <1>1, <1>2

\* What division says of the remainder.
LEMMA DivMod ==
    ASSUME NEW w \in Nat \ {0}, NEW x \in Int
    PROVE  /\ x % w \in 0 .. w - 1
           /\ \E q \in Int : x = w * q + (x % w)
<1> DEFINE q == x \div w
           r == x % w
<1>1. q \in Int /\ r \in 0 .. w - 1 /\ x = w * q + r
  OBVIOUS
<1> HIDE DEF q, r
<1>2. r \in 0 .. w - 1 /\ \E p \in Int : x = w * p + r
  BY <1>1
<1> QED
  BY <1>2 DEF r

\* Whole turns of the clock do not count.
LEMMA Remainder ==
    ASSUME NEW w \in Nat \ {0}, NEW x \in 0 .. w - 1, NEW k \in Int
    PROVE  (x + w * k) % w = x
<1> DEFINE y == x + w * k
           r == y % w
<1>1. r \in 0 .. w - 1 /\ \E q \in Int : y = w * q + r
  <2>1. y \in Int
    OBVIOUS
  <2> HIDE DEF y
  <2> QED
    BY <2>1, DivMod
<1> HIDE DEF r
<1>2. PICK q \in Int : x + w * k = w * q + r
  BY <1>1
<1>3. w * (k - q) = r - x
  BY <1>1, <1>2
<1>4. k - q = 0
  BY <1>1, <1>3, Multiples
<1> QED
  BY <1>1, <1>3, <1>4 DEF r

\* The value of millis() at time t, as the int it is kept in.
Stamp(t) == AsInt(t % Word)

\* How far it is from t: a number of whole turns.
LEMMA StampTurns ==
    ASSUME NEW t \in Nat
    PROVE  Stamp(t) \in Int /\ \E k \in Int : Stamp(t) = t + Word * k
<1> DEFINE r == t % Word
<1>1. Word \in Nat \ {0} /\ t \in Int
  BY MainLoopAssumption
<1>2. r \in 0 .. Word - 1 /\ \E q \in Int : t = Word * q + r
  BY <1>1, DivMod
<1>3. Stamp(t) = IF 2 * r < Word THEN r ELSE r - Word
  BY DEF Stamp, AsInt
<1> HIDE DEF r
<1>4. PICK q \in Int : t = Word * q + r
  BY <1>2
<1>5. -q \in Int /\ r = t + Word * (-q)
  BY <1>1, <1>2, <1>4
<1>6. -q - 1 \in Int /\ r - Word = t + Word * (-q - 1)
  BY <1>1, <1>2, <1>4
<1>7. Stamp(t) \in Int
  BY <1>1, <1>2, <1>3
<1>8. CASE 2 * r < Word
  BY <1>3, <1>5, <1>7, <1>8
<1>9. CASE ~(2 * r < Word)
  BY <1>3, <1>6, <1>7, <1>9
<1> QED
  BY <1>8, <1>9

\* The code's difference of millis() and an earlier one, less than a turn ago.
LEMMA Since ==
    ASSUME NEW s \in Nat, NEW t \in Nat, s <= t, t - s < Word
    PROVE  ((t % Word) - Stamp(s)) % Word = t - s
<1> DEFINE r == t % Word
<1>1. Word \in Nat \ {0} /\ t \in Int
  BY MainLoopAssumption
<1>2. r \in 0 .. Word - 1 /\ \E q \in Int : t = Word * q + r
  BY <1>1, DivMod
<1> HIDE DEF r
<1>3. PICK q \in Int : t = Word * q + r
  BY <1>2
<1>4. PICK k \in Int : Stamp(s) = s + Word * k
  BY StampTurns
<1>5. r - Stamp(s) = (t - s) + Word * (-q - k)
  BY <1>1, <1>2, <1>3, <1>4
<1>6. -q - k \in Int /\ t - s \in 0 .. Word - 1
  BY <1>1
<1>7. ((t - s) + Word * (-q - k)) % Word = t - s
  BY <1>1, <1>6, Remainder
<1> QED
  BY <1>5, <1>7 DEF r

-----------------------------------------------------------------------------
(***************************************************************************)
(* ReportsEveryPeriod: delay_start is the time of the last report, turns   *)
(* of millis() apart, and the last report less than a turn ago.            *)
(***************************************************************************)

\* A poll that lasts a turn of millis(), 49 days, would hide a report's delay.
Timely == \A d \in PollTime : Period + d < Word

TimeInv ==
    /\ uptime \in Nat
    /\ last \in Nat
    /\ last <= uptime /\ uptime - last < Word
    /\ delay_start = Stamp(last)

\* What the code compares is the time since the last report.
LEMMA DueAfterPeriod ==
    ASSUME TimeInv
    PROVE  IsDue <=> uptime - last > Period
<1>1. ((uptime % Word) - Stamp(last)) % Word = uptime - last
  BY Since DEF TimeInv
<1> QED
  BY <1>1 DEF TimeInv, IsDue, millis

\* At first the last report is now.
LEMMA TimeInit == LoopInit => TimeInv
<1>1. 0 % Word = 0
  BY MainLoopAssumption
<1> QED
  BY <1>1, MainLoopAssumption DEF LoopInit, TimeInv, Stamp, AsInt

\* Every step keeps delay_start the time of a report less than a turn ago.
LEMMA TimeStep ==
    ASSUME Timely, TimeInv, [LoopNext]_vars
    PROVE  TimeInv'
<1>1. CASE UNCHANGED vars
  BY <1>1 DEF vars, TimeInv, Stamp, AsInt
<1>2. CASE LoopNext
  <2>1. PICK d \in PollTime : Pass(d)
    BY <1>2 DEF LoopNext
  <2>2. uptime' = uptime + d /\ d \in Nat /\ Period + d < Word /\ Period \in Nat
    BY <2>1, MainLoopAssumption DEF Pass, Timely
  <2>3. CASE IsDue
    <3>1. last' = uptime /\ delay_start' = Stamp(uptime)
      BY <2>1, <2>3 DEF Pass, WriteReport, Stamp, millis
    <3>2. delay_start' = Stamp(last')
      BY <3>1
    <3> QED
      BY <2>2, <3>1, <3>2, MainLoopAssumption DEF TimeInv
  <2>4. CASE ~IsDue
    <3>1. UNCHANGED <<last, delay_start>>
      BY <2>1, <2>4 DEF Pass
    <3>2. uptime - last <= Period
      BY <2>2, <2>4, DueAfterPeriod DEF TimeInv
    <3>3. delay_start' = Stamp(last')
      BY <3>1 DEF TimeInv
    <3> QED
      BY <2>2, <3>1, <3>2, <3>3, MainLoopAssumption DEF TimeInv
  <2> QED
    BY <2>3, <2>4
<1> QED
  BY <1>1, <1>2

\* Reports come when they are due, whatever millis() has done meanwhile.
THEOREM ReportsAreTimely == Timely /\ LoopSpec => ReportsEveryPeriod
<1>1. LoopInit => TimeInv
  BY TimeInit
<1>2. Timely /\ TimeInv /\ [LoopNext]_vars => TimeInv'
  BY TimeStep
<1>3. TimeInv /\ [LoopNext]_vars =>
        [IF last' # last THEN uptime - last > Period ELSE uptime - last <= Period]_vars
  <2> SUFFICES ASSUME TimeInv, LoopNext
               PROVE  IF last' # last THEN uptime - last > Period ELSE uptime - last <= Period
    OBVIOUS
  <2>1. PICK d \in PollTime : Pass(d)
    BY DEF LoopNext
  <2>2. uptime \in Nat /\ last \in Nat /\ Period \in Nat
    BY MainLoopAssumption DEF TimeInv
  <2>3. CASE IsDue
    <3>1. last' = uptime
      BY <2>1, <2>3 DEF Pass, WriteReport
    <3>2. uptime - last > Period
      BY <2>3, DueAfterPeriod
    <3> QED
      BY <2>2, <3>1, <3>2
  <2>4. CASE ~IsDue
    <3>1. last' = last
      BY <2>1, <2>4 DEF Pass
    <3>2. ~(uptime - last > Period)
      BY <2>4, DueAfterPeriod
    <3> QED
      BY <2>2, <3>1, <3>2
  <2> QED
    BY <2>3, <2>4
<1>4. Timely => []Timely
  BY DEF Timely
<1> QED
  BY <1>1, <1>2, <1>3, <1>4, PTL DEF LoopSpec, ReportsEveryPeriod

-----------------------------------------------------------------------------
(***************************************************************************)
(* The types, and the sizes of the buffers.                                *)
(***************************************************************************)

\* A report is one of the kind, its timestamp that of its time.
LEMMA ReportType ==
    ASSUME LoopTypeOK, NEW n
    PROVE  /\ report(n) \in Report
           /\ report(n).at = uptime /\ report(n).timestamp = Stamp(uptime)
<1>1. Stamp(uptime) \in Int /\ uptime \in Nat
  BY StampTurns DEF LoopTypeOK
<1> DEFINE e == IF n < report_size THEN Terminator ELSE "none"
<1>2. e \in {",", "]", "none"}
  BY DEF Terminator
<1>3. report(n) = [timestamp |-> Stamp(uptime), at |-> uptime, end |-> e]
  BY DEF report, Stamp, millis
<1> HIDE DEF e
<1>4. [timestamp |-> Stamp(uptime), at |-> uptime, end |-> e] \in Report
  BY <1>1, <1>2 DEF Report
<1>5. report(n) \in Report
  BY <1>3, <1>4
<1>6. report(n).at = uptime /\ report(n).timestamp = Stamp(uptime)
  BY <1>3
<1> QED
  BY <1>5, <1>6

\* Every step keeps the types.
LEMMA TypeStep ==
    ASSUME LoopTypeOK, [LoopNext]_vars
    PROVE  LoopTypeOK'
<1>1. CASE UNCHANGED vars
  BY <1>1 DEF vars, LoopTypeOK
<1>2. CASE LoopNext
  <2>1. PICK d \in PollTime : Pass(d)
    BY <1>2 DEF LoopNext
  <2>2. uptime' \in Nat
    BY <2>1, MainLoopAssumption DEF Pass, LoopTypeOK
  <2>3. CASE IsDue
    <3>1. PICK n \in Length : WriteReport(n)
      BY <2>1, <2>3 DEF Pass
    <3>2. n \in Nat /\ report_size \in Nat \ {0} /\ number_of_reports \in Nat \ {0}
      BY MainLoopAssumption
    <3>3. delay_start' \in Int /\ last' \in Nat
      BY <3>1, StampTurns DEF WriteReport, Stamp, millis, LoopTypeOK
    <3>4. report_index + n \in Nat
      BY <3>2 DEF LoopTypeOK
    <3>5. report_index' \in Nat /\ written' \in Nat
      BY <3>1, <3>2, <3>4 DEF WriteReport, nextIndex, LoopTypeOK
    <3>6. cnt_s \in Seq(Report) /\ report(n) \in Report /\ Len(cnt_s) = cnt
      BY ReportType DEF LoopTypeOK
    <3>7. Append(cnt_s, report(n)) \in Seq(Report)
          /\ Len(Append(cnt_s, report(n))) = Len(cnt_s) + 1
      BY <3>6, AppendProperties
    <3>8. cnt' \in 0 .. number_of_reports - 1
      BY <3>1, <3>2 DEF WriteReport, Full, LoopTypeOK
    <3>9. cnt_s' \in Seq(Report) /\ Len(cnt_s') = cnt'
      <4>1. CASE Full
        BY <3>1, <4>1 DEF WriteReport
      <4>2. CASE ~Full
        BY <3>1, <3>6, <3>7, <4>2 DEF WriteReport
      <4> QED
        BY <4>1, <4>2
    <3>10. message' \in [reports : Seq(Report), len : Nat]
      <4>1. CASE Full
        <5>1. message' = [reports |-> Append(cnt_s, report(n)), len |-> report_index + n]
          BY <3>1, <4>1 DEF WriteReport
        <5> QED
          BY <3>4, <3>7, <5>1
      <4>2. CASE ~Full
        BY <3>1, <4>2 DEF WriteReport, LoopTypeOK
      <4> QED
        BY <4>1, <4>2
    <3> QED
      BY <2>2, <3>3, <3>5, <3>8, <3>9, <3>10 DEF LoopTypeOK
  <2>4. CASE ~IsDue
    BY <2>1, <2>2, <2>4 DEF Pass, LoopTypeOK
  <2> QED
    BY <2>3, <2>4
<1> QED
  BY <1>1, <1>2

\* The types hold at first.
LEMMA TypeInit == LoopInit => LoopTypeOK
<1>1. NoMessage \in [reports : Seq(Report), len : Nat]
  BY DEF NoMessage
<1> QED
  BY <1>1, MainLoopAssumption DEF LoopInit, LoopTypeOK

\* Every variable keeps to its type.
THEOREM LoopTypeCorrect == LoopSpec => []LoopTypeOK
  BY TypeInit, TypeStep, PTL DEF LoopSpec

\* A report is never cut, there are two at least, and a batch fits a request.
Sized ==
    /\ \A n \in Length : n < report_size
    /\ number_of_reports >= 2
    /\ report_buffer_size <= MESSAGE_MAX_SIZE

\* The reports so far, each shorter than its share of the buffer.
SizeInv ==
    /\ report_index <= 1 + cnt * (report_size - 1)
    /\ Fits

\* Each report adds less than its share to the index.
LEMMA SizeStep ==
    ASSUME Sized, LoopTypeOK, SizeInv, [LoopNext]_vars
    PROVE  SizeInv'
<1>1. CASE UNCHANGED vars
  BY <1>1 DEF vars, SizeInv, Fits
<1>2. CASE LoopNext
  <2>1. PICK d \in PollTime : Pass(d)
    BY <1>2 DEF LoopNext
  <2>2. CASE IsDue
    <3>1. PICK n \in Length : WriteReport(n)
      BY <2>1, <2>2 DEF Pass
    <3> DEFINE index == report_index + n
    <3>2. /\ n \in Nat /\ n <= report_size - 1 /\ n < report_size
          /\ report_size - 1 \in Nat /\ number_of_reports \in Nat /\ number_of_reports >= 2
          /\ cnt \in Nat /\ cnt + 1 <= number_of_reports /\ report_index \in Nat
      BY MainLoopAssumption DEF Sized, LoopTypeOK
    <3>3. index <= 1 + (cnt + 1) * (report_size - 1)
      <4>1. (cnt + 1) * (report_size - 1) = cnt * (report_size - 1) + (report_size - 1)
        BY <3>2
      <4> QED
        BY <3>2, <4>1 DEF SizeInv
    <3>4. (cnt + 1) * (report_size - 1) <= number_of_reports * (report_size - 1)
      BY <3>2
    <3>5. number_of_reports * (report_size - 1) = report_buffer_size - number_of_reports
      BY <3>2, MainLoopAssumption DEF report_buffer_size
    <3>6. report_buffer_size \in Int /\ (cnt + 1) * (report_size - 1) \in Int
      BY <3>2, MainLoopAssumption DEF report_buffer_size
    <3>7. index < report_buffer_size
      BY <3>2, <3>3, <3>4, <3>5, <3>6
    <3>8. written' < report_buffer_size
      BY <3>1, <3>2, <3>7 DEF WriteReport
    <3>9. Fits'
      <4>1. message'.len <= MESSAGE_MAX_SIZE /\ message'.len \in Int
        <5>1. CASE Full
          BY <3>1, <3>2, <3>6, <3>7, <5>1 DEF WriteReport, Sized, MESSAGE_MAX_SIZE
        <5>2. CASE ~Full
          BY <3>1, <5>2 DEF WriteReport, SizeInv, Fits, LoopTypeOK
        <5> QED
          BY <5>1, <5>2
      <4>2. 7 + topic_len + message'.len <= PACKET_MAX_SIZE
        BY <4>1 DEF topic_len, PACKET_MAX_SIZE, TOPIC_MAX_SIZE, MESSAGE_MAX_SIZE
      <4> QED
        BY <3>8, <4>1, <4>2 DEF Fits
    <3>10. report_index' <= 1 + cnt' * (report_size - 1)
      <4>1. CASE Full
        BY <3>1, <3>2, <4>1 DEF WriteReport, nextIndex
      <4>2. CASE ~Full
        <5>1. report_index' = index /\ cnt' = cnt + 1
          BY <3>1, <4>2 DEF WriteReport, nextIndex
        <5> QED
          BY <3>3, <5>1
      <4> QED
        BY <4>1, <4>2
    <3> QED
      BY <3>9, <3>10 DEF SizeInv
  <2>3. CASE ~IsDue
    BY <2>1, <2>3 DEF Pass, SizeInv, Fits
  <2> QED
    BY <2>2, <2>3
<1> QED
  BY <1>1, <1>2

\* Neither the buffer nor a request nor a packet is too small for a batch.
THEOREM BatchesFit == Sized /\ LoopSpec => []Fits
<1>1. Sized /\ LoopInit => SizeInv
  <2> SUFFICES ASSUME Sized, LoopInit PROVE SizeInv
    OBVIOUS
  <2>1. 1 < report_buffer_size
    <3>1. report_size >= 1 /\ report_size \in Nat /\ number_of_reports \in Nat
      BY MainLoopAssumption
    <3>2. report_size * number_of_reports >= number_of_reports
      BY <3>1
    <3>3. number_of_reports >= 2 /\ report_size * number_of_reports \in Int
      BY <3>1 DEF Sized
    <3> QED
      BY <3>1, <3>2, <3>3 DEF report_buffer_size
  <2>2. Fits
    BY <2>1 DEF LoopInit, Fits, NoMessage, topic_len, PACKET_MAX_SIZE, TOPIC_MAX_SIZE,
       MESSAGE_MAX_SIZE
  <2>3. report_index <= 1 + cnt * (report_size - 1)
    BY MainLoopAssumption DEF LoopInit
  <2> QED
    BY <2>2, <2>3 DEF SizeInv
<1>2. SizeInv => Fits
  BY DEF SizeInv
<1>3. Sized /\ LoopTypeOK /\ SizeInv /\ [LoopNext]_vars => SizeInv'
  BY SizeStep
<1>4. Sized => []Sized
  BY DEF Sized
<1> QED
  BY <1>1, <1>2, <1>3, <1>4, TypeInit, TypeStep, PTL DEF LoopSpec

-----------------------------------------------------------------------------
(***************************************************************************)
(* The messages.                                                           *)
(***************************************************************************)

\* Elements of a sequence with one more at its end.
LEMMA OneMore ==
    ASSUME NEW S, NEW s \in Seq(S), NEW e \in S
    PROVE  /\ Len(s) \in Nat
           /\ DOMAIN Append(s, e) = 1 .. Len(s) + 1
           /\ DOMAIN s = 1 .. Len(s)
           /\ \A i \in 1 .. Len(s) : Append(s, e)[i] = s[i]
           /\ Append(s, e)[Len(s) + 1] = e
  BY AppendProperties

\* The list is still open while it grows.
FormInv ==
    /\ \A i \in DOMAIN cnt_s : cnt_s[i].end = ","
    /\ MessageWellFormed

\* Only the report that completes a batch closes the list.
LEMMA FormStep ==
    ASSUME Sized, LoopTypeOK, FormInv, [LoopNext]_vars
    PROVE  FormInv'
<1>1. CASE UNCHANGED vars
  BY <1>1 DEF vars, FormInv, MessageWellFormed, WellFormed
<1>2. CASE LoopNext
  <2>1. PICK d \in PollTime : Pass(d)
    BY <1>2 DEF LoopNext
  <2>2. CASE IsDue
    <3>1. PICK n \in Length : WriteReport(n)
      BY <2>1, <2>2 DEF Pass
    <3> DEFINE r == report(n)
               s == Append(cnt_s, r)
    <3>2. r.end = IF cnt < number_of_reports - 1 THEN "," ELSE "]"
      <4>1. n < report_size
        BY DEF Sized
      <4> QED
        BY <4>1 DEF report, Terminator
    <3>3. cnt_s \in Seq(Report) /\ r \in Report /\ Len(cnt_s) = cnt /\ cnt \in Nat
          /\ cnt <= number_of_reports - 1 /\ number_of_reports \in Nat
      BY ReportType, MainLoopAssumption DEF LoopTypeOK
    <3> HIDE DEF r
    <3>4. /\ DOMAIN s = 1 .. cnt + 1
          /\ DOMAIN cnt_s = 1 .. cnt
          /\ \A i \in 1 .. cnt : s[i] = cnt_s[i]
          /\ s[cnt + 1] = r
          /\ Len(s) = cnt + 1
      BY <3>3, OneMore, AppendProperties
    <3>5. (Full => cnt_s' = <<>> /\ message'.reports = s)
          /\ (~Full => cnt_s' = s /\ message' = message)
      BY <3>1 DEF WriteReport, r
    <3> HIDE DEF s
    <3>6. \A i \in 1 .. cnt : s[i].end = ","
      BY <3>4 DEF FormInv
    <3>7. CASE Full
      <4> cnt \in Nat /\ number_of_reports \in Nat
        BY <3>3
      <4> cnt + 1 = number_of_reports /\ ~(cnt < number_of_reports - 1)
        BY <3>7 DEF Full
      <4>1. cnt + 1 = number_of_reports /\ r.end = "]"
        BY <3>2
      <4>2. \A i \in DOMAIN s : s[i].end = IF i = number_of_reports THEN "]" ELSE ","
        <5> SUFFICES ASSUME NEW i \in DOMAIN s
                     PROVE  s[i].end = IF i = number_of_reports THEN "]" ELSE ","
          OBVIOUS
        <5>1. CASE i = cnt + 1
          BY <3>4, <4>1, <5>1
        <5>2. CASE i # cnt + 1
          <6>1. i \in 1 .. cnt /\ i # number_of_reports
            BY <3>3, <3>4, <4>1, <5>2
          <6> QED
            BY <3>6, <6>1
        <5> QED
          BY <5>1, <5>2
      <4>3. WellFormed(message'.reports)
        BY <3>4, <3>5, <3>7, <4>1, <4>2 DEF WellFormed
      <4>4. \A i \in DOMAIN cnt_s' : cnt_s'[i].end = ","
        <5>1. cnt_s' = <<>> /\ DOMAIN <<>> = {}
          BY <3>5, <3>7
        <5> QED
          BY <5>1, Zenon
      <4> QED
        BY <4>3, <4>4 DEF FormInv, MessageWellFormed, WellFormed
    <3>8. CASE ~Full
      <4> cnt \in Nat /\ number_of_reports \in Nat /\ cnt <= number_of_reports - 1
        BY <3>3
      <4> cnt < number_of_reports - 1
        BY <3>8 DEF Full
      <4>1. r.end = ","
        BY <3>2
      <4>2. \A i \in DOMAIN s : s[i].end = ","
        <5> SUFFICES ASSUME NEW i \in DOMAIN s PROVE s[i].end = ","
          OBVIOUS
        <5>1. i = cnt + 1 \/ i \in 1 .. cnt
          BY <3>3, <3>4
        <5> QED
          BY <3>4, <3>6, <4>1, <5>1
      <4> QED
        BY <3>5, <3>8, <4>2 DEF FormInv, MessageWellFormed, WellFormed
    <3> QED
      BY <3>7, <3>8
  <2>3. CASE ~IsDue
    BY <2>1, <2>3 DEF Pass, FormInv, MessageWellFormed, WellFormed
  <2> QED
    BY <2>2, <2>3
<1> QED
  BY <1>1, <1>2

\* A message is one list of as many reports as a batch has.
THEOREM MessagesAreWellFormed == Sized /\ LoopSpec => []MessageWellFormed
<1>1. LoopInit => FormInv
  BY DEF LoopInit, FormInv, MessageWellFormed
<1>2. FormInv => MessageWellFormed
  BY DEF FormInv
<1>3. Sized /\ LoopTypeOK /\ FormInv /\ [LoopNext]_vars => FormInv'
  BY FormStep
<1>4. Sized => []Sized
  BY DEF Sized
<1> QED
  BY <1>1, <1>2, <1>3, <1>4, TypeInit, TypeStep, PTL DEF LoopSpec

-----------------------------------------------------------------------------
(***************************************************************************)
(* TimestampsGrow: a timestamp is the time less as many turns of millis()  *)
(* as its era says, and the reports of a batch are in the order of time.   *)
(***************************************************************************)

\* A quotient is known by its remainder.
LEMMA Quotient ==
    ASSUME NEW w \in Nat \ {0}, NEW r \in 0 .. w - 1, NEW q \in Int
    PROVE  (w * q + r) \div w = q
<1> DEFINE x == w * q + r
           p == x \div w
           m == x % w
<1>1. x \in Int
  OBVIOUS
<1>2. p \in Int /\ m \in 0 .. w - 1 /\ x = w * p + m
  <2> HIDE DEF x
  <2> QED
    BY <1>1
<1> HIDE DEF p, m
<1>3. w * (p - q) = r - m
  BY <1>2
<1>4. p - q = 0
  BY <1>2, <1>3, Multiples
<1> QED
  BY <1>2, <1>4 DEF p

\* A timestamp is short of the time by as many turns as its era.
LEMMA StampEra ==
    ASSUME NEW t \in Nat
    PROVE  Era(t) \in Int /\ Stamp(t) = t - Word * Era(t)
<1> DEFINE r == t % Word
<1>1. Word \in Nat \ {0} /\ 2 * Word \in Nat \ {0} /\ t \in Int
  BY MainLoopAssumption
<1>2. r \in 0 .. Word - 1 /\ \E q \in Int : t = Word * q + r
  BY <1>1, DivMod
<1>3. Stamp(t) = IF 2 * r < Word THEN r ELSE r - Word
  BY DEF Stamp, AsInt
<1> HIDE DEF r
<1>4. PICK q \in Int : t = Word * q + r
  BY <1>2
<1>5. CASE 2 * r < Word
  <2>1. 2 * t + Word = (2 * Word) * q + (2 * r + Word)
    BY <1>1, <1>2, <1>4
  <2>2. 2 * r + Word \in 0 .. 2 * Word - 1
    BY <1>1, <1>2, <1>5
  <2>3. Era(t) = q
    <3> DEFINE w == 2 * Word
               s == 2 * r + Word
    <3>1. w \in Nat \ {0} /\ s \in 0 .. w - 1
      BY <1>1, <2>2
    <3>2. Era(t) = (w * q + s) \div w
      BY <2>1 DEF Era
    <3> HIDE DEF w, s
    <3>3. (w * q + s) \div w = q
      BY <3>1, <1>4, Quotient
    <3> QED
      BY <3>2, <3>3
  <2> QED
    BY <1>1, <1>2, <1>3, <1>4, <1>5, <2>3
<1>6. CASE ~(2 * r < Word)
  <2>1. 2 * t + Word = (2 * Word) * (q + 1) + (2 * r - Word)
    BY <1>1, <1>2, <1>4
  <2>2. 2 * r - Word \in 0 .. 2 * Word - 1 /\ q + 1 \in Int
    BY <1>1, <1>2, <1>6
  <2>3. Era(t) = q + 1
    <3> DEFINE w == 2 * Word
               s == 2 * r - Word
               p == q + 1
    <3>1. w \in Nat \ {0} /\ s \in 0 .. w - 1 /\ p \in Int
      BY <1>1, <2>2
    <3>2. Era(t) = (w * p + s) \div w
      BY <2>1 DEF Era
    <3> HIDE DEF w, s, p
    <3>3. (w * p + s) \div w = p
      BY <3>1, Quotient
    <3> QED
      BY <3>2, <3>3 DEF p
  <2>4. Word * (q + 1) = Word * q + Word
    BY <1>1
  <2> QED
    BY <1>1, <1>2, <1>3, <1>4, <1>6, <2>3, <2>4
<1> QED
  BY <1>5, <1>6

\* Reports in the order of time, none later than now.
Ordered(s, now) ==
    /\ \A i \in DOMAIN s : s[i].timestamp = Stamp(s[i].at) /\ s[i].at <= now
    /\ \A i \in 2 .. Len(s) : s[i-1].at < s[i].at

\* No report of the batch is later than the last one written.
OrderInv == \E now \in Nat : Ordered(cnt_s, last) /\ Ordered(message.reports, now)

\* Later reports of an era have greater timestamps.
LEMMA OrderedGrows ==
    ASSUME LoopTypeOK, OrderInv
    PROVE  TimestampsGrow
<1> DEFINE s == message.reports
<1>1. s \in Seq(Report)
  BY DEF LoopTypeOK
<1> HIDE DEF s
<1>2. ASSUME NEW i \in 2 .. Len(s), Era(s[i-1].at) = Era(s[i].at)
      PROVE  s[i-1].timestamp < s[i].timestamp
  <2>1. i \in DOMAIN s /\ i - 1 \in DOMAIN s
    BY <1>1
  <2>2. s[i].at \in Nat /\ s[i-1].at \in Nat
    <3>1. \A j \in DOMAIN s : s[j] \in Report
      BY <1>1
    <3>2. s[i] \in Report /\ s[i-1] \in Report
      BY <2>1, <3>1
    <3> QED
      BY <3>2 DEF Report
  <2>3. s[i-1].timestamp = Stamp(s[i-1].at) /\ s[i].timestamp = Stamp(s[i].at)
        /\ s[i-1].at < s[i].at
    BY <2>1 DEF OrderInv, Ordered, s
  <2> DEFINE e == Era(s[i].at)
  <2>4. e \in Int /\ Stamp(s[i].at) = s[i].at - Word * e
        /\ Stamp(s[i-1].at) = s[i-1].at - Word * e
    BY <1>2, <2>2, StampEra
  <2> HIDE DEF e
  <2>5. Word * e \in Int
    BY <2>4, MainLoopAssumption
  <2> QED
    BY <2>2, <2>3, <2>4, <2>5
<1> QED
  BY <1>2 DEF TimestampsGrow, s

\* A report is later than those before it.
LEMMA OrderStep ==
    ASSUME Timely, LoopTypeOK, TimeInv, OrderInv, [LoopNext]_vars
    PROVE  OrderInv'
<1>1. CASE UNCHANGED vars
  BY <1>1, Zenon DEF vars, OrderInv
<1>2. CASE LoopNext
  <2>1. PICK d \in PollTime : Pass(d)
    BY <1>2 DEF LoopNext
  <2>2. CASE IsDue
    <3>1. PICK n \in Length : WriteReport(n)
      BY <2>1, <2>2 DEF Pass
    <3> DEFINE r == report(n)
               s == Append(cnt_s, r)
    <3>2. cnt_s \in Seq(Report) /\ r \in Report /\ r.at = uptime /\ r.timestamp = Stamp(uptime)
      BY ReportType DEF LoopTypeOK
    <3>3. last' = uptime /\ last < uptime /\ last \in Nat /\ uptime \in Nat
      <4>1. uptime - last > Period /\ Period \in Nat
        BY <2>2, DueAfterPeriod, MainLoopAssumption
      <4> QED
        BY <3>1, <4>1 DEF WriteReport, TimeInv
    <3> HIDE DEF r
    <3> DEFINE n0 == Len(cnt_s)
    <3>4. /\ n0 \in Nat
          /\ DOMAIN s = 1 .. n0 + 1 /\ Len(s) = n0 + 1
          /\ DOMAIN cnt_s = 1 .. n0
          /\ \A i \in 1 .. n0 : s[i] = cnt_s[i]
          /\ s[n0 + 1] = r
      BY <3>2, OneMore, AppendProperties
    <3>5. (Full => cnt_s' = <<>> /\ message'.reports = s)
          /\ (~Full => cnt_s' = s /\ message' = message)
      BY <3>1 DEF WriteReport, r
    <3>6. \A i \in 1 .. n0 : s[i].at \in Nat /\ s[i].at <= last
      <4>1. \A i \in 1 .. n0 : cnt_s[i] \in Report
        BY <3>2
      <4> QED
        BY <3>4, <4>1 DEF OrderInv, Ordered, Report
    <3> HIDE DEF s, n0
    <3>7. ASSUME NEW i \in DOMAIN s
          PROVE  s[i].timestamp = Stamp(s[i].at) /\ s[i].at <= uptime
      <4>1. CASE i = n0 + 1
        BY <3>2, <3>3, <3>4, <4>1
      <4>2. CASE i \in 1 .. n0
        <5>1. s[i].timestamp = Stamp(s[i].at)
          BY <3>4, <4>2 DEF OrderInv, Ordered
        <5> QED
          BY <3>3, <3>6, <4>2, <5>1
      <4> QED
        BY <3>4, <4>1, <4>2
    <3>8. ASSUME NEW i \in 2 .. Len(s)
          PROVE  s[i-1].at < s[i].at
      <4>1. i - 1 \in 1 .. n0
        BY <3>4
      <4>2. CASE i = n0 + 1
        BY <3>2, <3>3, <3>4, <3>6, <4>1, <4>2
      <4>3. CASE i # n0 + 1
        <5>1. i \in 2 .. n0 /\ i \in 1 .. n0
          BY <3>4, <4>3
        <5>2. cnt_s[i-1].at < cnt_s[i].at
          BY <5>1 DEF OrderInv, Ordered, n0
        <5> QED
          BY <3>4, <4>1, <5>1, <5>2
      <4> QED
        BY <4>2, <4>3
    <3>9. Ordered(s, uptime)
      BY <3>7, <3>8 DEF Ordered
    <3>10. CASE Full
      <4>1. Ordered(<<>>, uptime)
        BY DEF Ordered
      <4>2. cnt_s' = <<>> /\ message'.reports = s /\ last' = uptime
        BY <3>3, <3>5, <3>10
      <4> QED
        BY <3>3, <3>9, <4>1, <4>2, Zenon DEF OrderInv
    <3>11. CASE ~Full
      <4>1. cnt_s' = s /\ message' = message /\ last' = uptime
        BY <3>3, <3>5, <3>11
      <4> QED
        BY <3>9, <4>1, Zenon DEF OrderInv
    <3> QED
      BY <3>10, <3>11
  <2>3. CASE ~IsDue
    BY <2>1, <2>3, Zenon DEF Pass, OrderInv
  <2> QED
    BY <2>2, <2>3
<1> QED
  BY <1>1, <1>2

\* Within an era of the clock the timestamps of a message grow.
THEOREM TimestampsAreOrdered == Timely /\ LoopSpec => []TimestampsGrow
<1>1. LoopInit => OrderInv
  <2> SUFFICES ASSUME LoopInit PROVE OrderInv
    OBVIOUS
  <2>1. Ordered(<<>>, 0)
    BY DEF Ordered
  <2>2. cnt_s = <<>> /\ message.reports = <<>> /\ last = 0 /\ 0 \in Nat
    BY DEF LoopInit, NoMessage
  <2> QED
    BY <2>1, <2>2 DEF OrderInv
<1>2. Timely /\ LoopTypeOK /\ TimeInv /\ OrderInv /\ [LoopNext]_vars => OrderInv'
  BY OrderStep
<1>3. Timely => []Timely
  BY DEF Timely
<1> QED
  BY <1>1, <1>2, <1>3, TypeInit, TypeStep, TimeInit, TimeStep, OrderedGrows, PTL DEF LoopSpec
=============================================================================

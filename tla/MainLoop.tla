------------------------------- MODULE MainLoop -------------------------------
(***************************************************************************)
(* main.cpp: the endless loop that writes a report into a buffer every ten *)
(* seconds, publishes the buffer when it holds six of them, and polls the  *)
(* client.  The client is GB4MQTT; here its poll() only takes time, and    *)
(* publish() copies the payload, as gb4mqtt.cpp:79 does.                   *)
(*                                                                         *)
(* Time is counted in units of which Period is the ten seconds and Word    *)
(* what millis() counts to before it starts again from 0.                  *)
(***************************************************************************)
EXTENDS Integers, Sequences

CONSTANTS Word,                 \* 2^32 milliseconds
          Period,               \* 10000 milliseconds
          number_of_reports,
          report_size,
          Length,               \* what snprintf() may return for a report
          PollTime,             \* how long poll() may take
          MaxUptime             \* bound: how long the board runs

ASSUME MainLoopAssumption ==
    /\ Word \in Nat \ {0}
    /\ Period \in Nat
    /\ number_of_reports \in Nat \ {0}
    /\ report_size \in Nat \ {0}
    /\ Length \subseteq Nat \ {0}
    /\ PollTime \subseteq Nat

report_buffer_size == report_size * number_of_reports

\* gb4mqtt.h:31 and gb4mqtt.cpp:631.
TOPIC_MAX_SIZE == 64
MESSAGE_MAX_SIZE == 900
PACKET_MAX_SIZE == TOPIC_MAX_SIZE + MESSAGE_MAX_SIZE + 6

VARIABLES uptime,           \* time since the start, as no variable of the code has it
          delay_start,
          cnt,
          report_index,
          cnt_s,            \* the reports in the buffer, after its "["
          message,          \* what publish() was given last
          written,          \* history: the last byte of cnt_s snprintf() wrote
          last              \* history: when the last report was written

vars == <<uptime, delay_start, cnt, report_index, cnt_s, message, written, last>>

\* timestamp: without the constant epoch; end: the character after the "}".
Report == [timestamp : Int, at : Nat, end : {",", "]", "none"}]

NoMessage == [reports |-> <<>>, len |-> 0]

\* millis(), and a value of it converted to int.
millis == uptime % Word

\* Mutant: no sign.
AsInt_Unsigned(n) == n

AsInt(n) == IF 2 * n < Word THEN n ELSE n - Word

LoopTypeOK ==
    /\ uptime \in Nat
    /\ delay_start \in Int
    /\ cnt \in 0 .. number_of_reports - 1
    /\ report_index \in Nat
    /\ cnt_s \in Seq(Report)
    /\ Len(cnt_s) = cnt
    /\ message \in [reports : Seq(Report), len : Nat]
    /\ written \in Nat
    /\ last \in Nat

LoopInit ==
    /\ uptime = 0
    /\ delay_start = 0
    /\ cnt = 0
    /\ report_index = 1
    /\ cnt_s = <<>>
    /\ message = NoMessage
    /\ written = 1
    /\ last = 0

-----------------------------------------------------------------------------
\* Mutant: the times are compared, and not their difference.
IsDue_Compared == millis > delay_start + Period

\* (millis() - delay_start) > 10000, in 32 bits without sign.
IsDue == (millis - delay_start) % Word > Period

\* Mutant: one comma too many.
Terminator_Late == IF cnt < number_of_reports THEN "," ELSE "]"

Terminator == IF cnt < number_of_reports - 1 THEN "," ELSE "]"

\* A report for which snprintf() returns n is cut after report_size - 1.  The
\* timestamp is delay_start, one constant later and in whole seconds.
report(n) == [timestamp |-> AsInt(millis),
              at        |-> uptime,
              end       |-> IF n < report_size THEN Terminator ELSE "none"]

\* Mutant: the report that fills the batch is left for the next pass.
Full_Late == cnt = number_of_reports

\* 6 == cnt, after cnt++.
Full == cnt + 1 = number_of_reports

\* Mutant: the next batch goes behind this one.
nextIndex_Kept(index) == index

nextIndex(index) == IF Full THEN 1 ELSE index

\* A report, and publish() when it is the last of a batch.
WriteReport(n) ==
    LET reports == Append(cnt_s, report(n))
        index == report_index + n
    IN
    /\ delay_start' = AsInt(millis)
    /\ written' = report_index + (IF n < report_size THEN n ELSE report_size - 1)
    /\ last' = uptime
    /\ cnt' = IF Full THEN 0 ELSE cnt + 1
    /\ cnt_s' = IF Full THEN <<>> ELSE reports
    /\ report_index' = nextIndex(index)
    /\ message' = IF Full THEN [reports |-> reports, len |-> index] ELSE message

\* One pass of the loop; poll() takes time d.
Pass(d) ==
    /\ \/ IsDue /\ \E n \in Length : WriteReport(n)
       \/ ~IsDue /\ UNCHANGED <<delay_start, cnt, report_index, cnt_s, message, written, last>>
    /\ uptime' = uptime + d

LoopNext == \E d \in PollTime : uptime + d <= MaxUptime /\ Pass(d)

LoopSpec == LoopInit /\ [][LoopNext]_vars

-----------------------------------------------------------------------------
(***************************************************************************)
(* Properties                                                              *)
(***************************************************************************)

\* snprintf() never writes behind the buffer although report_index grows by
\* what it would have written, publish() copies no more than a request holds,
\* and the PUBLISH for it fits its packet: 7 bytes around topic and message,
\* where PACKET_MAX_SIZE counts 6.
topic_len == 33
Fits ==
    /\ written < report_buffer_size
    /\ message.len <= MESSAGE_MAX_SIZE
    /\ 7 + topic_len + message.len <= PACKET_MAX_SIZE

\* Each message published is one list: all the reports of a batch and no
\* other, commas between them and a bracket at the end.
WellFormed(reports) ==
    /\ Len(reports) = number_of_reports
    /\ \A i \in DOMAIN reports :
         reports[i].end = IF i = number_of_reports THEN "]" ELSE ","
MessageWellFormed == message = NoMessage \/ WellFormed(message.reports)

\* Reports come Period apart, and none is missed for longer than the poll
\* that went on meanwhile, also when millis() starts again from 0 and when
\* delay_start becomes negative.
ReportsEveryPeriod ==
    [][ IF last' # last THEN uptime - last > Period ELSE uptime - last <= Period ]_vars

\* The timestamps of a message grow, except where delay_start becomes negative.
Era(t) == (2 * t + Word) \div (2 * Word)
TimestampsGrow ==
    \A i \in 2 .. Len(message.reports) :
        LET r == message.reports[i-1]
            s == message.reports[i]
        IN  Era(r.at) = Era(s.at) => r.timestamp < s.timestamp
=============================================================================

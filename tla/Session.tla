------------------------------- MODULE Session -------------------------------
(***************************************************************************)
(* The life of a request after publish(), without sockets, connections and *)
(* mailboxes: one request at a time, the last one published.  It is        *)
(* acknowledged only if the broker has it, it goes out once for each of    *)
(* its tries at most, and it is not given up before they are used up.      *)
(*                                                                         *)
(* It is what handlePublishRequests() does.  Comments of the source say    *)
(* more of QoS 2, of a request that disconnects and of the number of       *)
(* tries; GB4MQTTClaims states that, and the program does not keep to it.  *)
(***************************************************************************)
EXTENDS Naturals

CONSTANTS MaxTries,
          Requests,     \* what may be published: [qos, disconnect]
          Serialises    \* every request can be put into a packet

VARIABLES active,   \* the request is in progress
          kind,     \* the request: [qos, disconnect]
          tries,    \* timeouts it has survived
          copies,   \* times it was handed to the radio
          taken,    \* the broker has it
          acked     \* the client takes it for acknowledged

vars == <<active, kind, tries, copies, taken, acked>>

Init ==
    /\ active = FALSE
    /\ kind = [qos |-> 0, disconnect |-> FALSE]
    /\ tries = 0 /\ copies = 0
    /\ taken = FALSE /\ acked = FALSE

\* The request in progress, if any, is forgotten.
Publish(r) ==
    /\ active' = TRUE
    /\ kind' = r
    /\ tries' = 0 /\ copies' = 0
    /\ taken' = FALSE /\ acked' = FALSE

\* The broker takes a copy of it.
Take ==
    /\ copies > 0
    /\ taken' = TRUE
    /\ UNCHANGED <<active, kind, tries, copies, acked>>

\* QoS 0 is finished by its send; one that disconnects is not tried again.
Unrepeated == kind.qos = 0 \/ kind.disconnect

Send ==
    /\ active
    /\ copies <= tries
    /\ Unrepeated => copies = 0
    /\ copies' = copies + 1
    /\ active' = (kind.qos # 0)
    /\ UNCHANGED tries

Retry ==
    /\ active /\ ~acked'
    /\ ~kind.disconnect
    /\ tries <= MaxTries
    /\ tries' = tries + 1
    /\ UNCHANGED <<active, copies>>

\* A request that disconnects is given up at its first timeout, sent or not.
Finish ==
    /\ active
    /\ acked' \/ kind.disconnect \/ tries > MaxTries \/ ~Serialises
    /\ active' = FALSE
    /\ UNCHANGED <<tries, copies>>

\* An acknowledgement may be read in the same step, as late as it may be.
Poll ==
    /\ acked' \in {acked, acked \/ taken}
    /\ Send \/ Retry \/ Finish \/ UNCHANGED <<active, tries, copies>>
    /\ UNCHANGED <<kind, taken>>

Next == (\E r \in Requests : Publish(r)) \/ Take \/ Poll

Spec == Init /\ [][Next]_vars
=============================================================================

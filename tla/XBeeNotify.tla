----------------------------- MODULE XBeeNotify -----------------------------
(***************************************************************************)
(* xbee_notify.cpp: the two global mailboxes through which the socket      *)
(* driver talks to the state machines.  g_notify holds the last            *)
(* notification frame and a count of frames; g_receive holds the last      *)
(* received payload.  Neither is a queue: the driver overwrites them.      *)
(*                                                                         *)
(* The reader of g_notify keeps the count it last saw and compares the two *)
(* for equality only, so count and copy are modelled by one bit, unseen.   *)
(* The code keeps one status byte per kind of frame; each is read only     *)
(* when type is that kind, so the status of the last frame stands for all. *)
(***************************************************************************)
EXTENDS MQTTPacket

VARIABLES g_notify,     \* [type, ok, unseen]
          g_receive     \* [pending, pkt]

notifyVars == <<g_notify, g_receive>>

\* The frames that carry a status the callback stores and counts ...
Counted == {"SOCK_CREATE_RESP", "SOCK_CONNECT_RESP", "SOCK_STATE", "TX_STATUS"}

\* ... and one of those it only stores the type of.
FrameType == Counted \cup {"SOCK_CLOSE_RESP"}

NotifyTypeOK ==
    /\ g_notify \in [type : FrameType \cup {"NONE"}, ok : BOOLEAN, unseen : BOOLEAN]
    /\ g_receive \in [pending : BOOLEAN, pkt : InPacket]

NotifyInit ==
    /\ g_notify = [type |-> "NONE", ok |-> TRUE, unseen |-> FALSE]
    /\ g_receive = [pending |-> FALSE, pkt |-> Connack(FALSE)]

\* XBeeNotify::callback: uncounted types return before countUp().
NotifyCallback(type, ok) ==
    g_notify' = [type |-> type, ok |-> ok,
                 unseen |-> g_notify.unseen \/ type \in Counted]

\* notify_count = g_notify.count(), and notify_count = g_notify.reset().
Seen == g_notify' = [g_notify EXCEPT !.unseen = FALSE]

\* XBeeReceive::callback: an unread payload is overwritten.
ReceiveCallback(pkt) == g_receive' = [pending |-> TRUE, pkt |-> pkt]

\* XBeeReceive::read.
AfterRead == [g_receive EXCEPT !.pending = FALSE]
=============================================================================

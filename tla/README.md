# xbee-mqtt: verification of the radio and MQTT state machines

The firmware keeps an XBee cellular modem connected to an MQTT broker and
publishes a batch of reports every minute. It is single threaded: `main()` calls
`GB4MQTT::poll()` for ever, that calls `GB4XBee::poll()`, that calls
`xbee_dev_tick()`, and the driver calls back into two global mailboxes. What
makes it hard is that four parties - the client, the radio, the modem and the
broker - each keep their own idea of one connection and learn of each other only
through mailboxes that are overwritten, timers, and states left behind by
connections that are gone.

This directory holds TLA+ modules translated from the sources, the TLC runs that
check them on small instances, and TLAPS proofs of the central safety properties
for every value of the constants.

## 1. The system

| Component | State | Operations | Correct if |
|---|---|---|---|
| Socket state machine, `gb4xbee.cpp` | `m_state`, `notify_count`, `connect_in_progress`, four timers | `poll`, `resetSocket`, `connect`, `sendMessage`, `getReceivedMessage` | believes itself connected only when it is; notices a loss; no wait without a running timer |
| Mailboxes, `xbee_notify.cpp` | `g_notify` (last frame, count), `g_receive` (last payload, pending) | two driver callbacks, `count`, `reset`, `read` | what is overwritten is not missed |
| MQTT client, `gb4mqtt.cpp` | `state`, `m_publish_request`, packet identifier, CONNACK, publish and keepalive timers | `publish`, `poll` and what it calls | in step with the radio; legal packet order; honest flags; bounded retries; a request is settled |
| Start-up, `pollStartup` | `m_state` below `SOCKET_COOLDOWN_PERIOD`, two APN flags, two timers | one state per step, `readAPNCallback` | hands over only a configured modem, and does so if it answers |
| Main loop, `main.cpp` | `cnt`, `report_index`, `delay_start`, the buffer | append a report, publish a batch, poll | a batch fits its buffer and is complete; a report every ten seconds, whatever `millis()` does |
| Static queue, `libs/static_queue` | slots, `m_head`, `m_tail`, `m_full`, slot index | `insert`, `dequeue`, `remove`, `reset` | a bounded FIFO that refuses only when full |
| Modem, driver, network (external) | socket, serial line, unreported messages | answers, losses, TX_STATUS | - |
| Broker (external) | packets under way, verdict on CONNECT | CONNACK, PUBACK, PUBREC, hang up | - |

Interactions: `main` -> client by call; client -> radio by call; radio -> modem
by driver call; modem -> mailboxes by callback out of `xbee_dev_tick()`; radio
and client read the mailboxes later. The client may reset the radio's socket and
the radio may drop it under the client; neither is told, each finds out by the
value `radio.poll()` returns.

The hard behaviours, each at its line, are listed under `hazards` in
`PROJECT.json`.

## 2. The modules

| Module | Models | Uses |
|---|---|---|
| `Millis` | `millis()` and a timer as its age, compared with a limit | |
| `MQTTPacket` | packets reduced to type, verdict, identifier, QoS and DUP; the identifier counter | |
| `XBeeNotify` | the two mailboxes and their callbacks | `MQTTPacket` |
| `XBeeModem` | modem, driver and network, an environment | `XBeeNotify` |
| `GB4XBee` | the socket state machine; `RadioSpec` composes it with a general client | `XBeeModem`, `Millis` |
| `GB4XBeeStartup` | start-up: command mode typed at the modem, then the access point name through the driver | `Millis` |
| `MQTTBroker` | connection and broker, an environment | `XBeeModem` |
| `GB4MQTT` | the client; `Spec` composes the whole stack | `GB4XBee`, `MQTTBroker` |
| `Session` | the life of a request after `publish()`, without sockets and mailboxes | |
| `GB4MQTTClaims` | statements of comments that the code does not keep | `GB4MQTT` |
| `MainLoop` | the report batching and the ten-second timer | |
| `StaticQueue` | nodes, links, array and slot search of the queue library | `BoundedFifo` |
| `BoundedFifo` | what a caller of the queue relies on | |
| `MCGB4MQTT`, `MCGB4MQTTClaims`, `MCGB4XBeeStartup`, `MCMainLoop`, `MCStaticQueue` | instances for TLC | |
| `GB4XBeeProofs`, `GB4MQTTProofs`, `GB4MQTTRequestProofs`, `GB4XBeeStartupProofs`, `MainLoopProofs`, `StaticQueueProofs` | theorems | |

**Granularity.** The code is sequential, so a step is as large as the code lets
it be: `Dispatch` is one frame taken by `xbee_dev_tick()`, `RadioPoll` the rest of
`GB4XBee::poll()`, `MQTTPoll` the rest of `GB4MQTT::poll()`. `pc` says which half
comes next. Any number of `Dispatch` steps may come before `RadioPoll`, so the
model has the ticks that find nothing and the ticks that dispatch several frames.
Modem, broker and clock interleave with these steps; `publish` comes only between
two polls, where `main.cpp` calls it.

**State.** Variables have the source's names. `link`, `uart`, `owed` are the
modem's side: the socket, frames not yet taken, and messages with no TX_STATUS
yet. `net` and `broker` are the broker's side. `sent`, `delivered` and `wire` are
history variables, like `failed` of start-up and `written` and `last` of the main
loop: they are read by properties only. Return values nobody reads
(`err`, the values `main` ignores) are left out.

**Start-up** comes before all this and has its own module: `GB4XBee::poll()` calls
`pollStartup()` and nothing else while `m_state` is below `SOCKET_COOLDOWN_PERIOD`, one state per
call, and the client above it stays in `NOT_CONNECTED`. It ends in
`BEGIN_CREATE_SOCKET`, where `RadioInit` begins. Replies are modelled by their bytes,
because `pollResponseOK()` reads whatever has arrived and looks at the first two;
names by how `verifyAccessPointName()` tells them apart. `COMMAND_TIMEOUT` and
`COMMAND_NOT_OK` change no state in the code, so their timer is not in the model.

**The radio's client.** `RadioSpec` lets a client do anything between two polls,
with one rule: `connect()` in `SOCKET_READY` only, once per socket (`MayConnect`).
`ImplementsRadio` says that the real client is such a client, so what is proved of
the radio alone holds of the stack; TLC checks the same properties there (`mqtt_safety`). `RadioSpec` is on the variables of
the stack, so this refinement mapping is the identity.

**The life of a request.** `Session` has no states, sockets or mailboxes: a request is
published, handed over some times, taken by the broker, acknowledged, tried again or
finished. It says when each may happen: no send without a try left for it, none after the
first for QoS 0 or a request that disconnects, no end of another before an acknowledgement
or the last try, no acknowledgement before the broker has the request. This is what
`handlePublishRequests()` leads every request through, not all that the comments promise:
they call QoS 2 "Only once", where it is treated as QoS 1, say that a message "will be
sent", and a request that disconnects may end unsent, and name four tries where there are six.
Those promises are stated in `GB4MQTTClaims` and refuted. `GB4MQTT` instantiates `Session`
(`Life`) with `active`, `tries` and `got_puback` of `m_publish_request`, its QoS and
`disconnect` as the kind, and the histories `sent` and `delivered`; `ImplementsSession` is
that instance's `Spec`.

**The main loop** has a model of its own, `MainLoop`: it shares nothing with the
client but the call of `publish()`, which copies the buffer, and the time `poll()`
takes, which is `PollTime`. Time is counted in units of which `Word` is what
`millis()` counts to and `Period` the ten seconds; `uptime` is the time no variable of the
code has. A report is its timestamp and the character after it, its length one of
`Length`.

**The queue** is modelled node by node: `link`, `unlink`, `linkPrev` and `linkNext` are
functions from the array to the array it becomes, in the order of the assignments.
`order` is the `chain` of links that `length()` walks from `m_tail`, and what it reaches is the `items` of
`BoundedFifo`. After the last slot `findEmptySlot()` reads `m_array[N_MEMB]`, which does
not exist: what it reads there is a choice from `Behind`, and if an element is then
written there (`overrun`) the model stops.

### What the environment is taken to do

Not in the repository (the submodules are empty), hence assumptions:

* `xbee_sock_reset()` forgets the socket: frames of it reach no callback
  afterwards (`uart` is emptied), except the uncounted confirmation of the close.
  What an earlier tick has already put in a mailbox stays there.
* The modem answers a request at most once, in order. `Faults` names what may
  fail. Losing the connection is reported by a SOCK_STATE frame, and TX_STATUS
  says success only while the connection is up.
* A receive frame begins with a whole MQTT packet. More packets may follow it in the
  same frame (fault `merge`), which the client drops. The broker follows MQTT 3.1.1
  and hangs up on DISCONNECT.
* A CONNECT packet fits its buffer (it is made of constants; those of `main.cpp`
  need 74 of 80 bytes). A PUBLISH may fail to serialise (`serialize`).
* `address` is not null. `allow_connect` is not read by the code.
* The modem takes `+++` between two silences no longer than the firmware's guard
  time, answers each AT command in order, and takes `+++` in API mode too.
* `begin()` succeeds.
* No identifier comes round again while its previous use is under way (`Unused`);
  the code has 256 of them and one request at a time.

## 3. The runs

Passing:

| Run | Question | Instance |
|---|---|---|
| `mqtt_safety` | Do both state machines agree, is the packet order legal, does the client keep the radio's rule, is the radio's idea of its connection right? | the request of `main.cpp`, all faults but two (`EBUSY` and `EOTHER`, which the client treats as `ENOENT`) |
| `mqtt_requests` | Is a request acknowledged, repeated, flagged and given up rightly, and as `Session` says? | QoS 0 and 1 with and without disconnect, QoS 2 without (`AnyRequest`); connections that are lost, answers that are dropped; `MaxTries` 1 |
| `mqtt_progress` | Does every wait end, and on the timer that is meant to end it? | requests with and without disconnect; the modem may refuse |
| `startup_safety` | Does start-up act on its own replies only, hand over a modem in API mode with the name, and come to an end if nothing fails? | commands rejected, command mode lapsing, queries failing, a stray byte; no stored prefix of the name |
| `queue_fifo` | Is the queue a FIFO after any calls, and its slots free when used? | four nodes, two values, either value behind the array |
| `main_reports` | Do the buffers suffice, is every message one list, does the timer survive the wraparound? | the sizes of `main.cpp`; two turns of a short `millis()` |

`ApiModeConfirmed` and `ApnConfigured` are about start-up counting nothing: a reply is
taken for that of the command last typed. A reply of the run before a restart, slower
than the guard time, is not in `Noise`; it would shift every reply by one. `StartupCompletes` holds in the
same run because it promises nothing once something asked for was not done (`failed`):
no command is ever typed again.

`ConnectedMeansConnected` and `CloseIsNoticed` are about the one-place mailbox: an
answer to an earlier request must not pass for this one's, and a loss must not
disappear behind a later frame. The second holds only because TX_STATUS failures
reset the socket too, and because a frame that overwrites the report of a loss is
itself one: the mutant without the TX_STATUS check breaks it. `Lockstep` says which
pairs of states the two machines can be in at each half of a round. `WireOrder`
says that no reset, retry or refused send puts a second CONNECT, or anything after
a DISCONNECT, on one connection. `NoFalseAck`, `DupHonest`, `AtMostOnce` and
`ImplementsSession` are about one request over overwriting, retries and reconnections.
`AtMostOnce` is what `publish()` says of QoS 0, whose sends may be refused and tried again
like those of the others. `ImplementsSession` adds the order of things: that a request
that may be repeated is not given up too early and is settled by its own acknowledgement.

`WaitsRunOut` is what the three liveness properties of `mqtt_progress` rest on, as a safety
property: no frame, packet or reset restarts the timer of a wait that goes on, and a poll
that finds it run out ends the wait. The radio's general client could keep the cooldown
going for ever by calling `resetSocket()` in it; that the real one does not is part of what
is checked. What the property leaves to liveness is that polls and ticks keep coming.

`SlotIsFree` is about the slot that one insertion looks for and a later one uses.
`WellLinked` and `ImplementsFifo` are about `remove()` in the middle and at the ends, and
about `dequeue()` leaving `m_head` at a node that is gone. `ResetFrees` is about `unlink()`
marking the neighbours of a node as linked, in `reset()` those already freed.

`Fits` needs that no report is cut and is not as close as it looks: a report has 132
characters at first and would need 150 to be cut, which its growing numbers reach after
more than six years; no run takes the branch of a cut one. `ReportsEveryPeriod` says that the unsigned 32-bit difference of
`millis()` and an int is right after 24 days, when the int becomes negative, and after
49, when `millis()` starts again. `TimestampsGrow` says where the timestamps, made from
that int, do not grow.

Refuted, each a statement of a comment, a test or a name of the source:

| Run | Statement | What the run shows |
|---|---|---|
| `claim_apn` | the stored name "matches the desired APN" | a name the wanted one begins with is taken for it |
| `claim_accepted` | poll() says CONNECTED when "messages can now be published" | a CONNACK left in `g_receive` by the connection before is taken for this one's |
| `claim_disconnect` | "Disconnect after transmission" | the PUBACK overtakes TX_STATUS, the radio is SENDING, DISCONNECT is refused |
| `claim_retransmit` | QoS 1 is "At least once", a request "will be sent", failed packets are retransmitted | a QoS 1 request that disconnects is dropped by its first timeout when its only send was refused, its tries unused |
| `claim_tries` | `GB4MQTT_PUBLISH_MAX_TRIES`; QoS 2 is "Only once" | a QoS 2 request is sent three times with `MaxTries` 1: `tries > MAX` is tested before the increment (six sends with 4) |
| `claim_queue` | with removals, a queue is full when it has `QUEUE_SIZE` elements (`test.cpp:262`) | three nodes, two elements, `isFull()` and a refusal: slot 0 is not searched after the last |

These runs end at the shortest counterexample and the statements fail in other ways too.
`ConnectedMeansAccepted` fails by a PUBLISH left over in `g_receive`: the status returned for it
was never assigned and may be GOT_CONNACK. `AtLeastOnce` fails when the request has been sent
once and not acknowledged; QoS 1 is then not sent again either. `WithinMaxTries` fails with QoS 1
(`TriesLeft` does not look at it), and `DisconnectIsSent` with QoS 0, which is finished where it
is sent: the client then stays connected.

One statement has no run. gb4xbee.cpp:650 counts the cooldown "since closing a socket before
creating a new socket"; `resetSocket()` closes nothing, the call that creates the next socket
does (line 637), and after a create timeout (line 283) there is no cooldown at all. The model has
these steps; what the modem makes of them is outside it.

`claim_queue` takes the byte behind the array to read as in use, where the program has a
defined course. A second way to it is in the model too: a queue that has been emptied
keeps `m_head` at an old node, which the next insertion links for good.

### Bounds

* `IdMod` 2 (256 in the code): a request and the one it overwrites are told apart;
  `Unused` keeps a third from being confused with the first.
* `MaxUart` 2: two frames in one tick are what it takes to overwrite one. 1 in
  `mqtt_requests` and `mqtt_progress`; there the mailbox is overwritten across ticks.
* `MaxOwed` 1 or 2: messages without TX_STATUS. 2 is what the send timeout makes
  possible (SENDING gives up after a second, and another message is sent).
* `MaxTries` 0 or 1 (4 in the code): no retry beyond the first, and one more.
* `Limit` 0 or 1: a timer expires one or two ticks after it starts. Only whether it
  has expired is ever read. 2 for the publish timer in `mqtt_progress`, so that polls come
  in the middle of that wait, where a restarted timer shows.
* `Requests`: the kinds of request the application publishes.
* `N_MEMB` 4 in `queue_fifo`: a node in the middle with a neighbour on each side, and one
  more; 3 in `claim_queue`. Values only have to be told apart.
* `Word` 20, `Period` 2, `PollTime` 1 and 2, `MaxUptime` 44: two turns of `millis()` and three
  changes of sign, at every alignment of the period. `Length` 132 and 149, the shortest
  report and the longest that is not cut; 6 reports of 150 as in the code.

`CHECK_DEADLOCK FALSE` where the model ends: at `MaxUptime`, and where the queue has
written behind its array.

### Fairness

`Spec` has weak fairness of `RadioPoll` and `MQTTPoll`, which the endless loop of
`main.cpp` justifies, and of the clock. Nothing else: the modem, the network, the
broker and the application owe nothing, and `Dispatch` owes nothing either, for a
frame may always be late. `mqtt_progress` is about exactly that.
`StartupSpec` has the modem and the line fair too: start-up has no retry, so nothing
less would bring it to an end.

## 4. The proofs

Checked by `tlapm` (SMT, Zenon, LS4), for every value of the constants that meets the
assumptions the modules name - in words: limits are naturals, there is at least one
identifier and room for one frame, the timers are those of the code, requests have a
QoS of 0 to 2, sizes are positive. Hypotheses beyond these are named in the theorems.

`GB4XBeeProofs`, of `RadioSpec`:

* `RadioTypeCorrect`: `[]RadioTypeOK`.
* `RadioConnectedMeansConnected`: `[]ConnectedMeansConnected`. Not inductive: CONNECTED
  is entered on a frame that says so, found on the line or unread in `g_notify`.
  `ConnectionInv` adds that such a frame exists only while the modem's socket is up or
  has gone down, and what keeps it so: a new socket begins with an empty line and
  mailbox, and there is no connection before `connect()`, which is called once.
* `RadioCloseIsNoticed`: `[]CloseIsNoticed`. Not inductive: the report of a loss may be
  overwritten. `LossInv` adds that while the connection is down the last frame on the
  line reports a loss, or the mailbox does if the line is empty and then still unread
  if the radio is open: whatever overwrites a report is followed by another.

`GB4MQTTProofs`, of `Spec`:

* `StaysInStep`: `[]Lockstep`, which is inductive with the part of the types it needs.
* `ClientKeepsTheRule`: `ImplementsRadio`. Each step of the client maps to a
  `ClientStep`, the clock and `publish` to `Passing`, the broker to `Environment`;
  `Lockstep` supplies the rule for `connect()`.
* `TypeCorrect`: `[]TypeOK`; `tries` stays below `MaxTries + 2` because it is tested.
* `ConnectionCorrect`: the two properties of the radio, of the stack, by the refinement.
* `WaitsAreLimited`: `WaitsRunOut`. That the client spares the radio's timers follows from
  the refinement: a `ClientStep` restarts none but those of `resetSocket()`, `connect()` and
  `sendMessage()`, and `Lockstep` says where these are called. The proof needs no bound on
  the limits.

`GB4MQTTRequestProofs`, of `Spec`:

* `WireOrderKept`: `[]WireOrder`. `WireInv` says in which states the client has sent CONNECT
  on this connection and in which it has sent nothing.
* `QoS0IsSentOnce`, `DupIsHonest`: `[]AtMostOnce`, `[]DupHonest`. Neither is inductive: that a
  request is still active has to leave room for one more copy, and the DUP flag has to
  be right between two sends as well. `SendInv` counts copies against `tries`,
  `ready_to_send` and `active`.
* `NoneFalselyAcknowledged`: `[]NoFalseAck`. `AckInv` follows the identifier backwards: a
  PUBACK with it, in the mailbox or on the line, means that the broker has the request,
  a PUBLISH with it in the network that it has been sent. `Unused` keeps it true when
  `publish()` takes the next identifier, and is all that does.
* `LivesAsSession`: `ImplementsSession`. A step of the client is the step of `Session` that
  `m_publish_request` shows; what `Session` asks of `copies` and of `taken` is in `SendInv`
  and `AckInv`.

`GB4XBeeStartupProofs`, of `StartupSpec`:

* `StartupTypeCorrect`: `[]StartupTypeOK`.
* `ApiModeIsConfirmed`: `[]ApiModeConfirmed`, if no O is on the line at first (`QuietNoise`): the
  machine takes any OK for the one it waits for. `RepliesInv` says that a command is typed
  only when no byte of an OK is left, that there is then one OK at most, at the end of
  what is under way, and what it means for the modem.
* `ApnIsConfigured`: `[]ApnConfigured`, if no stored name is a beginning of the wanted one and
  neither the response to the query nor the sending of the name fails (`PlainApn`); each
  of these does defeat it, the first in `claim_apn`. `ApnInv` says what the flags are
  worth: one name answered, read once, is still the modem's.

`MainLoopProofs`, of `LoopSpec`:

* `LoopTypeCorrect`: `[]LoopTypeOK`.
* `ReportsAreTimely`: `ReportsEveryPeriod`, if no poll lasts a turn of the clock less a period
  (`Timely`). `TimeInv` says that `delay_start` is the time of the last report, as an int and
  less than a turn ago; the lemmas `Since` and `Remainder` are the arithmetic: whole turns
  do not count. The timers of the client and the radio use the same difference.
* `BatchesFit`: `[]Fits`, if no report is cut, there are at least two and the buffer is no larger than a
  message (`Sized`). `SizeInv` bounds `report_index` by the reports written.
* `MessagesAreWellFormed`, `TimestampsAreOrdered`: the list stays open until its last
  report; a timestamp is the time less a turn of the clock for each era (`StampEra`).

`StaticQueueProofs`, of `QueueSpec`, for a queue of any capacity and any elements, and
whatever lies behind its array:

* `QueueIsFifo`: `ImplementsFifo`. Every call on the nodes is that call of `BoundedFifo` on the
  values along the chain, a refused insertion or a write behind the array leaves them alone,
  and there is room whenever one is taken.
* `NodesAreWellLinked`, `SlotStaysFree`, `ResetFreesAll`, `QueueTypeCorrect`: `[]WellLinked`,
  `[]SlotIsFree`, `ResetFrees`, `[]QueueTypeOK`.

None of them is inductive, because a node may count as linked that is in no queue: the one
`m_head` is left at when the queue is emptied gets linked to the next element. `LinksInv` says
what there is instead: a line `c`, a sequence of different nodes linked to each other both
ways, outside which no node has a link, and the queue is that line without its first `d`
nodes, `d` being 0 or 1. `UnlinkInside`, `UnlinkOutside` and `LinkAtHead` say what `unlink()` and
`link()` make of a line: `RemoveAt`, nothing, and `Append` or a line begun again. `SearchInv` adds
that the slot found in advance does not count as linked, and that a full queue has no slot
among those it searches; it holds because `unlink()` marks only nodes that are linked already
(`Relinked`).

`length()` and `reset()` are recursions over the array. They are written as recursive
functions, and what they compute is proved by induction (`ChainOfNodes`, `AllUnlinked`): on the
set of numbers for which the claim holds (`SetInduction`, from the least element of a set of
naturals), which needs no operator as a parameter.

Only model-checked: `WaitsEnd`, `ClientWaitsEnd`, `RequestSettles` and `StartupCompletes`, which
are liveness under fairness and beyond this prover; of the first three the part that is safety
is proved (`WaitsAreLimited`).

## 5. Not modelled

* **A failed `begin()`**, after which `m_state` is never assigned. Bytes of one reply
  beyond those `pollResponseOK()` compares, and the size of its buffer.
* The set-up of `main()` before its loop (the compile time as the epoch), the text of a
  report, and the `BRIDGE_DESTINATION` variant, which publishes a constant.
* `getElem`, `getNode`, `peak`: they change nothing. A `remove()` of a node that is not in
  the queue, which no test does.
* `sendPingRequest` and `pollKeepAliveTimer`: no caller. The keepalive timer itself is
  modelled, restarted where the code restarts it. So a session in which nothing is heard
  is kept; `main.cpp` has none.
* Payload bytes, TLS, `end()` and the methods declared without a body.
* Build files, scripts, certificates, the recorded log, `statemachine.csv`.

## 6. Plan

Done: all modules above, their runs and theorems. Left, in this order:

1. Delivery: under an environment that is cooperative but slower than the poll loop, a
   request is acknowledged in the end, though `AWAIT_CONNECT_RESPONSE` resets a socket when two
   frames come in one tick.
2. A restart of the MCU while the modem goes on: `Noise` with the replies of the run
   before, and a modem that is left in command mode.

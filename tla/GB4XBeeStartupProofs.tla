------------------------ MODULE GB4XBeeStartupProofs ------------------------
(***************************************************************************)
(* What holds of start-up for every value of the constants: its types, and *)
(* the two things it hands over, a modem in API mode and the wanted access *)
(* point name.  The last two hold of the modem the theorems describe.      *)
(***************************************************************************)
EXTENDS GB4XBeeStartup, SequenceTheorems, TLAPS

(***************************************************************************)
(* Types                                                                   *)
(***************************************************************************)

\* What the firmware types at the modem.
Command == {"+++", "ATAP1", "ATCN", "data"}

\* The commands it sends in frames.
FrameCommand == {"read AN", "set AN", "WR"}

\* A sequence one element longer or shorter, or with a sequence after it.
LEMMA QueueType ==
    ASSUME NEW S, NEW s \in Seq(S)
    PROVE  /\ \A e \in S : Append(s, e) \in Seq(S)
           /\ s # <<>> => Head(s) \in S /\ Tail(s) \in Seq(S)
           /\ \A t \in Seq(S) : s \o t \in Seq(S)
           /\ <<>> \in Seq(S)
<1>1. \A t \in Seq(S) : s \o t \in Seq(S)
  BY ConcatProperties
<1>2. s # <<>> => Head(s) \in S /\ Tail(s) \in Seq(S)
  BY HeadTailProperties
<1> QED
  BY <1>1, <1>2, EmptySeq

\* Two elements make a sequence.
LEMMA PairType ==
    ASSUME NEW S, NEW e \in S, NEW f \in S
    PROVE  <<e, f>> \in Seq(S)
OBVIOUS

\* The replies are bytes.
LEMMA RepliesType == OK \in Seq(Byte) /\ ERROR \in Seq(Byte)
BY DEF OK, ERROR, Byte

\* Timers stay numbers.
LEMMA StartupTimers ==
    ASSUME MillisTypeOK
    PROVE  /\ \A T : Restart(T) => MillisTypeOK'
           /\ Tick => MillisTypeOK'
           /\ UNCHANGED elapsed => MillisTypeOK'
BY LimitAssumption DEF MillisTypeOK, Restart, Tick, Expired

\* A step of the firmware keeps the types.
LEMMA PollStartupType ==
    ASSUME StartupTypeOK, PollStartup
    PROVE  StartupTypeOK'
<1> USE StartupTimers DEF StartupTypeOK
<1>1. UNCHANGED <<modem, line>>
  BY DEF PollStartup
<1>2. CASE CommandMode
  <2> DEFINE TypesKept == /\ MillisTypeOK' /\ m_state' \in StartupState
                          /\ typed' \in Seq(Command) /\ serial' \in Seq(Byte)
  <2>1. TypesKept
    <3> USE DEF Go
    <3>1. typed \in Seq(Command)
      BY DEF Command
    <3>2. ASSUME NEW c \in Command, NEW T, Type(c, T), m_state' \in StartupState
          PROVE  TypesKept
      <4>1. PICK e \in Command : typed' = Append(typed, e)
        BY <3>2 DEF Type, Command
      <4>2. typed' \in Seq(Command)
        BY <3>1, <4>1, QueueType
      <4> QED
        BY <3>2, <4>2 DEF Type
    <3>3. ASSUME NEW s \in StartupState, NEW next \in StartupState,
                 AwaitGuard(s, next) \/ AwaitOK(s, next)
          PROVE  TypesKept
      <4>1. m_state' \in StartupState /\ serial' \in {serial, <<>>} /\ UNCHANGED <<elapsed, typed>>
        BY <3>3 DEF AwaitGuard, AwaitOK
      <4> QED
        BY <3>1, <4>1, EmptySeq
    <3>4. CASE BeginGuard
      BY <3>1, <3>4 DEF BeginGuard, StartupState
    <3>5. CASE BeginCommandMode \/ BeginApiMode \/ BeginExit
      <4>1. m_state' \in StartupState
        BY <3>5 DEF BeginCommandMode, BeginApiMode, BeginExit, StartupState
      <4>2. PICK c \in Command : \E T : Type(c, T)
        BY <3>5 DEF BeginCommandMode, BeginApiMode, BeginExit, Command
      <4> QED
        BY <3>2, <4>1, <4>2
    <3>6. CASE ~(BeginGuard \/ BeginCommandMode \/ BeginApiMode \/ BeginExit)
      <4>1. \E s \in StartupState, next \in StartupState : AwaitGuard(s, next) \/ AwaitOK(s, next)
        BY <1>2, <3>6 DEF CommandMode, StartupState
      <4> QED
        BY <3>3, <4>1
    <3> QED
      BY <3>4, <3>5, <3>6
  <2> QED
    BY <1>1, <1>2, <2>1 DEF CommandMode, Command, modem, driver
<1>3. CASE ApiMode
  <2>1. /\ m_state' \in StartupState
        /\ got_access_point_name' \in BOOLEAN /\ need_set_access_point_name' \in BOOLEAN
        /\ query' \in {"none", "busy", "done", "failed"}
        /\ cmds' \in Seq(FrameCommand)
        /\ answer' \in Apn \cup {"none"} /\ failed' \in BOOLEAN
    <3> USE DEF Go, StartupState
    <3>1. /\ cmds \in Seq(FrameCommand)
          /\ Append(cmds, "read AN") \in Seq(FrameCommand)
          /\ Append(cmds, "set AN") \in Seq(FrameCommand)
          /\ Append(cmds, "WR") \in Seq(FrameCommand)
          /\ cmds \o <<"set AN", "WR">> \in Seq(FrameCommand)
      <4>1. cmds \in Seq(FrameCommand)
        BY DEF FrameCommand
      <4>2. {"read AN", "set AN", "WR"} \subseteq FrameCommand
        BY DEF FrameCommand
      <4>3. <<"set AN", "WR">> \in Seq(FrameCommand)
        BY <4>2, PairType
      <4>4. cmds \o <<"set AN", "WR">> \in Seq(FrameCommand)
        BY <4>1, <4>3, QueueType
      <4>5. \A c \in FrameCommand : Append(cmds, c) \in Seq(FrameCommand)
        BY <4>1, QueueType
      <4> QED
        BY <4>1, <4>2, <4>4, <4>5
    <3>2. CASE BeginInit \/ AwaitInit
      BY <3>1, <3>2 DEF BeginInit, AwaitInit
    <3>3. CASE BeginReadApn
      BY <3>1, <3>3 DEF BeginReadApn
    <3>4. CASE AwaitReadApn
      BY <3>1, <3>4 DEF AwaitReadApn
    <3>5. CASE SetApn
      BY <3>1, <3>5 DEF SetApn
    <3> QED
      BY <1>3, <3>2, <3>3, <3>4, <3>5 DEF ApiMode
  <2> QED
    BY <1>1, <1>3, <2>1 DEF ApiMode, FrameCommand, modem
<1> QED
  BY <1>2, <1>3 DEF PollStartup

\* So does one of the modem.
LEMMA StartupModemType ==
    ASSUME StartupTypeOK, StartupModem
    PROVE  StartupTypeOK'
<1> USE DEF StartupTypeOK
<1>1. UNCHANGED <<elapsed, firmware, serial>>
  BY DEF StartupModem
<1>2. MillisTypeOK'
  BY <1>1, StartupTimers
<1>3. \A api \in BOOLEAN : Resting(api) \in {"transparent", "api", "command"}
  BY DEF Resting
<1>4. CASE ModemHears
  <2>1. typed' \in Seq({"+++", "ATAP1", "ATCN", "data"}) /\ UNCHANGED driver
    BY <1>4, QueueType DEF ModemHears
  <2>2. line \o OK \in Seq(Byte) /\ line \o ERROR \in Seq(Byte)
    BY QueueType, RepliesType
  <2>3. /\ line' \in Seq(Byte) /\ mode' \in {"transparent", "api", "command"}
        /\ ap' \in BOOLEAN /\ apn' \in Apn /\ failed' \in BOOLEAN
    BY <1>3, <1>4, <2>2
       DEF ModemHears, ModemEscape, ModemCommand, ModemIgnores, Reply, modem
  <2> QED
    BY <1>1, <1>2, <2>1, <2>3 DEF firmware, driver
<1>5. CASE ModemLapse
  BY <1>1, <1>2, <1>3, <1>5 DEF ModemLapse, firmware, driver
<1>6. CASE ModemQuery
  BY <1>1, <1>2, <1>6 DEF ModemQuery, firmware, modem
<1>7. CASE ModemExecutes
  <2>1. cmds' \in Seq({"read AN", "set AN", "WR"})
    BY <1>7, QueueType DEF ModemExecutes
  <2>2. apn' \in Apn /\ answer' \in Apn \cup {"none"} /\ failed' \in BOOLEAN
    BY <1>7 DEF ModemExecutes, Apn
  <2> QED
    BY <1>1, <1>2, <1>7, <2>1, <2>2 DEF ModemExecutes, firmware
<1> QED
  BY <1>4, <1>5, <1>6, <1>7 DEF StartupModem

\* And every other.
LEMMA StartupTypeStep ==
    ASSUME StartupTypeOK, [StartupNext]_vars
    PROVE  StartupTypeOK'
<1>1. CASE Arrive
  <2>1. serial' \in Seq(Byte) /\ line' \in Seq(Byte)
    BY <1>1, QueueType DEF Arrive, StartupTypeOK
  <2> QED
    BY <1>1, <2>1, StartupTimers DEF Arrive, StartupTypeOK, firmware, driver, modem
<1>2. CASE StartupClock \/ UNCHANGED vars
  BY <1>2, StartupTimers DEF StartupClock, vars, StartupTypeOK, firmware, driver, modem
<1> QED
  BY <1>1, <1>2, PollStartupType, StartupModemType DEF StartupNext

\* The variables begin with their types.
LEMMA StartupTypeInit == StartupInit => StartupTypeOK
<1> SUFFICES ASSUME StartupInit PROVE StartupTypeOK
  OBVIOUS
<1>1. MillisTypeOK
  BY DEF StartupInit, MillisTypeOK
<1>2. /\ line \in Seq(Byte) /\ apn \in Apn /\ failed \in BOOLEAN
      /\ mode \in {"transparent", "api", "command"}
  BY StartupAssumption DEF StartupInit, Resting
<1>3. /\ serial \in Seq(Byte) /\ cmds \in Seq({"read AN", "set AN", "WR"})
      /\ typed \in Seq({"+++", "ATAP1", "ATCN", "data"})
  BY EmptySeq DEF StartupInit
<1> QED
  BY <1>1, <1>2, <1>3 DEF StartupInit, StartupTypeOK, StartupState

\* Every variable of start-up keeps its type.
THEOREM StartupTypeCorrect == StartupSpec => []StartupTypeOK
BY StartupTypeInit, StartupTypeStep, PTL DEF StartupSpec

-----------------------------------------------------------------------------
(***************************************************************************)
(* ApiModeConfirmed, when the bytes on the line at first hold no O: a      *)
(* stray OK would be taken for the reply to "+++".  The machine takes any  *)
(* OK for the one it waits for.  That is right because it types a command  *)
(* only when no byte of an OK is left, and because one OK is all there is  *)
(* until it has read it; RepliesInv says how each state is reached.        *)
(***************************************************************************)

QuietNoise == \A n \in Noise : \A i \in DOMAIN n : n[i] # "O"

\* No byte of an OK is on its way.
Harmless ==
    /\ \A i \in DOMAIN serial : serial[i] # "O"
    /\ \A i \in DOMAIN line : line[i] # "O"

\* If an OK is, it is the last thing on its way.
OnlyReply ==
    /\ \A i \in DOMAIN serial : serial[i] = "O" => Len(serial) + Len(line) = i + 2
    /\ \A i \in DOMAIN line : line[i] = "O" => Len(line) = i + 2

\* Nothing typed, and nothing to answer.
Settled == typed = <<>> /\ Harmless

\* One of the commands has been typed and is not taken, or has been answered; an
\* OK is under way only if done.
Awaiting(commands, done) ==
    \/ (\E c \in commands : typed = <<c>>) /\ Harmless
    \/ typed = <<>> /\ OnlyReply /\ (Harmless \/ done)

RepliesInv ==
    CASE m_state \in {"START", "AWAIT_COMMAND_MODE_GUARD_0", "BEGIN_COMMAND_MODE",
                      "BEGIN_API_MODE_COMMAND"} -> Settled
      [] m_state \in {"AWAIT_COMMAND_MODE_GUARD_1", "AWAIT_COMMAND_MODE_RESPONSE"} ->
           Awaiting({"+++", "data"}, TRUE)
      [] m_state = "AWAIT_API_MODE_RESPONSE" -> Awaiting({"ATAP1"}, ap)
      [] m_state = "BEGIN_COMMAND_MODE_EXIT" -> Settled /\ ap
      [] m_state = "AWAIT_COMMAND_MODE_EXIT_RESPONSE" ->
           Awaiting({"ATCN"}, mode = "api") /\ ap
      [] OTHER -> typed = <<>> /\ mode = "api"

\* Reading the serial line: what is left, and what an OK at its front means.
LEMMA ReadReply ==
    ASSUME StartupTypeOK, OnlyReply, NEW s, NEW next, AwaitOK(s, next), UNCHANGED line
    PROVE  /\ OnlyReply'
           /\ Harmless => Harmless'
           /\ m_state' # s => Harmless' /\ ~Harmless
<1>1. /\ Len(serial) \in Nat /\ Len(line) \in Nat
      /\ DOMAIN serial = 1 .. Len(serial) /\ DOMAIN line = 1 .. Len(line)
  <2>1. serial \in Seq(Byte) /\ line \in Seq(Byte)
    BY DEF StartupTypeOK
  <2> QED
    BY <2>1, LenProperties
<1>2. serial' = serial \/ serial' = <<>>
  BY DEF AwaitOK
<1>3. OnlyReply' /\ (Harmless => Harmless')
  <2>1. CASE serial' = serial
    BY <2>1 DEF OnlyReply, Harmless
  <2>2. CASE serial' = <<>>
    BY <2>2 DEF OnlyReply, Harmless
  <2> QED
    BY <1>2, <2>1, <2>2
<1>4. ASSUME m_state' # s
      PROVE  Harmless' /\ ~Harmless
  <2>1. Len(serial) >= 3 /\ SubSeq(serial, 1, 2) = <<"O", "K">> /\ serial' = <<>>
    BY <1>4 DEF AwaitOK, Go
  <2>2. serial[1] = "O"
    <3>1. serial \in Seq(Byte)
      BY DEF StartupTypeOK
    <3>2. SubSeq(serial, 1, 2)[1] = serial[1]
      <4>1. \A i \in 1 .. 2 : serial[i] \in Byte
        BY <1>1, <2>1, <3>1, ElementOfSeq
      <4>2. \A i \in 1 .. 2 - 1 + 1 : SubSeq(serial, 1, 2)[i] = serial[1 + i - 1]
        BY <4>1, SubSeqProperties
      <4> QED
        BY <4>2
    <3>3. <<"O", "K">>[1] = "O"
      OBVIOUS
    <3> QED
      BY <2>1, <3>2, <3>3
  <2>3. 1 \in DOMAIN serial
    BY <1>1, <2>1
  <2>4. Len(line) = 0
    BY <1>1, <2>1, <2>2, <2>3 DEF OnlyReply
  <2>5. DOMAIN line = {} /\ DOMAIN serial' = {}
    BY <1>1, <2>1, <2>4
  <2> QED
    BY <2>2, <2>3, <2>5 DEF Harmless
<1> QED
  BY <1>3, <1>4

\* What a step that may read the reply in state s leaves, if it was awaiting one.
Answered(s, commands, done) ==
    IF m_state' = s
      THEN \/ (\E c \in commands : typed' = <<c>>) /\ Harmless'
           \/ typed' = <<>> /\ OnlyReply' /\ (Harmless' \/ done)
      ELSE typed' = <<>> /\ Harmless' /\ done

\* Nothing on its way is a special case of one reply on its way.
LEMMA HarmlessIsOnly == Harmless => OnlyReply
BY DEF Harmless, OnlyReply

\* The firmware types one command at a time.
LEMMA RepliesPoll ==
    ASSUME StartupTypeOK, RepliesInv, PollStartup
    PROVE  RepliesInv'
<1>1. UNCHANGED <<line, mode, ap>>
  BY DEF PollStartup, modem
<1> USE DEF Go
<1>2. CASE BeginGuard
  BY <1>1, <1>2 DEF BeginGuard, RepliesInv, Settled, Harmless
<1>3. CASE BeginCommandMode
  <2>1. typed = <<>> /\ Harmless
    BY <1>3 DEF BeginCommandMode, RepliesInv, Settled
  <2>2. typed' \in {<<"+++">>, <<"data">>} /\ serial' = serial
    BY <1>3, <2>1 DEF BeginCommandMode, Type
  <2>3. Harmless'
    BY <1>1, <2>1, <2>2 DEF Harmless
  <2> QED
    BY <1>3, <2>2, <2>3 DEF BeginCommandMode, RepliesInv, Awaiting
<1>4. CASE BeginApiMode
  <2>1. typed = <<>> /\ Harmless
    BY <1>4 DEF BeginApiMode, RepliesInv, Settled
  <2>2. typed' = <<"ATAP1">> /\ serial' = serial
    BY <1>4, <2>1 DEF BeginApiMode, Type
  <2>3. Harmless'
    BY <1>1, <2>1, <2>2 DEF Harmless
  <2> QED
    BY <1>4, <2>2, <2>3 DEF BeginApiMode, RepliesInv, Awaiting
<1>5. CASE BeginExit
  <2>1. typed = <<>> /\ Harmless /\ ap
    BY <1>5 DEF BeginExit, RepliesInv, Settled
  <2>2. typed' = <<"ATCN">> /\ serial' = serial
    BY <1>5, <2>1 DEF BeginExit, Type
  <2>3. Harmless'
    BY <1>1, <2>1, <2>2 DEF Harmless
  <2> QED
    BY <1>1, <1>5, <2>1, <2>2, <2>3 DEF BeginExit, RepliesInv, Awaiting
<1>6. CASE AwaitGuard("AWAIT_COMMAND_MODE_GUARD_0", "BEGIN_COMMAND_MODE")
  BY <1>1, <1>6 DEF AwaitGuard, RepliesInv, Settled, Harmless
<1>7. CASE AwaitGuard("AWAIT_COMMAND_MODE_GUARD_1", "AWAIT_COMMAND_MODE_RESPONSE")
  BY <1>1, <1>7 DEF AwaitGuard, RepliesInv, Awaiting, Harmless, OnlyReply
<1>8. ASSUME NEW s, NEW next, NEW commands, NEW done \in BOOLEAN,
             AwaitOK(s, next), Awaiting(commands, done)
      PROVE  Answered(s, commands, done)
  <2>1. OnlyReply /\ typed' = typed
    BY <1>8, HarmlessIsOnly DEF Awaiting, AwaitOK
  <2>2. /\ OnlyReply'
        /\ Harmless => Harmless'
        /\ m_state' # s => Harmless' /\ ~Harmless
    BY <1>1, <1>8, <2>1, ReadReply
  <2> QED
    BY <1>8, <2>1, <2>2 DEF Awaiting, Answered
<1>9. CASE AwaitOK("AWAIT_COMMAND_MODE_RESPONSE", "BEGIN_API_MODE_COMMAND")
  <2>1. Awaiting({"+++", "data"}, TRUE)
    BY <1>9 DEF AwaitOK, RepliesInv, StartupTypeOK
  <2>2. m_state' \in {"AWAIT_COMMAND_MODE_RESPONSE", "BEGIN_API_MODE_COMMAND"}
    BY <1>9 DEF AwaitOK
  <2>3. Answered("AWAIT_COMMAND_MODE_RESPONSE", {"+++", "data"}, TRUE)
    BY <1>8, <1>9, <2>1
  <2> QED
    BY <2>1, <2>2, <2>3 DEF RepliesInv, Answered, Awaiting, Settled
<1>10. CASE AwaitOK("AWAIT_API_MODE_RESPONSE", "BEGIN_COMMAND_MODE_EXIT")
  <2>1. Awaiting({"ATAP1"}, ap) /\ ap \in BOOLEAN
    BY <1>10 DEF AwaitOK, RepliesInv, StartupTypeOK
  <2>2. m_state' \in {"AWAIT_API_MODE_RESPONSE", "BEGIN_COMMAND_MODE_EXIT"}
    BY <1>10 DEF AwaitOK
  <2>3. Answered("AWAIT_API_MODE_RESPONSE", {"ATAP1"}, ap)
    BY <1>8, <1>10, <2>1
  <2> QED
    BY <1>1, <2>1, <2>2, <2>3 DEF RepliesInv, Answered, Awaiting, Settled
<1>11. CASE AwaitOK("AWAIT_COMMAND_MODE_EXIT_RESPONSE", "BEGIN_INIT_XBEE_API")
  <2>1. Awaiting({"ATCN"}, mode = "api") /\ (mode = "api") \in BOOLEAN /\ ap
    BY <1>11 DEF AwaitOK, RepliesInv, StartupTypeOK
  <2>2. m_state' \in {"AWAIT_COMMAND_MODE_EXIT_RESPONSE", "BEGIN_INIT_XBEE_API"}
    BY <1>11 DEF AwaitOK
  <2>3. Answered("AWAIT_COMMAND_MODE_EXIT_RESPONSE", {"ATCN"}, mode = "api")
    BY <1>8, <1>11, <2>1
  <2> QED
    BY <1>1, <2>1, <2>2, <2>3 DEF RepliesInv, Answered, Awaiting, Settled
<1>12. CASE ApiMode
  <2>1. typed' = typed
    BY <1>12 DEF ApiMode
  <2>2. /\ m_state \in {"BEGIN_INIT_XBEE_API", "AWAIT_INIT_XBEE_API_DONE", "BEGIN_READ_APN",
                         "AWAIT_READ_APN_RESPONSE", "SET_APN"}
        /\ m_state' \in {"AWAIT_INIT_XBEE_API_DONE", "BEGIN_READ_APN",
                          "AWAIT_READ_APN_RESPONSE", "SET_APN", "BEGIN_CREATE_SOCKET"}
    BY <1>12 DEF ApiMode, BeginInit, AwaitInit, BeginReadApn, AwaitReadApn, SetApn
  <2> QED
    BY <1>1, <2>1, <2>2 DEF RepliesInv
<1> QED
  BY <1>2, <1>3, <1>4, <1>5, <1>6, <1>7, <1>9, <1>10, <1>11, <1>12
     DEF PollStartup, CommandMode

\* The bytes of two sequences put together.
Together(s, t, u) ==
    /\ Len(s) \in Nat /\ Len(u) = Len(s) + Len(t)
    /\ DOMAIN s = 1 .. Len(s) /\ DOMAIN u = 1 .. Len(s) + Len(t)
    /\ \A i \in 1 .. Len(s) + Len(t) :
         u[i] = IF i <= Len(s) THEN s[i] ELSE t[i - Len(s)]

\* They are that.
LEMMA BytesTogether == \A s, t \in Seq(Byte) : Together(s, t, s \o t)
<1> TAKE s, t \in Seq(Byte)
<1>1. s \o t \in Seq(Byte)
  BY ConcatProperties
<1> QED
  BY <1>1, ConcatProperties, LenProperties DEF Together

\* One OK, or an ERROR, added to a line that carries none.
LEMMA ReplyAdds ==
    ASSUME StartupTypeOK, Harmless, UNCHANGED serial
    PROVE  /\ Reply(OK) => OnlyReply'
           /\ Reply(ERROR) => Harmless'
<1>1. line \in Seq(Byte) /\ serial \in Seq(Byte)
  BY DEF StartupTypeOK
<1>2. ASSUME Reply(OK)
      PROVE  OnlyReply'
  <2>1. /\ Len(OK) = 3 /\ \A i \in 1 .. 3 : OK[i] = "O" => i = 1
    BY DEF OK
  <2>2. /\ Len(line) \in Nat /\ Len(line') = Len(line) + 3
        /\ DOMAIN line' = 1 .. Len(line) + 3 /\ DOMAIN line = 1 .. Len(line)
        /\ \A i \in 1 .. Len(line) + 3 :
             line'[i] = IF i <= Len(line) THEN line[i] ELSE OK[i - Len(line)]
    <3>1. OK \in Seq(Byte) /\ line' = line \o OK
      BY <1>2, RepliesType DEF Reply
    <3>2. Together(line, OK, line')
      BY <1>1, <3>1, BytesTogether
    <3> QED
      BY <2>1, <3>2 DEF Together
  <2>3. \A i \in DOMAIN line' : line'[i] = "O" => i = Len(line) + 1
    BY <2>1, <2>2 DEF Harmless
  <2> QED
    BY <2>2, <2>3 DEF OnlyReply, Harmless
<1>3. ASSUME Reply(ERROR)
      PROVE  Harmless'
  <2>1. /\ Len(ERROR) = 6 /\ \A i \in 1 .. 6 : ERROR[i] # "O"
    BY DEF ERROR
  <2>2. /\ Len(line) \in Nat /\ DOMAIN line' = 1 .. Len(line) + 6
        /\ DOMAIN line = 1 .. Len(line)
        /\ \A i \in 1 .. Len(line) + 6 :
             line'[i] = IF i <= Len(line) THEN line[i] ELSE ERROR[i - Len(line)]
    <3>1. ERROR \in Seq(Byte) /\ line' = line \o ERROR
      BY <1>3, RepliesType DEF Reply
    <3>2. Together(line, ERROR, line')
      BY <1>1, <3>1, BytesTogether
    <3> QED
      BY <2>1, <3>2 DEF Together
  <2> QED
    BY <2>1, <2>2 DEF Harmless
<1> QED
  BY <1>2, <1>3

\* The modem answers the one command typed.
LEMMA RepliesModem ==
    ASSUME StartupTypeOK, RepliesInv, StartupModem
    PROVE  RepliesInv'
<1>1. UNCHANGED <<m_state, serial>>
  BY DEF StartupModem, firmware
<1>2. ap => Resting(ap) = "api"
  BY DEF Resting
<1>3. CASE ModemHears
  <2>1. typed # <<>> /\ typed' = Tail(typed)
    BY <1>3 DEF ModemHears
  <2>2. PICK c : typed = <<c>> /\ Harmless
    BY <2>1 DEF RepliesInv, Settled, Awaiting
  <2>3. Head(typed) = c /\ Len(typed) = 1 /\ typed' = <<>>
    BY <2>1, <2>2
  <2>4. Harmless' \/ OnlyReply'
    <3>1. CASE UNCHANGED line
      BY <1>1, <2>2, <3>1 DEF Harmless
    <3>2. CASE Reply(OK) \/ Reply(ERROR)
      BY <1>1, <2>2, <3>2, ReplyAdds
    <3> QED
      BY <1>3, <3>1, <3>2 DEF ModemHears, ModemEscape, ModemCommand, ModemIgnores
  <2>5. OnlyReply'
    BY <2>4 DEF Harmless, OnlyReply
  <2>6. CASE c \in {"+++", "data"}
    <3>1. m_state \in {"AWAIT_COMMAND_MODE_GUARD_1", "AWAIT_COMMAND_MODE_RESPONSE"}
      <4>1. \A d : typed = <<d>> => d = c
        BY <2>2
      <4> QED
        BY <2>1, <2>6, <4>1 DEF RepliesInv, Settled, Awaiting
    <3> QED
      BY <1>1, <2>3, <2>5, <3>1 DEF RepliesInv, Awaiting
  <2>7. CASE c = "ATAP1"
    <3>1. m_state = "AWAIT_API_MODE_RESPONSE"
      <4>1. \A d : typed = <<d>> => d = c
        BY <2>2
      <4> QED
        BY <2>1, <2>7, <4>1 DEF RepliesInv, Settled, Awaiting
    <3>2. Harmless' \/ ap'
      <4>1. CASE UNCHANGED line
        BY <1>1, <2>2, <4>1 DEF Harmless
      <4>2. CASE Reply(ERROR)
        BY <1>1, <2>2, <4>2, ReplyAdds
      <4> QED
        BY <1>3, <2>3, <2>7, <4>1, <4>2
           DEF ModemHears, ModemEscape, ModemCommand, ModemIgnores
    <3> QED
      BY <1>1, <2>3, <2>5, <3>1, <3>2 DEF RepliesInv, Awaiting
  <2>8. CASE c = "ATCN"
    <3>1. m_state = "AWAIT_COMMAND_MODE_EXIT_RESPONSE" /\ ap
      <4>1. \A d : typed = <<d>> => d = c
        BY <2>2
      <4> QED
        BY <2>1, <2>8, <4>1 DEF RepliesInv, Settled, Awaiting
    <3>2. ap' = ap /\ (Harmless' \/ mode' = "api")
      <4>1. CASE UNCHANGED line /\ UNCHANGED modem
        BY <1>1, <2>2, <4>1 DEF Harmless, modem
      <4>2. CASE ModemCommand
        BY <1>2, <2>3, <2>8, <3>1, <4>2 DEF ModemCommand
      <4>3. ~ModemEscape
        BY <2>3, <2>8 DEF ModemEscape
      <4> QED
        BY <1>3, <4>1, <4>2, <4>3 DEF ModemHears, ModemIgnores
    <3> QED
      BY <1>1, <2>3, <2>5, <3>1, <3>2 DEF RepliesInv, Awaiting
  <2> QED
    <3>1. c \in {"+++", "ATAP1", "ATCN", "data"}
      BY <2>1, <2>3, HeadTailProperties DEF StartupTypeOK
    <3> QED
      BY <2>6, <2>7, <2>8, <3>1
<1>4. CASE ModemLapse
  <2>1. mode = "command" /\ mode' = Resting(ap) /\ UNCHANGED <<ap, typed, line>>
    BY <1>4 DEF ModemLapse
  <2> QED
    BY <1>1, <1>2, <2>1 DEF RepliesInv, Settled, Awaiting, Harmless, OnlyReply
<1>5. CASE ModemQuery \/ ModemExecutes
  <2>1. UNCHANGED <<mode, ap, typed, line>>
    BY <1>5 DEF ModemQuery, ModemExecutes, modem
  <2> QED
    BY <1>1, <2>1 DEF RepliesInv, Settled, Awaiting, Harmless, OnlyReply
<1> QED
  BY <1>3, <1>4, <1>5 DEF StartupModem

\* A byte that arrives is still on its way.
LEMMA RepliesArrive ==
    ASSUME StartupTypeOK, RepliesInv, Arrive
    PROVE  RepliesInv'
<1>1. UNCHANGED <<m_state, typed, mode, ap>>
  BY DEF Arrive, firmware, modem
<1>2. /\ Len(serial) \in Nat /\ Len(line) \in Nat \ {0}
      /\ Len(serial') = Len(serial) + 1 /\ Len(line') = Len(line) - 1
      /\ DOMAIN serial = 1 .. Len(serial) /\ DOMAIN line = 1 .. Len(line)
      /\ DOMAIN serial' = 1 .. Len(serial) + 1 /\ DOMAIN line' = 1 .. Len(line) - 1
      /\ \A i \in 1 .. Len(serial) : serial'[i] = serial[i]
      /\ serial'[Len(serial) + 1] = line[1]
      /\ \A i \in 1 .. Len(line) - 1 : line'[i] = line[i + 1]
  <2>1. serial \in Seq(Byte) /\ line \in Seq(Byte) /\ line # <<>>
    BY DEF StartupTypeOK, Arrive
  <2>2. serial' = Append(serial, line[1]) /\ line' = Tail(line) /\ line[1] \in Byte
    BY <2>1, EmptySeq DEF Arrive
  <2> QED
    BY <2>1, <2>2, EmptySeq
<1>3. Harmless => Harmless'
  <2> SUFFICES ASSUME Harmless PROVE Harmless'
    OBVIOUS
  <2>1. \A i \in DOMAIN serial' : serial'[i] # "O"
    BY <1>2 DEF Harmless
  <2>2. \A i \in DOMAIN line' : i + 1 \in DOMAIN line /\ line'[i] = line[i + 1]
    BY <1>2
  <2> QED
    BY <2>1, <2>2 DEF Harmless
<1>4. OnlyReply => OnlyReply'
  <2> SUFFICES ASSUME OnlyReply PROVE OnlyReply'
    OBVIOUS
  <2>1. \A i \in DOMAIN serial' : serial'[i] = "O" => Len(serial') + Len(line') = i + 2
    BY <1>2 DEF OnlyReply
  <2>2. \A i \in DOMAIN line' : line'[i] = "O" => Len(line') = i + 2
    <3> SUFFICES ASSUME NEW i \in DOMAIN line', line'[i] = "O"
                 PROVE  Len(line') = i + 2
      OBVIOUS
    <3>1. i \in Int /\ i + 1 \in DOMAIN line /\ line[i + 1] = "O"
      BY <1>2
    <3>2. Len(line) = i + 1 + 2
      BY <3>1 DEF OnlyReply
    <3> QED
      BY <1>2, <3>1, <3>2
  <2> QED
    BY <2>1, <2>2 DEF OnlyReply
<1> QED
  BY <1>1, <1>3, <1>4 DEF RepliesInv, Settled, Awaiting

\* Every step keeps replies and states together.
LEMMA RepliesStep ==
    ASSUME StartupTypeOK, RepliesInv, [StartupNext]_vars
    PROVE  RepliesInv'
<1>1. CASE StartupClock \/ UNCHANGED vars
  BY <1>1 DEF StartupClock, vars, firmware, modem, RepliesInv, Settled, Awaiting, Harmless,
     OnlyReply
<1> QED
  BY <1>1, RepliesPoll, RepliesModem, RepliesArrive DEF StartupNext

\* Once start-up has left command mode the modem is in API mode.
THEOREM ApiModeIsConfirmed == QuietNoise /\ StartupSpec => []ApiModeConfirmed
<1>1. QuietNoise /\ StartupInit => RepliesInv
  BY DEF QuietNoise, StartupInit, RepliesInv, Settled, Harmless
<1>2. RepliesInv => ApiModeConfirmed
  BY DEF RepliesInv, ApiModeConfirmed
<1> QED
  BY <1>1, <1>2, StartupTypeInit, StartupTypeStep, RepliesStep, PTL DEF StartupSpec

-----------------------------------------------------------------------------
(***************************************************************************)
(* ApnConfigured, when no stored name is a proper beginning of the wanted  *)
(* one, and neither the response to the query nor the sending of the new   *)
(* name fails.  The flag got_access_point_name outlives the answer it was  *)
(* set by; ApnInv says what it is still worth.                             *)
(***************************************************************************)

PlainApn ==
    /\ "prefix" \notin StoredApns
    /\ "read_error" \notin StartupFaults
    /\ "set_handle" \notin StartupFaults

ApnInv ==
    /\ apn # "prefix" /\ answer # "prefix"
    /\ answer = "wanted" => apn = "wanted"
    /\ got_access_point_name /\ ~need_set_access_point_name => apn = "wanted"
    /\ ApnConfigured

\* The new name is under way once it is put behind the commands s.
LEMMA NameAdded ==
    ASSUME NEW s \in Seq(FrameCommand)
    PROVE  \E i \in DOMAIN (s \o <<"set AN", "WR">>) : (s \o <<"set AN", "WR">>)[i] = "set AN"
<1> DEFINE pair == <<"set AN", "WR">>
           both == s \o pair
           n == Len(s)
           i == n + 1
<1>1. pair \in Seq(FrameCommand) /\ Len(pair) = 2 /\ pair[1] = "set AN"
  <2>1. "set AN" \in FrameCommand /\ "WR" \in FrameCommand
    BY DEF FrameCommand
  <2> QED
    BY <2>1, PairType
<1>2. n \in Nat
  OBVIOUS
<1> HIDE DEF pair
<1>3. both \in Seq(FrameCommand) /\ Len(both) = n + 2
      /\ \A j \in 1 .. n + 2 : both[j] = IF j <= n THEN s[j] ELSE pair[j - n]
  <2>1. /\ s \o pair \in Seq(FrameCommand)
        /\ Len(s \o pair) = Len(s) + Len(pair)
        /\ \A j \in 1 .. Len(s) + Len(pair) :
              (s \o pair)[j] = IF j <= Len(s) THEN s[j] ELSE pair[j - Len(s)]
    BY <1>1, ConcatProperties
  <2> QED
    BY <1>1, <2>1, Zenon
<1>4. DOMAIN both = 1 .. n + 2
  BY <1>3
<1> HIDE DEF both, n
<1>5. i \in 1 .. n + 2 /\ ~(i <= n) /\ i - n = 1
  BY <1>2
<1> HIDE DEF i
<1>6. both[i] = pair[1]
  BY <1>3, <1>5
<1> QED
  BY <1>1, <1>4, <1>5, <1>6 DEF both, pair

\* The firmware goes on without setting the name only if it was told it is the one.
LEMMA ApnPoll ==
    ASSUME PlainApn, StartupTypeOK, ApnInv, PollStartup
    PROVE  ApnInv'
<1>1. UNCHANGED apn
  BY DEF PollStartup, modem
<1> USE DEF ApnInv, ApnConfigured, Go
<1>2. CASE CommandMode
  <2>1. UNCHANGED <<got_access_point_name, need_set_access_point_name, answer>>
    BY <1>2 DEF CommandMode, driver
  <2>2. m_state' # "BEGIN_CREATE_SOCKET"
    BY <1>2 DEF CommandMode, BeginGuard, AwaitGuard, BeginCommandMode, AwaitOK, BeginApiMode,
       BeginExit
  <2> QED
    BY <1>1, <2>1, <2>2
<1>3. CASE BeginInit \/ AwaitInit \/ BeginReadApn
  <2>1. UNCHANGED <<got_access_point_name, need_set_access_point_name, answer>>
    BY <1>3 DEF BeginInit, AwaitInit, BeginReadApn
  <2>2. m_state' # "BEGIN_CREATE_SOCKET"
    BY <1>3 DEF BeginInit, AwaitInit, BeginReadApn
  <2> QED
    BY <1>1, <2>1, <2>2
<1>4. CASE AwaitReadApn
  <2>1. /\ got_access_point_name' = (got_access_point_name \/ answer # "none")
        /\ need_set_access_point_name' =
             (need_set_access_point_name \/ (answer # "none" /\ answer # "wanted"))
        /\ answer' = "none"
        /\ m_state' = "BEGIN_CREATE_SOCKET" =>
             got_access_point_name' /\ ~need_set_access_point_name'
    BY <1>4 DEF AwaitReadApn, Matches
  <2>2. got_access_point_name' /\ ~need_set_access_point_name' => apn = "wanted"
    BY <2>1
  <2> QED
    BY <1>1, <2>1, <2>2
<1>5. CASE SetApn
  <2>1. cmds \in Seq(FrameCommand) /\ cmds' = cmds \o <<"set AN", "WR">>
    BY <1>5 DEF SetApn, PlainApn, StartupTypeOK, FrameCommand
  <2>2. \E i \in DOMAIN (cmds \o <<"set AN", "WR">>) :
            (cmds \o <<"set AN", "WR">>)[i] = "set AN"
    <3>1. cmds \in Seq(FrameCommand)
      BY <2>1
    <3> QED
      BY <3>1, NameAdded
  <2>3. \E i \in DOMAIN cmds' : cmds'[i] = "set AN"
    BY <2>1, <2>2, Zenon
  <2>4. UNCHANGED <<got_access_point_name, need_set_access_point_name, answer>>
    BY <1>5 DEF SetApn
  <2> QED
    BY <1>1, <2>3, <2>4
<1> QED
  BY <1>2, <1>3, <1>4, <1>5 DEF PollStartup, ApiMode

\* The modem answers with the name it has, and takes the one it is sent.
LEMMA ApnModem ==
    ASSUME PlainApn, StartupTypeOK, ApnInv, StartupModem
    PROVE  ApnInv'
<1>1. UNCHANGED <<m_state, got_access_point_name, need_set_access_point_name>>
  BY DEF StartupModem, firmware
<1>2. CASE ModemHears \/ ModemLapse \/ ModemQuery
  <2>1. UNCHANGED <<apn, cmds, answer>>
    BY <1>2 DEF ModemHears, ModemEscape, ModemCommand, ModemIgnores, ModemLapse, ModemQuery,
       driver, modem
  <2> QED
    BY <1>1, <2>1 DEF ApnInv, ApnConfigured
<1>3. CASE ModemExecutes
  <2>1. cmds # <<>> /\ cmds' = Tail(cmds) /\ cmds \in Seq(FrameCommand)
    BY <1>3 DEF ModemExecutes, StartupTypeOK, FrameCommand
  <2>2. /\ apn' = IF Head(cmds) = "set AN" THEN "wanted" ELSE apn
        /\ answer' = IF Head(cmds) = "read AN" THEN apn ELSE answer
    BY <1>3 DEF ModemExecutes, PlainApn
  <2>3. /\ Len(cmds) \in Nat \ {0} /\ Head(cmds) = cmds[1]
        /\ DOMAIN cmds = 1 .. Len(cmds) /\ DOMAIN cmds' = 1 .. Len(cmds) - 1
        /\ \A i \in 1 .. Len(cmds) - 1 : cmds'[i] = cmds[i + 1]
    BY <2>1, EmptySeq
  <2>4. ASSUME NEW i \in DOMAIN cmds, cmds[i] = "set AN"
        PROVE  apn' = "wanted" \/ \E j \in DOMAIN cmds' : cmds'[j] = "set AN"
    <3>1. CASE i = 1
      BY <2>2, <2>3, <2>4, <3>1
    <3>2. CASE i # 1
      <4> i \in 1 .. Len(cmds) /\ Len(cmds) \in Nat
        BY <2>3, <2>4
      <4>1. i \in Int /\ i - 1 \in 1 .. Len(cmds) - 1 /\ i - 1 + 1 = i
        BY <3>2
      <4>2. cmds'[i - 1] = cmds[i - 1 + 1] /\ i - 1 \in DOMAIN cmds'
        BY <2>3, <4>1
      <4> QED
        BY <2>4, <4>1, <4>2
    <3> QED
      BY <3>1, <3>2
  <2> QED
    BY <1>1, <2>2, <2>4 DEF ApnInv, ApnConfigured
<1> QED
  BY <1>2, <1>3 DEF StartupModem

\* Every step keeps it.
LEMMA ApnStep ==
    ASSUME PlainApn, StartupTypeOK, ApnInv, [StartupNext]_vars
    PROVE  ApnInv'
<1>1. CASE Arrive \/ StartupClock \/ UNCHANGED vars
  <2>1. UNCHANGED <<m_state, got_access_point_name, need_set_access_point_name>>
    BY <1>1 DEF Arrive, StartupClock, vars, firmware
  <2>2. UNCHANGED <<apn, cmds, answer>>
    BY <1>1 DEF Arrive, StartupClock, vars, driver, modem
  <2> QED
    BY <2>1, <2>2 DEF ApnInv, ApnConfigured
<1> QED
  BY <1>1, ApnPoll, ApnModem DEF StartupNext

\* Start-up hands over a modem that has the wanted name, or has been sent it.
THEOREM ApnIsConfigured == PlainApn /\ StartupSpec => []ApnConfigured
<1>1. PlainApn /\ StartupInit => ApnInv
  BY DEF PlainApn, StartupInit, ApnInv, ApnConfigured
<1>2. ApnInv => ApnConfigured
  BY DEF ApnInv
<1>3. PlainApn /\ StartupTypeOK /\ ApnInv /\ [StartupNext]_vars => ApnInv'
  BY ApnStep
<1>4. PlainApn => []PlainApn
  BY DEF PlainApn
<1> QED
  BY <1>1, <1>2, <1>3, <1>4, StartupTypeInit, StartupTypeStep, PTL DEF StartupSpec
=============================================================================

--------------------------- MODULE GB4XBeeStartup ---------------------------
(***************************************************************************)
(* gb4xbee.cpp, pollStartup(): the state machine that puts the modem into  *)
(* API mode and gives it the wanted access point name (APN), from START,   *)
(* where begin() leaves it, to BEGIN_CREATE_SOCKET, where GB4XBee begins.  *)
(* poll() makes one step of it per call.                                   *)
(*                                                                         *)
(* First the firmware types at the modem: "+++" between two silences, then *)
(* AT commands, each answered by the bytes of OK or of ERROR.  Then it     *)
(* sends frames through the XBee driver.  The modem and the driver are an  *)
(* environment; the modem takes "+++" whether or not it is in API mode,    *)
(* which sendWriteChanges() makes it keep over a restart.                  *)
(*                                                                         *)
(* COMMAND_TIMEOUT and COMMAND_NOT_OK both leave the state as it is, so    *)
(* the timer of the response is not modelled: it changes nothing.          *)
(***************************************************************************)
EXTENDS Millis, Sequences

CONSTANTS StartupFaults,    \* what the modem or the driver may fail to do
          StoredApns,       \* what the modem's APN may be at first
          Noise             \* bytes that may be on the line at first

\* As verifyAccessPointName() tells them apart: "prefix" is any stored name that
\* the wanted one begins with, the empty one included.
Apn == {"wanted", "prefix", "other"}

StartupFault == {"at", "lapse", "query", "read_handle", "read_error", "set_handle"}

\* The bytes of a reply; x is any byte that neither O, K nor carriage return is.
Byte == {"O", "K", "CR", "x"}
OK == <<"O", "K", "CR">>
ERROR == <<"x", "x", "x", "x", "x", "CR">>

ASSUME StartupAssumption ==
    /\ StartupFaults \subseteq StartupFault
    /\ StoredApns \subseteq Apn
    /\ Noise \subseteq Seq(Byte)

\* guard: since startCommandModeGuard(); quiet: since the modem last heard a byte.
ASSUME StartupTimerAssumption ==
    /\ Timer = {"guard", "quiet"}
    /\ Limit["quiet"] <= Limit["guard"]

VARIABLES m_state,
          got_access_point_name,
          need_set_access_point_name,
          serial,   \* bytes Serial has received and not read
          query,    \* the driver's query of the device
          cmds,     \* AT commands in frames the modem has not executed
          answer,   \* the APN in the response the driver has not dispatched
          typed,    \* what was typed at the modem and not yet taken
          line,     \* bytes under way to Serial
          mode,     \* how the modem takes what it hears
          ap,       \* its AP parameter: API mode when not in command mode
          apn,      \* its AN parameter
          failed    \* history: something was not done that was asked for

firmware == <<m_state, got_access_point_name, need_set_access_point_name>>
driver == <<query, cmds, answer>>
modem == <<mode, ap, apn>>
vars == <<elapsed, firmware, driver, modem, serial, typed, line, failed>>

StartupState ==
    {"START", "AWAIT_COMMAND_MODE_GUARD_0", "BEGIN_COMMAND_MODE",
     "AWAIT_COMMAND_MODE_GUARD_1", "AWAIT_COMMAND_MODE_RESPONSE",
     "BEGIN_API_MODE_COMMAND", "AWAIT_API_MODE_RESPONSE",
     "BEGIN_COMMAND_MODE_EXIT", "AWAIT_COMMAND_MODE_EXIT_RESPONSE",
     "BEGIN_INIT_XBEE_API", "AWAIT_INIT_XBEE_API_DONE",
     "BEGIN_READ_APN", "AWAIT_READ_APN_RESPONSE", "SET_APN", "BEGIN_CREATE_SOCKET"}

StartupTypeOK ==
    /\ MillisTypeOK
    /\ m_state \in StartupState
    /\ got_access_point_name \in BOOLEAN
    /\ need_set_access_point_name \in BOOLEAN
    /\ serial \in Seq(Byte)
    /\ query \in {"none", "busy", "done", "failed"}
    /\ cmds \in Seq({"read AN", "set AN", "WR"})
    /\ answer \in Apn \cup {"none"}
    /\ typed \in Seq({"+++", "ATAP1", "ATCN", "data"})
    /\ line \in Seq(Byte)
    /\ mode \in {"transparent", "api", "command"}
    /\ ap \in BOOLEAN
    /\ apn \in Apn
    /\ failed \in BOOLEAN

Resting(api) == IF api THEN "api" ELSE "transparent"

StartupInit ==
    /\ elapsed = [t \in Timer |-> 0]
    /\ m_state = "START"
    /\ got_access_point_name = FALSE
    /\ need_set_access_point_name = FALSE
    /\ serial = <<>>
    /\ query = "none" /\ cmds = <<>> /\ answer = "none"
    /\ typed = <<>>
    /\ line \in Noise
    /\ ap \in BOOLEAN
    /\ mode = Resting(ap)
    /\ apn \in StoredApns
    /\ failed = (line # <<>>)

-----------------------------------------------------------------------------
(***************************************************************************)
(* pollStartup()                                                           *)
(***************************************************************************)

Go(s, next) == m_state = s /\ m_state' = next

\* Mutant: "+++" without a silence before it.
BeginGuard_Skipped ==
    /\ Go("START", "BEGIN_COMMAND_MODE")
    /\ Restart({"guard"})
    /\ UNCHANGED <<typed, serial>>

\* startCommandModeGuard()
BeginGuard ==
    /\ Go("START", "AWAIT_COMMAND_MODE_GUARD_0")
    /\ Restart({"guard"})
    /\ UNCHANGED <<typed, serial>>

\* pollCommandModeGuard()
AwaitGuard(s, next) ==
    /\ Go(s, IF Expired("guard") THEN next ELSE s)
    /\ UNCHANGED <<elapsed, typed, serial>>

\* Serial.write() of a command; "+++" is one only after a silence.
Type(command, timers) ==
    /\ typed' = Append(typed, IF command = "+++" /\ ~Expired("quiet")
                                THEN "data" ELSE command)
    /\ Restart(timers \cup {"quiet"})
    /\ UNCHANGED serial

BeginCommandMode ==
    Go("BEGIN_COMMAND_MODE", "AWAIT_COMMAND_MODE_GUARD_1") /\ Type("+++", {"guard"})

BeginApiMode ==
    Go("BEGIN_API_MODE_COMMAND", "AWAIT_API_MODE_RESPONSE") /\ Type("ATAP1", {})

BeginExit ==
    Go("BEGIN_COMMAND_MODE_EXIT", "AWAIT_COMMAND_MODE_EXIT_RESPONSE") /\ Type("ATCN", {})

\* Mutant: a reply is taken for OK whatever it says.
AwaitOK_Any(s, next) ==
    /\ Go(s, IF Len(serial) >= 3 THEN next ELSE s)
    /\ serial' = IF Len(serial) < 3 THEN serial ELSE <<>>
    /\ UNCHANGED <<elapsed, typed>>

\* pollResponseOK(): all that has arrived is read, once it is three bytes.
AwaitOK(s, next) ==
    /\ Go(s, IF Len(serial) >= 3 /\ SubSeq(serial, 1, 2) = <<"O", "K">> THEN next ELSE s)
    /\ serial' = IF Len(serial) < 3 THEN serial ELSE <<>>
    /\ UNCHANGED <<elapsed, typed>>

CommandMode ==
    /\ \/ BeginGuard
       \/ AwaitGuard("AWAIT_COMMAND_MODE_GUARD_0", "BEGIN_COMMAND_MODE")
       \/ BeginCommandMode
       \/ AwaitGuard("AWAIT_COMMAND_MODE_GUARD_1", "AWAIT_COMMAND_MODE_RESPONSE")
       \/ AwaitOK("AWAIT_COMMAND_MODE_RESPONSE", "BEGIN_API_MODE_COMMAND")
       \/ BeginApiMode
       \/ AwaitOK("AWAIT_API_MODE_RESPONSE", "BEGIN_COMMAND_MODE_EXIT")
       \/ BeginExit
       \/ AwaitOK("AWAIT_COMMAND_MODE_EXIT_RESPONSE", "BEGIN_INIT_XBEE_API")
    /\ UNCHANGED <<got_access_point_name, need_set_access_point_name, driver, failed>>

\* xbee_cmd_init_device()
BeginInit ==
    /\ Go("BEGIN_INIT_XBEE_API", "AWAIT_INIT_XBEE_API_DONE")
    /\ query' = "busy"
    /\ UNCHANGED <<got_access_point_name, need_set_access_point_name, cmds, answer, failed>>

\* pollInitStatus(); a query that failed is made again.
AwaitInit ==
    /\ Go("AWAIT_INIT_XBEE_API_DONE",
          IF query = "done" THEN "BEGIN_READ_APN" ELSE "AWAIT_INIT_XBEE_API_DONE")
    /\ query' = IF query = "failed" THEN "busy" ELSE query
    /\ UNCHANGED <<got_access_point_name, need_set_access_point_name, cmds, answer, failed>>

\* sendReadAPN(), whose result is ignored.
BeginReadApn ==
    /\ Go("BEGIN_READ_APN", "AWAIT_READ_APN_RESPONSE")
    /\ \/ cmds' = Append(cmds, "read AN") /\ UNCHANGED failed
       \/ "read_handle" \in StartupFaults /\ failed' = TRUE /\ UNCHANGED cmds
    /\ UNCHANGED <<got_access_point_name, need_set_access_point_name, query, answer>>

\* Mutant: the comparison the wrong way round.
Matches_Not(name) == name \notin {"wanted", "prefix"}

\* verifyAccessPointName() compares the bytes the modem sent, and no more.
Matches(name) == name \in {"wanted", "prefix"}

\* pollAPNStatus(): xbee_dev_tick() calls readAPNCallback() on a response.
AwaitReadApn ==
    /\ got_access_point_name' = (got_access_point_name \/ answer # "none")
    /\ need_set_access_point_name' =
         (need_set_access_point_name \/ (answer # "none" /\ ~Matches(answer)))
    /\ answer' = "none"
    /\ Go("AWAIT_READ_APN_RESPONSE",
          CASE ~got_access_point_name'     -> "AWAIT_READ_APN_RESPONSE"
            [] need_set_access_point_name' -> "SET_APN"
            [] OTHER                       -> "BEGIN_CREATE_SOCKET")
    /\ UNCHANGED <<query, cmds, failed>>

\* Mutant: on through the state resetSocket() enters.
SetApn_Cooldown ==
    /\ Go("SET_APN", "SOCKET_COOLDOWN_PERIOD")
    /\ cmds' = cmds \o <<"set AN", "WR">>
    /\ UNCHANGED <<got_access_point_name, need_set_access_point_name, query, answer, failed>>

\* sendSetAPN() and sendWriteChanges(), whose results are ignored.
SetApn ==
    /\ Go("SET_APN", "BEGIN_CREATE_SOCKET")
    /\ \/ cmds' = cmds \o <<"set AN", "WR">> /\ UNCHANGED failed
       \/ /\ "set_handle" \in StartupFaults
          /\ failed' = TRUE
          /\ cmds' \in {cmds, Append(cmds, "set AN"), Append(cmds, "WR")}
    /\ UNCHANGED <<got_access_point_name, need_set_access_point_name, query, answer>>

ApiMode ==
    /\ \/ BeginInit
       \/ AwaitInit
       \/ BeginReadApn
       \/ AwaitReadApn
       \/ SetApn
    /\ UNCHANGED <<elapsed, typed, serial>>

PollStartup == (CommandMode \/ ApiMode) /\ UNCHANGED <<modem, line>>

-----------------------------------------------------------------------------
(***************************************************************************)
(* The modem and the driver                                                *)
(***************************************************************************)

Reply(bytes) == line' = line \o bytes

\* "+++" followed by a silence.
ModemEscape ==
    /\ typed = <<"+++">> /\ Expired("quiet")
    /\ mode' = "command"
    /\ Reply(OK)
    /\ UNCHANGED <<ap, apn, failed>>

ModemCommand ==
    /\ mode = "command"
    /\ \/ /\ Head(typed) = "ATAP1"
          /\ ap' = TRUE
          /\ UNCHANGED <<mode, failed>>
          /\ Reply(OK)
       \/ /\ "at" \in StartupFaults
          /\ Head(typed) = "ATAP1"
          /\ failed' = TRUE
          /\ UNCHANGED <<ap, mode>>
          /\ Reply(ERROR)
       \/ /\ Head(typed) = "ATCN"
          /\ mode' = Resting(ap)
          /\ UNCHANGED <<ap, failed>>
          /\ Reply(OK)
    /\ UNCHANGED apn

\* What it hears out of place goes unanswered.
ModemIgnores ==
    /\ \/ Head(typed) = "data"
       \/ Head(typed) = "+++" /\ Len(typed) > 1
       \/ Head(typed) \in {"ATAP1", "ATCN"} /\ mode # "command"
    /\ UNCHANGED <<modem, line, failed>>

ModemHears ==
    /\ typed # <<>>
    /\ typed' = Tail(typed)
    /\ ModemEscape \/ ModemCommand \/ ModemIgnores
    /\ UNCHANGED driver

\* Command mode ends by itself when nothing is typed for long.
ModemLapse ==
    /\ "lapse" \in StartupFaults
    /\ mode = "command"
    /\ mode' = Resting(ap)
    /\ failed' = TRUE
    /\ UNCHANGED <<ap, apn, driver, typed, line>>

ModemQuery ==
    /\ query = "busy"
    /\ \/ mode = "api" /\ query' = "done" /\ UNCHANGED failed
       \/ "query" \in StartupFaults /\ query' = "failed" /\ failed' = TRUE
    /\ UNCHANGED <<modem, cmds, answer, typed, line>>

\* A response that reports an error carries no name.
ModemExecutes ==
    /\ mode = "api"
    /\ cmds # <<>>
    /\ cmds' = Tail(cmds)
    /\ apn' = IF Head(cmds) = "set AN" THEN "wanted" ELSE apn
    /\ \/ /\ answer' = IF Head(cmds) = "read AN" THEN apn ELSE answer
          /\ UNCHANGED failed
       \/ /\ "read_error" \in StartupFaults
          /\ Head(cmds) = "read AN"
          /\ answer' = "prefix"
          /\ failed' = TRUE
    /\ UNCHANGED <<mode, ap, query, typed, line>>

StartupModem ==
    /\ ModemHears \/ ModemLapse \/ ModemQuery \/ ModemExecutes
    /\ UNCHANGED <<elapsed, firmware, serial>>

\* Bytes reach Serial one by one.
Arrive ==
    /\ line # <<>>
    /\ serial' = Append(serial, Head(line))
    /\ line' = Tail(line)
    /\ UNCHANGED <<elapsed, firmware, driver, modem, typed, failed>>

StartupClock == Tick /\ UNCHANGED <<firmware, driver, modem, serial, typed, line, failed>>

StartupNext == PollStartup \/ StartupModem \/ Arrive \/ StartupClock

\* The main loop polls, the clock runs, and the modem and the line do their part.
StartupSpec ==
    /\ StartupInit
    /\ [][StartupNext]_vars
    /\ WF_vars(PollStartup) /\ WF_vars(StartupClock)
    /\ WF_vars(StartupModem) /\ WF_vars(Arrive)

-----------------------------------------------------------------------------
(***************************************************************************)
(* Properties                                                              *)
(***************************************************************************)

\* Every OK the machine acts on is the reply to the command it waits for, so
\* once it has left command mode the modem is in API mode: replies are not
\* counted, only waited for, and may be split, late or missing.
ApiModeConfirmed ==
    m_state \in {"BEGIN_INIT_XBEE_API", "AWAIT_INIT_XBEE_API_DONE", "BEGIN_READ_APN",
                 "AWAIT_READ_APN_RESPONSE", "SET_APN", "BEGIN_CREATE_SOCKET"}
        => mode = "api"

\* Start-up hands over a modem that has the wanted APN, or has been sent it.
ApnConfigured ==
    m_state = "BEGIN_CREATE_SOCKET"
        => apn = "wanted" \/ \E i \in DOMAIN cmds : cmds[i] = "set AN"

\* gb4xbee.cpp:502 verifies "that the APN in the device matches the desired APN",
\* and start-up goes on without setting it only if it does.
ApnVerified ==
    (m_state = "BEGIN_CREATE_SOCKET" /\ ~need_set_access_point_name) => apn = "wanted"

\* Start-up comes to an end unless something it asks for is not done: the guard
\* times suffice, a reply is recognised however its bytes arrive and however
\* late, and no wait depends on an answer that is not asked for.
StartupCompletes == <>(m_state = "BEGIN_CREATE_SOCKET" \/ failed)
=============================================================================

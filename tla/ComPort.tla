------------------------------- MODULE ComPort -------------------------------
(***************************************************************************)
(* A serial port of a VM: vm/com.go and rpc_com.go. The monitor opens the  *)
(* port and closes it again, a logger goroutine copies what the guest      *)
(* writes to a file and, for an attached client, to a channel, and every   *)
(* client has two goroutines, one for each direction.                      *)
(*                                                                         *)
(* The goroutines share v.ComN, v.ComNrchan, v.ComNwrite and v.Status      *)
(* without a mutex; v.ComNlock only keeps clients apart. Ports, channels   *)
(* and loggers are numbered by the setupCom that made them.                *)
(***************************************************************************)
EXTENDS Naturals, Sequences

CONSTANTS
  Client,
  NoClient,
  MaxOpen,     \* bound: how often the port is opened
  MaxByte,     \* bound: bytes the guest writes
  Cap          \* bound: what a channel holds, 4096 in the code

\* v.ComNlock is nobody's or a client's; the bounds are numbers.
ASSUME ComConstants == NoClient \notin Client /\ {MaxOpen, MaxByte, Cap} \subseteq Nat

Life == 1 .. MaxOpen
Byte == 1 .. MaxByte

VARIABLES
  vmStatus,    \* v.Status
  monitor,     \* where the monitor goroutine is
  opened,      \* how often setupCom has opened the port
  isOpen,      \* ports that are open
  com,         \* v.ComN, 0: nil
  comLog,      \* v.Config.ComNLog, which stays what it is
  rchan,       \* v.ComNrchan, 0: nil
  queue,       \* bytes in each channel
  closed,      \* channels that are closed
  comWrite,    \* v.ComNwrite
  bytes,       \* bytes the guest has written and somebody has read, in this order
  logFile,     \* bytes in the log
  logger,      \* the logger goroutines
  comLock,     \* the client that holds v.ComNlock
  session,     \* comInteractive of each client
  sender,      \* comInteractiveStreamSend of each client
  lost,        \* observer: how often something was sent to a client that had left
  comPanic     \* the daemon died: send on closed channel

comVars == <<vmStatus, monitor, opened, isOpen, com, comLog, rchan, queue, closed, comWrite,
             bytes, logFile, logger, comLock, session, sender, lost, comPanic>>

portVars == <<vmStatus, monitor, opened, isOpen, com>>
chanVars == <<rchan, queue, closed>>
clientVars == <<comWrite, comLock, session, sender, lost>>

\* What a logger has copied: the port, its channel, the write flag, a byte.
LoggerIdle == [pc |-> "none", port |-> 0, chan |-> 0, flag |-> FALSE, byte |-> 0]
LoggerGone == [LoggerIdle EXCEPT !.pc = "gone"]

\* What comInteractive has copied, and what it hands to its sender.
SessionIdle == [pc |-> "idle", port |-> 0, chan |-> 0, log |-> FALSE]
SenderIdle == [pc |-> "none", port |-> 0, chan |-> 0, log |-> FALSE, byte |-> 0]

LoggerState ==
  [pc : {"none", "begin", "loop", "read", "write", "send", "last", "gone"},
   port : {0} \cup Life, chan : {0} \cup Life, flag : BOOLEAN, byte : {0} \cup Byte]
SessionState ==
  [pc : {"idle", "lock", "flush", "check", "recv", "over"},
   port : {0} \cup Life, chan : {0} \cup Life, log : BOOLEAN]
SenderState ==
  [pc : {"none", "loop", "get", "give", "gone"},
   port : {0} \cup Life, chan : {0} \cup Life, log : BOOLEAN, byte : {0} \cup Byte]

ComTypeOK ==
  /\ vmStatus \in {"STOPPED", "STARTING", "RUNNING"}
  /\ monitor \in {"none", "setup", "assign", "select", "crashed", "done"}
  /\ opened \in 0 .. MaxOpen /\ isOpen \subseteq Life /\ com \in {0} \cup Life
  /\ comLog \in BOOLEAN /\ comWrite \in BOOLEAN /\ comPanic \in BOOLEAN
  /\ rchan \in {0} \cup Life /\ closed \subseteq Life
  /\ queue \in [Life -> Seq(Byte)] /\ \A g \in Life : Len(queue[g]) <= Cap
  /\ bytes \in 0 .. MaxByte /\ logFile \subseteq Byte
  /\ logger \in [Life -> LoggerState]
  /\ comLock \in Client \cup {NoClient}
  /\ session \in [Client -> SessionState]
  /\ sender \in [Client -> SenderState]
  /\ lost \in [Client -> Nat]

ComIdle ==
  /\ vmStatus = "STOPPED" /\ monitor = "none"
  /\ opened = 0 /\ isOpen = {} /\ com = 0
  /\ rchan = 0 /\ queue = [g \in Life |-> << >>] /\ closed = {}
  /\ comWrite = FALSE /\ bytes = 0 /\ logFile = {}
  /\ logger = [g \in Life |-> LoggerIdle]
  /\ comLock = NoClient
  /\ session = [c \in Client |-> SessionIdle]
  /\ sender = [c \in Client |-> SenderIdle]
  /\ lost = [c \in Client |-> 0]
  /\ comPanic = FALSE

ComInit == comLog \in BOOLEAN /\ ComIdle

\* v.Running(); STOPPING is not told from RUNNING.
IsRunning == vmStatus = "RUNNING"

-----------------------------------------------------------------------------
(* The monitor.                                                            *)

PowerOn ==
  /\ vmStatus = "STOPPED" /\ monitor = "none"
  /\ vmStatus' = "STARTING"
  /\ UNCHANGED <<monitor, opened, isOpen, com, comLog, chanVars, bytes, logFile, logger,
                 clientVars, comPanic>>

\* ProcessStart: SetRunning.
ProcessStart ==
  /\ (vmStatus = "STARTING" /\ monitor = "none") \/ monitor = "crashed"
  /\ vmStatus' = "RUNNING"
  /\ monitor' = "setup"
  /\ UNCHANGED <<opened, isOpen, com, comLog, chanVars, bytes, logFile, logger, clientVars,
                 comPanic>>

\* setupCom: the device cannot be read.
SetupFails ==
  /\ monitor = "setup"
  /\ monitor' = "select"
  /\ UNCHANGED <<vmStatus, opened, isOpen, com, comLog, chanVars, bytes, logFile, logger,
                 clientVars, comPanic>>

\* setupCom opens the port and starts the logger before it stores the port.
SetupCom ==
  /\ monitor = "setup" /\ opened < MaxOpen
  /\ opened' = opened + 1
  /\ isOpen' = isOpen \cup {opened'}
  /\ logger' = IF comLog THEN [logger EXCEPT ![opened'].pc = "begin"] ELSE logger
  /\ monitor' = "assign"
  /\ UNCHANGED <<vmStatus, com, comLog, chanVars, bytes, logFile, clientVars, comPanic>>

AssignCom ==
  /\ monitor = "assign"
  /\ com' = opened
  /\ monitor' = "select"
  /\ UNCHANGED <<vmStatus, opened, isOpen, comLog, chanVars, bytes, logFile, logger, clientVars,
                 comPanic>>

\* killCom closes the port and the channel.
KillCom(next) ==
  /\ isOpen' = isOpen \ {com}
  /\ com' = 0
  /\ closed' = closed \cup ({rchan} \ {0})
  /\ rchan' = 0
  /\ monitor' = next
  /\ UNCHANGED <<vmStatus, opened, comLog, queue, bytes, logFile, logger, clientVars, comPanic>>

\* Mutant: the port stays open when the guest reboots.
ProcessCrashedKeepsPort ==
  /\ monitor = "select"
  /\ monitor' = "crashed"
  /\ UNCHANGED <<vmStatus, opened, isOpen, com, comLog, chanVars, bytes, logFile, logger,
                 clientVars, comPanic>>

\* ProcessCrashed: the status stays RUNNING.
ProcessCrashed == monitor = "select" /\ KillCom("crashed")

\* Done() kills the loggers, then it stops the VM.
DoneKillCom == monitor \in {"select", "crashed"} /\ KillCom("done")

DoneSetStopped ==
  /\ monitor = "done"
  /\ vmStatus' = "STOPPED"
  /\ monitor' = "none"
  /\ UNCHANGED <<opened, isOpen, com, comLog, chanVars, bytes, logFile, logger, clientVars,
                 comPanic>>

-----------------------------------------------------------------------------
(* comLogger.                                                              *)

Log(g, l) == logger' = [logger EXCEPT ![g] = l]
Again(g) == [logger[g] EXCEPT !.pc = "loop", !.flag = FALSE, !.byte = 0]

\* A logger that could not write ends after that byte, which the model remembers.
EndsAfter(b) == [LoggerGone EXCEPT !.byte = b]

\* v.Status != STOPPED && thisRChan != nil && thisComChanWriteFlag
Forwards(g) == vmStatus # "STOPPED" /\ logger[g].chan # 0 /\ logger[g].flag

\* It looks at v.ComN and at the configuration when it gets to run. Without its log
\* file it ends, and leaves the channel.
LoggerBegin(g) ==
  /\ logger[g].pc = "begin"
  /\ rchan' = IF comLog THEN g ELSE rchan
  /\ \/ Log(g, [LoggerIdle EXCEPT !.pc = "loop", !.port = com, !.chan = IF comLog THEN g ELSE 0])
     \/ Log(g, LoggerGone)
  /\ UNCHANGED <<portVars, comLog, queue, closed, bytes, logFile, clientVars, comPanic>>

\* comLoggerRead looks at the write flag before it waits for a byte.
LoggerLoop(g) ==
  /\ logger[g].pc = "loop"
  /\ Log(g, IF IsRunning /\ logger[g].port # 0
            THEN [logger[g] EXCEPT !.pc = "read", !.flag = comWrite]
            ELSE LoggerGone)
  /\ UNCHANGED <<portVars, comLog, chanVars, bytes, logFile, clientVars, comPanic>>

LoggerRead(g) ==
  /\ logger[g].pc = "read"
  /\ \/ /\ logger[g].port \in isOpen /\ bytes < MaxByte
        /\ bytes' = bytes + 1
        /\ Log(g, [logger[g] EXCEPT !.pc = "write", !.byte = bytes'])
     \/ /\ logger[g].port \in isOpen
        /\ Log(g, IF IsRunning THEN Again(g) ELSE LoggerGone)
        /\ UNCHANGED bytes
     \/ /\ logger[g].port \notin isOpen
        /\ Log(g, LoggerGone)
        /\ UNCHANGED bytes
  /\ UNCHANGED <<portVars, comLog, chanVars, logFile, clientVars, comPanic>>

\* Mutant: the error of logFile.Write is dropped.
LoggerWriteUnchecked(g) ==
  /\ logger[g].pc = "write"
  /\ logFile' \in {logFile, logFile \cup {logger[g].byte}}
  /\ Log(g, IF Forwards(g) THEN [logger[g] EXCEPT !.pc = "send"] ELSE Again(g))
  /\ UNCHANGED <<portVars, comLog, chanVars, bytes, clientVars, comPanic>>

\* Mutant: the write flag is not looked at.
LoggerWriteUnasked(g) ==
  /\ logger[g].pc = "write"
  /\ logFile' = logFile \cup {logger[g].byte}
  /\ Log(g, IF vmStatus # "STOPPED" /\ logger[g].chan # 0
            THEN [logger[g] EXCEPT !.pc = "send"] ELSE Again(g))
  /\ UNCHANGED <<portVars, comLog, chanVars, bytes, clientVars, comPanic>>

\* The log file first, then the channel if the flag was set, and only then the error of
\* the first.
LoggerWrite(g) ==
  /\ logger[g].pc = "write"
  /\ \/ /\ logFile' = logFile \cup {logger[g].byte}
        /\ Log(g, IF Forwards(g) THEN [logger[g] EXCEPT !.pc = "send"] ELSE Again(g))
     \/ /\ UNCHANGED logFile
        /\ Log(g, IF Forwards(g) THEN [logger[g] EXCEPT !.pc = "last"] ELSE LoggerGone)
  /\ UNCHANGED <<portVars, comLog, chanVars, bytes, clientVars, comPanic>>

\* It waits while the channel is full, also while the channel is closed under it.
LoggerSend(g) ==
  /\ logger[g].pc \in {"send", "last"}
  /\ IF logger[g].chan \in closed
     THEN comPanic' = TRUE /\ UNCHANGED <<queue, logger>>
     ELSE /\ Len(queue[logger[g].chan]) < Cap
          /\ queue' = [queue EXCEPT ![logger[g].chan] = Append(@, logger[g].byte)]
          /\ Log(g, IF logger[g].pc = "send" THEN Again(g) ELSE EndsAfter(logger[g].byte))
          /\ UNCHANGED comPanic
  /\ UNCHANGED <<portVars, comLog, rchan, closed, bytes, logFile, clientVars>>

-----------------------------------------------------------------------------
(* comInteractive, from the client to the port.                            *)

Goes(c, s) == session' = [session EXCEPT ![c] = s]
SessionOver == [SessionIdle EXCEPT !.pc = "over"]

\* ComNInteractive: the VM is RUNNING. Then it waits for v.ComNlock.
ComInteractive(c) ==
  /\ session[c].pc = "idle" /\ vmStatus = "RUNNING"
  /\ Goes(c, [session[c] EXCEPT !.pc = "lock"])
  /\ UNCHANGED <<portVars, comLog, chanVars, bytes, logFile, logger, comWrite, comLock, sender,
                 lost, comPanic>>

\* The handler takes the port and the channel as they are now; without a port it ends.
SessionBegin(c) ==
  /\ session[c].pc = "lock" /\ comLock = NoClient
  /\ IF com = 0
     THEN Goes(c, SessionOver) /\ UNCHANGED <<comWrite, comLock>>
     ELSE /\ Goes(c, [pc |-> "flush", port |-> com, chan |-> IF comLog THEN rchan ELSE 0,
                      log |-> comLog])
          /\ comWrite' = TRUE
          /\ comLock' = c
  /\ UNCHANGED <<portVars, comLog, chanVars, bytes, logFile, logger, sender, lost, comPanic>>

\* comInteractiveSetup reads what there is, and drops it.
FlushByte(c) ==
  /\ session[c].pc = "flush" /\ session[c].port \in isOpen
  /\ bytes < MaxByte
  /\ bytes' = bytes + 1
  /\ UNCHANGED <<portVars, comLog, chanVars, logFile, logger, clientVars, comPanic>>

FlushDone(c) ==
  /\ session[c].pc = "flush"
  /\ Goes(c, [session[c] EXCEPT !.pc = "check"])
  /\ sender' = [sender EXCEPT ![c] = [pc |-> "loop", port |-> session[c].port, byte |-> 0,
                                      chan |-> session[c].chan, log |-> session[c].log]]
  /\ UNCHANGED <<portVars, comLog, chanVars, bytes, logFile, logger, comWrite, comLock, lost,
                 comPanic>>

\* The handler returns: the deferred calls, and the stream is over.
SessionEnds(c) ==
  /\ Goes(c, SessionOver)
  /\ comWrite' = FALSE
  /\ comLock' = NoClient

\* comInteractiveStreamReceive looks at the VM, then it waits for the client.
SessionCheck(c) ==
  /\ session[c].pc = "check"
  /\ IF IsRunning
     THEN Goes(c, [session[c] EXCEPT !.pc = "recv"]) /\ UNCHANGED <<comWrite, comLock>>
     ELSE SessionEnds(c)
  /\ UNCHANGED <<portVars, comLog, chanVars, bytes, logFile, logger, sender, lost, comPanic>>

\* The client types, or it is gone.
SessionRecv(c) ==
  /\ session[c].pc = "recv"
  /\ \/ /\ session[c].port \in isOpen
        /\ Goes(c, [session[c] EXCEPT !.pc = "check"])
        /\ UNCHANGED <<comWrite, comLock>>
     \/ SessionEnds(c)
  /\ UNCHANGED <<portVars, comLog, chanVars, bytes, logFile, logger, sender, lost, comPanic>>

-----------------------------------------------------------------------------
(* comInteractiveStreamSend, from the port to the client. Nobody waits for *)
(* this goroutine, and it may outlive the handler.                         *)

Sends(c, s) == sender' = [sender EXCEPT ![c] = s]
SendsNext(c) == [sender[c] EXCEPT !.pc = "loop", !.byte = 0]
SenderGone == [SenderIdle EXCEPT !.pc = "gone"]

SenderLoop(c) ==
  /\ sender[c].pc = "loop"
  /\ Sends(c, IF IsRunning THEN [sender[c] EXCEPT !.pc = "get"] ELSE SenderGone)
  /\ UNCHANGED <<portVars, comLog, chanVars, bytes, logFile, logger, comWrite, comLock, session,
                 lost, comPanic>>

\* comIntStreamSendFromDev.
FromDev(c) ==
  /\ sender[c].pc = "get" /\ ~sender[c].log
  /\ \/ /\ sender[c].port \in isOpen /\ bytes < MaxByte
        /\ bytes' = bytes + 1
        /\ Sends(c, [sender[c] EXCEPT !.pc = "give", !.byte = bytes'])
     \/ /\ sender[c].port \in isOpen
        /\ Sends(c, IF IsRunning THEN SendsNext(c) ELSE SenderGone)
        /\ UNCHANGED bytes
     \/ /\ sender[c].port \notin isOpen
        /\ Sends(c, SenderGone)
        /\ UNCHANGED bytes
  /\ UNCHANGED <<portVars, comLog, chanVars, logFile, logger, comWrite, comLock, session, lost,
                 comPanic>>

\* comIntStreamSendFromLog: nothing ever comes from a nil channel, a closed one
\* yields zeros for ever.
FromLog(c) ==
  LET k == sender[c].chan IN
  /\ sender[c].pc = "get" /\ sender[c].log /\ k # 0
  /\ \/ /\ queue[k] # << >>
        /\ Sends(c, [sender[c] EXCEPT !.pc = "give", !.byte = Head(queue[k])])
        /\ queue' = [queue EXCEPT ![k] = Tail(@)]
     \/ /\ queue[k] = << >> /\ k \in closed
        /\ Sends(c, [sender[c] EXCEPT !.pc = "give", !.byte = 0])
        /\ UNCHANGED queue
  /\ UNCHANGED <<portVars, comLog, rchan, closed, bytes, logFile, logger, comWrite, comLock,
                 session, lost, comPanic>>

\* Mutant: the error of stream.Send is dropped.
GiveIgnoringErrors(c) ==
  /\ sender[c].pc = "give"
  /\ Sends(c, SendsNext(c))
  /\ lost' = [lost EXCEPT ![c] = IF session[c].pc = "over" THEN @ + 1 ELSE @]
  /\ UNCHANGED <<portVars, comLog, chanVars, bytes, logFile, logger, comWrite, comLock, session,
                 comPanic>>

\* stream.Send fails once the handler has returned.
Give(c) ==
  /\ sender[c].pc = "give"
  /\ \/ /\ session[c].pc = "over"
        /\ Sends(c, SenderGone)
        /\ lost' = [lost EXCEPT ![c] = @ + 1]
     \/ /\ session[c].pc # "over"
        /\ Sends(c, SendsNext(c))
        /\ UNCHANGED lost
  /\ UNCHANGED <<portVars, comLog, chanVars, bytes, logFile, logger, comWrite, comLock, session,
                 comPanic>>

-----------------------------------------------------------------------------
MonitorStep ==
  PowerOn \/ ProcessStart \/ SetupFails \/ SetupCom \/ AssignCom \/ ProcessCrashed
    \/ DoneKillCom \/ DoneSetStopped

LoggerStep(g) ==
  LoggerBegin(g) \/ LoggerLoop(g) \/ LoggerRead(g) \/ LoggerWrite(g) \/ LoggerSend(g)

ClientStep(c) ==
  \/ ComInteractive(c) \/ SessionBegin(c) \/ FlushByte(c) \/ FlushDone(c)
  \/ SessionCheck(c) \/ SessionRecv(c)
  \/ SenderLoop(c) \/ FromDev(c) \/ FromLog(c) \/ Give(c)

ComStep ==
  MonitorStep \/ (\E g \in Life : LoggerStep(g)) \/ \E c \in Client : ClientStep(c)

ComNext == ~comPanic /\ ComStep

ComSpec == ComInit /\ [][ComNext]_comVars

-----------------------------------------------------------------------------
(* Properties.                                                             *)

\* What a client of a logged port is about to see is in the log already (com.go:188), but
\* for the byte at which the log could not be written: the error is looked at after the
\* byte has been sent. Its logger ends there, so whoever reads the log after an incident
\* finds all that the client has seen, or all but the last byte of a log that breaks off.
LogEnds == {logger[g].byte : g \in {h \in Life : logger[h].pc \in {"last", "gone"}}}
ShownIsLogged ==
  \A c \in Client : sender[c].log /\ sender[c].pc = "give" /\ sender[c].byte # 0
    => sender[c].byte \in logFile \cup LogEnds

\* The sender of a client that has left takes one byte more from the guest, which no
\* other client gets, and never two.
LastByteOnly == \A c \in Client : lost[c] <= 1

\* Only a client that has been attached can make a logger wait for the channel, and the
\* daemon die of a channel that is closed meanwhile: "if someone is reading from it"
\* (com.go:191).
Unattended ==
  (\A c \in Client : session[c].pc \in {"idle", "lock"})
    => ~comPanic /\ \A g \in Life : logger[g].pc \notin {"send", "last"}

\* No serial port stays open after its guest: neither the end of a VM nor any number of
\* reboots leave one behind.
PortsClosed ==
  /\ isOpen \subseteq {com} \cup IF monitor = "assign" THEN {opened} ELSE {}
  /\ vmStatus = "STOPPED" => isOpen = {}
=============================================================================

--------------------------- MODULE ComPort_proofs ---------------------------
(***************************************************************************)
(* Proofs about ComPort, for every set of clients and any bounds.          *)
(***************************************************************************)
EXTENDS ComPort, SequenceTheorems, TLAPS

\* v.ComN is set in the monitor's select only, and a VM is STOPPED when its monitor has ended.
PortAt ==
  /\ monitor # "select" => com = 0
  /\ monitor = "assign" => opened \in Life
  /\ vmStatus # "RUNNING" => monitor = "none"
  /\ isOpen \subseteq {com} \cup IF monitor = "assign" THEN {opened} ELSE {}

\* A logger has a byte to write, and a channel to send to; every opening starts a new one.
LoggerAt ==
  \A g \in Life :
    /\ logger[g].pc \in {"write", "send", "last"} => logger[g].byte \in Byte
    /\ logger[g].pc \in {"send", "last"} => logger[g].chan \in Life
    /\ g > opened => logger[g].pc = "none"

\* A client has a sender once its port is flushed, and a sender that has sent something to
\* nobody is gone.
SenderAt ==
  \A c \in Client :
    /\ session[c].pc \in {"idle", "lock", "flush"} => sender[c].pc = "none"
    /\ lost[c] # 0 => sender[c].pc = "gone" /\ lost[c] = 1

\* What is in a channel, on its way to it or from it, is in the log, or the log ends there.
InLog == logFile \cup LogEnds
Logged ==
  /\ \A g \in Life : logger[g].pc \in {"send", "last"} => logger[g].byte \in InLog
  /\ \A g \in Life : \A i \in 1 .. Len(queue[g]) : queue[g][i] \in InLog
  /\ \A c \in Client : sender[c].log /\ sender[c].pc = "give" /\ sender[c].byte # 0
       => sender[c].byte \in InLog

\* A client is or has been attached.
Attached == \E c \in Client : session[c].pc \notin {"idle", "lock"}

\* Only then is the write flag set, v.ComNwrite or the copy of a logger.
Flagged ==
  comWrite \/ comPanic \/ (\E g \in Life : logger[g].flag \/ logger[g].pc \in {"send", "last"})
    => Attached

ComInv == ComTypeOK /\ PortAt /\ LoggerAt /\ SenderAt /\ Logged /\ Flagged

-----------------------------------------------------------------------------
LEMMA NextByte ==
  ASSUME ComTypeOK, bytes < MaxByte PROVE bytes + 1 \in Byte /\ bytes + 1 \in 0 .. MaxByte
BY ComConstants DEF ComTypeOK, Byte

\* What the steps with several outcomes do, as the proofs below need it.
LoggerBegins(g) ==
  /\ logger[g].pc = "begin"
  /\ \E l \in LoggerState :
       logger' = [logger EXCEPT ![g] = l] /\ l.pc \in {"loop", "gone"} /\ ~l.flag
  /\ rchan' \in {rchan, g}
  /\ UNCHANGED <<portVars, comLog, queue, closed, bytes, logFile, clientVars, comPanic>>

LoggerReads(g) ==
  /\ logger[g].pc = "read"
  /\ \E l \in LoggerState :
       /\ logger' = [logger EXCEPT ![g] = l]
       /\ l.pc \in {"write", "loop", "gone"} /\ (l.flag => logger[g].flag)
       /\ l.pc = "write" => l.byte \in Byte
  /\ bytes' \in 0 .. MaxByte
  /\ UNCHANGED <<portVars, comLog, chanVars, logFile, clientVars, comPanic>>

LoggerWrites(g) ==
  /\ logger[g].pc = "write"
  /\ \E l \in LoggerState :
       /\ logger' = [logger EXCEPT ![g] = l]
       /\ \/ l.pc \in {"loop", "gone"} /\ ~l.flag
          \/ /\ l.pc = "send" /\ logFile' = logFile \cup {logger[g].byte}
             /\ l.flag /\ logger[g].flag /\ l.byte = logger[g].byte /\ l.chan \in Life
          \/ /\ l.pc = "last"
             /\ l.flag /\ logger[g].flag /\ l.byte = logger[g].byte /\ l.chan \in Life
  /\ logFile' \in {logFile, logFile \cup {logger[g].byte}}
  /\ UNCHANGED <<portVars, comLog, chanVars, bytes, clientVars, comPanic>>

LoggerSends(g) ==
  /\ logger[g].pc \in {"send", "last"}
  /\ \/ comPanic' = TRUE /\ UNCHANGED <<queue, logger>>
     \/ /\ UNCHANGED comPanic
        /\ \E k \in Life :
             /\ Len(queue[k]) < Cap
             /\ queue' = [queue EXCEPT ![k] = Append(@, logger[g].byte)]
        /\ \E l \in LoggerState :
             /\ logger' = [logger EXCEPT ![g] = l] /\ ~l.flag
             /\ \/ logger[g].pc = "send" /\ l.pc = "loop"
                \/ l.pc = "gone" /\ l.byte = logger[g].byte
  /\ UNCHANGED <<portVars, comLog, rchan, closed, bytes, logFile, clientVars>>

\* SessionCheck and SessionRecv.
SessionGoesOn(c) ==
  /\ session[c].pc \in {"check", "recv"}
  /\ \E s \in SessionState :
       session' = [session EXCEPT ![c] = s] /\ s.pc \in {"check", "recv", "over"}
  /\ comWrite' \in {comWrite, FALSE} /\ comLock' \in {comLock, NoClient}
  /\ UNCHANGED <<portVars, comLog, chanVars, bytes, logFile, logger, sender, lost, comPanic>>

DevGives(c) ==
  /\ sender[c].pc = "get"
  /\ \E s \in SenderState :
       sender' = [sender EXCEPT ![c] = s] /\ s.pc \in {"give", "loop", "gone"} /\ ~s.log
  /\ bytes' \in 0 .. MaxByte
  /\ UNCHANGED <<portVars, comLog, chanVars, logFile, logger, comWrite, comLock, session, lost,
                 comPanic>>

LogGives(c) ==
  /\ sender[c].pc = "get"
  /\ \E k \in Life, s \in SenderState :
       /\ sender' = [sender EXCEPT ![c] = s] /\ s.pc = "give"
       /\ \/ s.byte = 0 /\ UNCHANGED queue
          \/ /\ queue[k] # << >> /\ s.byte = Head(queue[k])
             /\ queue' = [queue EXCEPT ![k] = Tail(@)]
  /\ UNCHANGED <<portVars, comLog, rchan, closed, bytes, logFile, logger, comWrite, comLock,
                 session, lost, comPanic>>

Gives(c) ==
  /\ sender[c].pc = "give"
  /\ \E s \in SenderState :
       /\ sender' = [sender EXCEPT ![c] = s]
       /\ \/ s.pc = "gone" /\ session[c].pc = "over" /\ lost' = [lost EXCEPT ![c] = @ + 1]
          \/ s.pc = "loop" /\ UNCHANGED lost
  /\ UNCHANGED <<portVars, comLog, chanVars, bytes, logFile, logger, comWrite, comLock, session,
                 comPanic>>

LEMMA LoggerBeginDoes ==
  ASSUME ComTypeOK, NEW g \in Life, LoggerBegin(g) PROVE LoggerBegins(g)
<1>. DEFINE Started(k) == [LoggerIdle EXCEPT !.pc = "loop", !.port = com, !.chan = k]
<1>1. \A k \in {0, g} : Started(k) \in LoggerState /\ Started(k).pc = "loop" /\ ~Started(k).flag
  BY DEF LoggerIdle, LoggerState, ComTypeOK
<1>2. LoggerGone \in LoggerState /\ LoggerGone.pc = "gone" /\ ~LoggerGone.flag
  BY DEF LoggerState, LoggerGone, LoggerIdle
<1>3. Log(g, LoggerGone) \/ Log(g, Started(0)) \/ Log(g, Started(g))
  BY DEF LoggerBegin
<1>4. rchan' \in {rchan, g}
  BY DEF LoggerBegin
<1>. HIDE DEF Started
<1>5. QED
  BY <1>1, <1>2, <1>3, <1>4 DEF LoggerBegin, LoggerBegins, Log

LEMMA LoggerReadDoes ==
  ASSUME ComTypeOK, NEW g \in Life, LoggerRead(g)
  PROVE  LoggerReads(g)
<1>1. logger[g] \in LoggerState
  BY DEF ComTypeOK
<1>3. Again(g) \in LoggerState /\ Again(g).pc = "loop" /\ ~Again(g).flag
  BY <1>1 DEF LoggerState, Again
<1>4. LoggerGone \in LoggerState /\ LoggerGone.pc = "gone" /\ ~LoggerGone.flag
  BY DEF LoggerState, LoggerGone, LoggerIdle
<1>5. /\ logger[g].pc = "read"
      /\ UNCHANGED <<portVars, comLog, chanVars, logFile, clientVars, comPanic>>
  BY DEF LoggerRead
<1>6. CASE bytes < MaxByte /\ bytes' = bytes + 1
           /\ Log(g, [logger[g] EXCEPT !.pc = "write", !.byte = bytes'])
  <2>1. bytes' \in Byte /\ bytes' \in 0 .. MaxByte
    BY <1>6, NextByte
  <2>. DEFINE l == [logger[g] EXCEPT !.pc = "write", !.byte = bytes']
  <2>2. l \in LoggerState /\ l.pc = "write" /\ l.byte = bytes' /\ l.flag = logger[g].flag
    BY <1>1, <2>1 DEF LoggerState
  <2>3. logger' = [logger EXCEPT ![g] = l]
    BY <1>6 DEF Log
  <2>. HIDE DEF l
  <2>4. QED
    BY <1>5, <2>1, <2>2, <2>3 DEF LoggerReads
<1>7. CASE bytes' = bytes /\ (Log(g, Again(g)) \/ Log(g, LoggerGone))
  BY <1>3, <1>4, <1>5, <1>7 DEF Log, ComTypeOK, LoggerReads
<1>8. QED
  BY <1>6, <1>7 DEF LoggerRead

LEMMA LoggerWriteDoes ==
  ASSUME ComTypeOK, NEW g \in Life, LoggerWrite(g)
  PROVE  LoggerWrites(g)
<1>1. logger[g] \in LoggerState
  BY DEF ComTypeOK
<1>. DEFINE To(pc) == [logger[g] EXCEPT !.pc = pc]
<1>2. \A pc \in {"send", "last"} :
        /\ To(pc) \in LoggerState /\ To(pc).pc = pc
        /\ To(pc).flag = logger[g].flag /\ To(pc).byte = logger[g].byte
        /\ To(pc).chan = logger[g].chan
  BY <1>1 DEF LoggerState
<1>3. logger[g].chan \in {0} \cup Life
  BY <1>1 DEF LoggerState
<1>4. /\ Again(g) \in LoggerState /\ Again(g).pc = "loop" /\ ~Again(g).flag
      /\ LoggerGone \in LoggerState /\ LoggerGone.pc = "gone" /\ ~LoggerGone.flag
  BY <1>1 DEF LoggerState, Again, LoggerGone, LoggerIdle
<1>5. /\ logger[g].pc = "write"
      /\ UNCHANGED <<portVars, comLog, chanVars, bytes, clientVars, comPanic>>
      /\ \/ /\ logFile' = logFile \cup {logger[g].byte}
            /\ Log(g, Again(g)) \/ (Forwards(g) /\ Log(g, To("send")))
         \/ /\ logFile' = logFile
            /\ Log(g, LoggerGone) \/ (Forwards(g) /\ Log(g, To("last")))
  BY DEF LoggerWrite
<1>. HIDE DEF To
<1>6. CASE Log(g, Again(g)) \/ Log(g, LoggerGone)
  BY <1>4, <1>5, <1>6 DEF LoggerWrites, Log
<1>7. CASE logFile' = logFile \cup {logger[g].byte} /\ Forwards(g) /\ Log(g, To("send"))
  BY <1>2, <1>3, <1>5, <1>7 DEF LoggerWrites, Log, Forwards
<1>8. CASE logFile' = logFile /\ Forwards(g) /\ Log(g, To("last"))
  BY <1>2, <1>3, <1>5, <1>8 DEF LoggerWrites, Log, Forwards
<1>9. QED
  BY <1>5, <1>6, <1>7, <1>8

LEMMA LoggerSendDoes ==
  ASSUME ComTypeOK, LoggerAt, NEW g \in Life, LoggerSend(g)
  PROVE  LoggerSends(g)
<1>1. logger[g] \in LoggerState
  BY DEF ComTypeOK
<1>2. Again(g) \in LoggerState /\ Again(g).pc = "loop" /\ ~Again(g).flag
  BY <1>1 DEF LoggerState, Again
<1>3. logger[g].chan \in Life /\ logger[g].byte \in Byte
  BY DEF LoggerSend, LoggerAt
<1>4. /\ EndsAfter(logger[g].byte) \in LoggerState
      /\ EndsAfter(logger[g].byte).pc = "gone" /\ ~EndsAfter(logger[g].byte).flag
      /\ EndsAfter(logger[g].byte).byte = logger[g].byte
  BY <1>3 DEF LoggerState, EndsAfter, LoggerGone, LoggerIdle
<1>5. QED
  BY <1>2, <1>3, <1>4 DEF LoggerSend, LoggerSends, Log, ComTypeOK

LEMMA SessionDoes ==
  ASSUME ComTypeOK, NEW c \in Client, SessionCheck(c) \/ SessionRecv(c) PROVE SessionGoesOn(c)
<1>1. session[c] \in SessionState
  BY DEF ComTypeOK
<1>2. SessionOver \in SessionState /\ SessionOver.pc = "over"
  BY DEF SessionOver, SessionIdle, SessionState
<1>3. \A p \in {"check", "recv"} : /\ [session[c] EXCEPT !.pc = p] \in SessionState
                                   /\ [session[c] EXCEPT !.pc = p].pc = p
  BY <1>1 DEF SessionState
<1>4. SessionCheck(c) => SessionGoesOn(c)
  BY <1>2, <1>3 DEF SessionCheck, SessionEnds, Goes, SessionGoesOn
<1>5. SessionRecv(c) => SessionGoesOn(c)
  BY <1>2, <1>3 DEF SessionRecv, SessionEnds, Goes, SessionGoesOn
<1>6. QED
  BY <1>4, <1>5

LEMMA FromDevDoes ==
  ASSUME ComTypeOK, NEW c \in Client, FromDev(c)
  PROVE  DevGives(c)
<1>1. sender[c] \in SenderState /\ ~sender[c].log
  BY DEF ComTypeOK, FromDev
<1>2. \A b \in Byte : /\ [sender[c] EXCEPT !.pc = "give", !.byte = b] \in SenderState
                      /\ [sender[c] EXCEPT !.pc = "give", !.byte = b].pc = "give"
                      /\ ~[sender[c] EXCEPT !.pc = "give", !.byte = b].log
  BY <1>1 DEF SenderState
<1>3. SendsNext(c) \in SenderState /\ SendsNext(c).pc = "loop" /\ ~SendsNext(c).log
  BY <1>1 DEF SenderState, SendsNext
<1>4. SenderGone \in SenderState /\ SenderGone.pc = "gone" /\ ~SenderGone.log
  BY DEF SenderState, SenderGone, SenderIdle
<1>5. CASE bytes < MaxByte /\ bytes' = bytes + 1
           /\ Sends(c, [sender[c] EXCEPT !.pc = "give", !.byte = bytes'])
  BY <1>2, <1>5, NextByte DEF FromDev, DevGives, Sends
<1>6. CASE bytes' = bytes /\ (Sends(c, SendsNext(c)) \/ Sends(c, SenderGone))
  BY <1>3, <1>4, <1>6 DEF FromDev, DevGives, Sends, ComTypeOK
<1>7. QED
  BY <1>5, <1>6 DEF FromDev

LEMMA FromLogDoes ==
  ASSUME ComTypeOK, NEW c \in Client, FromLog(c)
  PROVE  LogGives(c)
<1>. DEFINE k == sender[c].chan
<1>1. sender[c] \in SenderState /\ sender[c].pc = "get" /\ k \in Life
  BY DEF ComTypeOK, FromLog, SenderState
<1>2. \A b \in Byte \cup {0} : /\ [sender[c] EXCEPT !.pc = "give", !.byte = b] \in SenderState
                               /\ [sender[c] EXCEPT !.pc = "give", !.byte = b].pc = "give"
                               /\ [sender[c] EXCEPT !.pc = "give", !.byte = b].byte = b
  BY <1>1 DEF SenderState
<1>3. queue[k] # << >> => Head(queue[k]) \in Byte
  <2>1. queue[k] \in Seq(Byte)
    BY <1>1 DEF ComTypeOK
  <2>2. QED
    BY <2>1
<1>4. CASE queue[k] # << >>
  BY <1>1, <1>2, <1>3, <1>4 DEF FromLog, LogGives, Sends
<1>5. CASE queue[k] = << >>
  BY <1>1, <1>2, <1>5 DEF FromLog, LogGives, Sends
<1>6. QED
  BY <1>4, <1>5

LEMMA GiveDoes ==
  ASSUME ComTypeOK, NEW c \in Client, Give(c)
  PROVE  Gives(c)
<1>1. sender[c] \in SenderState
  BY DEF ComTypeOK
<1>2. SendsNext(c) \in SenderState /\ SendsNext(c).pc = "loop"
  BY <1>1 DEF SenderState, SendsNext
<1>3. SenderGone \in SenderState /\ SenderGone.pc = "gone"
  BY DEF SenderState, SenderGone, SenderIdle
<1>4. QED
  BY <1>2, <1>3 DEF Give, Gives, Sends

-----------------------------------------------------------------------------
LEMMA ComInitInv == ComInit => ComInv
<1>1. LoggerIdle \in LoggerState /\ SessionIdle \in SessionState /\ SenderIdle \in SenderState
  BY DEF LoggerIdle, SessionIdle, SenderIdle, LoggerState, SessionState, SenderState
<1>2. << >> \in Seq(Byte) /\ Len(<< >>) = 0
  OBVIOUS
<1>. SUFFICES ASSUME ComInit PROVE ComInv
  OBVIOUS
<1>3. ComTypeOK
  <2>1. 0 \in 0 .. MaxOpen /\ 0 \in 0 .. MaxByte /\ 0 <= Cap
    BY ComConstants
  <2>2. queue \in [Life -> Seq(Byte)] /\ \A g \in Life : Len(queue[g]) <= Cap
    BY <1>2, <2>1 DEF ComInit, ComIdle
  <2>3. QED
    BY <1>1, <2>1, <2>2 DEF ComInit, ComIdle, ComTypeOK
<1>4. Logged
  BY <1>2 DEF ComInit, ComIdle, Logged, LoggerIdle, SenderIdle
<1>5. PortAt /\ LoggerAt /\ SenderAt /\ Flagged
  BY DEF ComInit, ComIdle, PortAt, LoggerAt, SenderAt, Flagged, Attached, LoggerIdle, SessionIdle,
     SenderIdle
<1>6. QED
  BY <1>3, <1>4, <1>5 DEF ComInv

LEMMA ComTypeStep ==
  ASSUME ComInv, [ComNext]_comVars
  PROVE  ComTypeOK'
<1>1. CASE PowerOn
  BY <1>1 DEF PowerOn, portVars, chanVars, clientVars, ComInv, ComTypeOK, PortAt, LoggerAt
<1>2. CASE ProcessStart
  BY <1>2 DEF ProcessStart, portVars, chanVars, clientVars, ComInv, ComTypeOK, PortAt,
     LoggerAt
<1>3. CASE SetupFails
  BY <1>3 DEF SetupFails, portVars, chanVars, clientVars, ComInv, ComTypeOK, PortAt, LoggerAt
<1>4. CASE SetupCom
  <2>1. opened' = opened + 1 /\ opened' \in Life
    BY <1>4, ComConstants DEF SetupCom, ComInv, ComTypeOK, Life
  <2>2. ASSUME NEW g \in Life PROVE [logger[g] EXCEPT !.pc = "begin"] \in LoggerState
    <3>1. logger[g] \in LoggerState
      BY DEF ComInv, ComTypeOK
    <3>2. QED
      BY <3>1 DEF LoggerState
  <2>3. logger' \in [Life -> LoggerState]
    BY <1>4, <2>1, <2>2 DEF SetupCom, ComInv, ComTypeOK
  <2>4. opened' \in 0 .. MaxOpen
    BY <2>1, ComConstants DEF Life
  <2>5. QED
    BY <1>4, <2>1, <2>3, <2>4 DEF SetupCom, chanVars, clientVars, ComInv, ComTypeOK
<1>5. CASE AssignCom
  BY <1>5 DEF AssignCom, portVars, chanVars, clientVars, ComInv, ComTypeOK, PortAt, LoggerAt
<1>6. CASE ProcessCrashed
  BY <1>6 DEF ProcessCrashed, KillCom, portVars, chanVars, clientVars, ComInv, ComTypeOK,
     PortAt, LoggerAt
<1>7. CASE DoneKillCom
  BY <1>7 DEF DoneKillCom, KillCom, portVars, chanVars, clientVars, ComInv, ComTypeOK,
     PortAt, LoggerAt
<1>8. CASE DoneSetStopped
  BY <1>8 DEF DoneSetStopped, portVars, chanVars, clientVars, ComInv, ComTypeOK, PortAt,
     LoggerAt
<1>9. ASSUME NEW g \in Life, LoggerBegin(g) PROVE ComTypeOK'
  <2>0. LoggerBegins(g)
    BY <1>9, LoggerBeginDoes DEF ComInv
  <2>1. QED
    BY <2>0 DEF LoggerBegins, portVars, chanVars, clientVars, ComInv, ComTypeOK, PortAt,
       LoggerAt
<1>10. ASSUME NEW g \in Life, LoggerLoop(g) PROVE ComTypeOK'
  <2>1. \E x \in LoggerState : logger' = [logger EXCEPT ![g] = x]
    BY <1>10 DEF LoggerLoop, Log, LoggerGone, LoggerIdle, LoggerState, portVars, chanVars,
       clientVars, ComInv, ComTypeOK, PortAt, LoggerAt
  <2>2. QED
    BY <1>10, <2>1 DEF LoggerLoop, Log, LoggerGone, LoggerIdle, portVars, chanVars,
       clientVars, ComInv, ComTypeOK, PortAt, LoggerAt
<1>11. ASSUME NEW g \in Life, LoggerRead(g) PROVE ComTypeOK'
  <2>0. LoggerReads(g)
    BY <1>11, LoggerReadDoes DEF ComInv
  <2>1. QED
    BY <2>0 DEF LoggerReads, portVars, chanVars, clientVars, ComInv, ComTypeOK, PortAt,
       LoggerAt
<1>12. ASSUME NEW g \in Life, LoggerWrite(g) PROVE ComTypeOK'
  <2>0. LoggerWrites(g)
    BY <1>12, LoggerWriteDoes DEF ComInv
  <2>1. QED
    BY <2>0 DEF LoggerWrites, portVars, chanVars, clientVars, ComInv, ComTypeOK, PortAt,
       LoggerAt
<1>13. ASSUME NEW g \in Life, LoggerSend(g) PROVE ComTypeOK'
  <2>0. LoggerSends(g)
    BY <1>13, LoggerSendDoes DEF ComInv
  <2>1. queue' \in [Life -> Seq(Byte)] /\ \A k \in Life : Len(queue[k]') <= Cap
    <3>1. CASE queue' = queue
      BY <3>1 DEF ComInv, ComTypeOK, PortAt, LoggerAt
    <3>2. ASSUME NEW k \in Life, Len(queue[k]) < Cap,
                 queue' = [queue EXCEPT ![k] = Append(@, logger[g].byte)]
          PROVE  queue' \in [Life -> Seq(Byte)] /\ \A j \in Life : Len(queue[j]') <= Cap
      <4>1. logger[g].byte \in Byte /\ queue[k] \in Seq(Byte)
        BY <2>0 DEF LoggerSends, ComInv, ComTypeOK, LoggerAt
      <4>2. /\ Append(queue[k], logger[g].byte) \in Seq(Byte)
            /\ Len(Append(queue[k], logger[g].byte)) = Len(queue[k]) + 1
        BY <4>1 DEF ComInv, ComTypeOK, PortAt, LoggerAt
      <4>3. Len(queue[k]) + 1 <= Cap
        BY <3>2, <4>1, ComConstants
      <4>4. QED
        BY <3>2, <4>2, <4>3 DEF ComInv, ComTypeOK, PortAt, LoggerAt
    <3>3. QED
      BY <2>0, <3>1, <3>2 DEF LoggerSends, ComInv, ComTypeOK
  <2>2. logger' \in [Life -> LoggerState] /\ comPanic' \in BOOLEAN
    BY <2>0 DEF LoggerSends, ComInv, ComTypeOK
  <2>3. QED
    BY <2>0, <2>1, <2>2 DEF LoggerSends, portVars, clientVars, ComInv, ComTypeOK
<1>14. ASSUME NEW c \in Client, ComInteractive(c) PROVE ComTypeOK'
  <2>1. \E x \in SessionState : session' = [session EXCEPT ![c] = x]
    BY <1>14 DEF ComInteractive, Goes, SessionState, portVars, chanVars, clientVars, ComInv,
       ComTypeOK, PortAt, LoggerAt
  <2>2. QED
    BY <1>14, <2>1 DEF ComInteractive, Goes, portVars, chanVars, clientVars, ComInv,
       ComTypeOK, PortAt, LoggerAt
<1>15. ASSUME NEW c \in Client, SessionBegin(c) PROVE ComTypeOK'
  <2>1. \E x \in SessionState : session' = [session EXCEPT ![c] = x]
    BY <1>15 DEF SessionBegin, Goes, SessionOver, SessionIdle, SessionState, portVars,
       chanVars, clientVars, ComInv, ComTypeOK, PortAt, LoggerAt
  <2>2. QED
    BY <1>15, <2>1 DEF SessionBegin, Goes, SessionOver, SessionIdle, portVars, chanVars,
       clientVars, ComInv, ComTypeOK, PortAt, LoggerAt
<1>16. ASSUME NEW c \in Client, FlushByte(c) PROVE ComTypeOK'
  BY <1>16, NextByte DEF FlushByte, portVars, chanVars, clientVars, ComInv, ComTypeOK, PortAt,
     LoggerAt
<1>17. ASSUME NEW c \in Client, FlushDone(c) PROVE ComTypeOK'
  <2>1. session' \in [Client -> SessionState]
    BY <1>17, ZenonT(60) DEF FlushDone, Goes, SessionState, ComInv, ComTypeOK, PortAt, LoggerAt
  <2>2. sender' \in [Client -> SenderState]
    BY <1>17 DEF FlushDone, SessionState, SenderState, ComInv, ComTypeOK, PortAt, LoggerAt
  <2>3. QED
    BY <1>17, <2>1, <2>2 DEF FlushDone, portVars, chanVars, ComInv, ComTypeOK, PortAt,
       LoggerAt
<1>18. ASSUME NEW c \in Client, SessionCheck(c) PROVE ComTypeOK'
  <2>0. SessionGoesOn(c)
    BY <1>18, SessionDoes DEF ComInv
  <2>1. QED
    BY <2>0 DEF SessionGoesOn, portVars, chanVars, clientVars, ComInv, ComTypeOK, PortAt,
       LoggerAt
<1>19. ASSUME NEW c \in Client, SessionRecv(c) PROVE ComTypeOK'
  <2>0. SessionGoesOn(c)
    BY <1>19, SessionDoes DEF ComInv
  <2>1. QED
    BY <2>0 DEF SessionGoesOn, portVars, chanVars, clientVars, ComInv, ComTypeOK, PortAt,
       LoggerAt
<1>20. ASSUME NEW c \in Client, SenderLoop(c) PROVE ComTypeOK'
  <2>1. \E x \in SenderState : sender' = [sender EXCEPT ![c] = x]
    BY <1>20 DEF SenderLoop, Sends, SenderGone, SenderIdle, SenderState, portVars, chanVars,
       clientVars, ComInv, ComTypeOK, PortAt, LoggerAt
  <2>2. QED
    BY <1>20, <2>1 DEF SenderLoop, Sends, SenderGone, SenderIdle, portVars, chanVars,
       clientVars, ComInv, ComTypeOK, PortAt, LoggerAt
<1>21. ASSUME NEW c \in Client, FromDev(c) PROVE ComTypeOK'
  <2>0. DevGives(c)
    BY <1>21, FromDevDoes DEF ComInv
  <2>1. QED
    BY <2>0 DEF DevGives, portVars, chanVars, clientVars, ComInv, ComTypeOK, PortAt, LoggerAt
<1>22. ASSUME NEW c \in Client, FromLog(c) PROVE ComTypeOK'
  <2>0. LogGives(c)
    BY <1>22, FromLogDoes DEF ComInv
  <2>1. queue' \in [Life -> Seq(Byte)] /\ \A k \in Life : Len(queue[k]') <= Cap
    <3>1. CASE queue' = queue
      BY <3>1 DEF ComInv, ComTypeOK, PortAt, LoggerAt
    <3>2. ASSUME NEW k \in Life, queue[k] # << >>, queue' = [queue EXCEPT ![k] = Tail(@)]
          PROVE  queue' \in [Life -> Seq(Byte)] /\ \A j \in Life : Len(queue[j]') <= Cap
      <4>1. queue[k] \in Seq(Byte)
        BY DEF ComInv, ComTypeOK, PortAt, LoggerAt
      <4>2. Tail(queue[k]) \in Seq(Byte) /\ Len(Tail(queue[k])) = Len(queue[k]) - 1
        BY <3>2, <4>1 DEF ComInv, ComTypeOK, PortAt, LoggerAt
      <4>3. Len(queue[k]) - 1 <= Cap
        BY <4>1, ComConstants DEF ComInv, ComTypeOK
      <4>4. QED
        BY <3>2, <4>2, <4>3 DEF ComInv, ComTypeOK, PortAt, LoggerAt
    <3>3. QED
      BY <2>0, <3>1, <3>2 DEF LogGives, ComInv, ComTypeOK
  <2>2. QED
    BY <2>0, <2>1 DEF LogGives, portVars, clientVars, ComInv, ComTypeOK, PortAt, LoggerAt
<1>23. ASSUME NEW c \in Client, Give(c) PROVE ComTypeOK'
  <2>0. Gives(c)
    BY <1>23, GiveDoes DEF ComInv
  <2>1. sender' \in [Client -> SenderState] /\ lost' \in [Client -> Nat]
    BY <2>0 DEF Gives, ComInv, ComTypeOK
  <2>2. /\ UNCHANGED <<vmStatus, monitor, opened, isOpen, com, comLog, rchan, queue, closed>>
        /\ UNCHANGED <<bytes, logFile, logger, comWrite, comLock, session, comPanic>>
    BY <2>0 DEF Gives, portVars, chanVars
  <2>3. QED
    BY <2>1, <2>2 DEF ComInv, ComTypeOK
<1>24. CASE UNCHANGED comVars
  BY <1>24 DEF comVars, ComInv, ComTypeOK, PortAt, LoggerAt
<1>25. QED
  BY <1>1, <1>2, <1>3, <1>4, <1>5, <1>6, <1>7, <1>8, <1>9, <1>10, <1>11, <1>12, <1>13, <1>14,
     <1>15, <1>16, <1>17, <1>18, <1>19, <1>20, <1>21, <1>22, <1>23, <1>24 DEF ComNext, ComStep,
     MonitorStep, LoggerStep, ClientStep

LEMMA PortAtStep ==
  ASSUME ComInv, [ComNext]_comVars
  PROVE  PortAt'
<1>1. CASE PowerOn
  BY <1>1 DEF PowerOn, portVars, chanVars, clientVars, ComInv, ComTypeOK, PortAt
<1>2. CASE ProcessStart
  BY <1>2 DEF ProcessStart, portVars, chanVars, clientVars, ComInv, ComTypeOK, PortAt
<1>3. CASE SetupFails
  BY <1>3 DEF SetupFails, portVars, chanVars, clientVars, ComInv, ComTypeOK, PortAt
<1>4. CASE SetupCom
  BY <1>4, ComConstants
     DEF Life, SetupCom, portVars, chanVars, clientVars, ComInv, ComTypeOK, PortAt
<1>5. CASE AssignCom
  BY <1>5, ComConstants
     DEF Life, AssignCom, portVars, chanVars, clientVars, ComInv, ComTypeOK, PortAt
<1>6. CASE ProcessCrashed
  BY <1>6 DEF ProcessCrashed, KillCom, portVars, chanVars, clientVars, ComInv, ComTypeOK,
     PortAt
<1>7. CASE DoneKillCom
  BY <1>7 DEF DoneKillCom, KillCom, portVars, chanVars, clientVars, ComInv, ComTypeOK, PortAt
<1>8. CASE DoneSetStopped
  BY <1>8 DEF DoneSetStopped, portVars, chanVars, clientVars, ComInv, ComTypeOK, PortAt
<1>9. ASSUME NEW g \in Life, LoggerBegin(g) PROVE PortAt'
  <2>0. LoggerBegins(g)
    BY <1>9, LoggerBeginDoes DEF ComInv
  <2>1. QED
    BY <2>0 DEF LoggerBegins, portVars, chanVars, clientVars, ComInv, ComTypeOK, PortAt
<1>10. ASSUME NEW g \in Life, LoggerLoop(g) PROVE PortAt'
  BY <1>10 DEF LoggerLoop, Log, LoggerGone, LoggerIdle, portVars, chanVars, clientVars,
     ComInv, ComTypeOK, PortAt
<1>11. ASSUME NEW g \in Life, LoggerRead(g) PROVE PortAt'
  <2>0. LoggerReads(g)
    BY <1>11, LoggerReadDoes DEF ComInv
  <2>1. QED
    BY <2>0 DEF LoggerReads, portVars, chanVars, clientVars, ComInv, ComTypeOK, PortAt
<1>12. ASSUME NEW g \in Life, LoggerWrite(g) PROVE PortAt'
  <2>0. LoggerWrites(g)
    BY <1>12, LoggerWriteDoes DEF ComInv
  <2>1. QED
    BY <2>0 DEF LoggerWrites, portVars, chanVars, clientVars, ComInv, ComTypeOK, PortAt
<1>13. ASSUME NEW g \in Life, LoggerSend(g) PROVE PortAt'
  <2>0. LoggerSends(g)
    BY <1>13, LoggerSendDoes DEF ComInv
  <2>1. QED
    BY <2>0 DEF LoggerSends, portVars, chanVars, clientVars, ComInv, ComTypeOK, PortAt
<1>14. ASSUME NEW c \in Client, ComInteractive(c) PROVE PortAt'
  BY <1>14 DEF ComInteractive, Goes, portVars, chanVars, clientVars, ComInv, ComTypeOK, PortAt
<1>15. ASSUME NEW c \in Client, SessionBegin(c) PROVE PortAt'
  BY <1>15 DEF SessionBegin, Goes, SessionOver, SessionIdle, portVars, chanVars, clientVars,
     ComInv, ComTypeOK, PortAt
<1>16. ASSUME NEW c \in Client, FlushByte(c) PROVE PortAt'
  BY <1>16 DEF FlushByte, portVars, chanVars, clientVars, ComInv, ComTypeOK, PortAt
<1>17. ASSUME NEW c \in Client, FlushDone(c) PROVE PortAt'
  BY <1>17 DEF FlushDone, Goes, portVars, chanVars, clientVars, ComInv, ComTypeOK, PortAt
<1>18. ASSUME NEW c \in Client, SessionCheck(c) PROVE PortAt'
  <2>0. SessionGoesOn(c)
    BY <1>18, SessionDoes DEF ComInv
  <2>1. QED
    BY <2>0 DEF SessionGoesOn, portVars, chanVars, clientVars, ComInv, ComTypeOK, PortAt
<1>19. ASSUME NEW c \in Client, SessionRecv(c) PROVE PortAt'
  <2>0. SessionGoesOn(c)
    BY <1>19, SessionDoes DEF ComInv
  <2>1. QED
    BY <2>0 DEF SessionGoesOn, portVars, chanVars, clientVars, ComInv, ComTypeOK, PortAt
<1>20. ASSUME NEW c \in Client, SenderLoop(c) PROVE PortAt'
  BY <1>20 DEF SenderLoop, Sends, SenderGone, SenderIdle, portVars, chanVars, clientVars,
     ComInv, ComTypeOK, PortAt
<1>21. ASSUME NEW c \in Client, FromDev(c) PROVE PortAt'
  <2>0. DevGives(c)
    BY <1>21, FromDevDoes DEF ComInv
  <2>1. QED
    BY <2>0 DEF DevGives, portVars, chanVars, clientVars, ComInv, ComTypeOK, PortAt
<1>22. ASSUME NEW c \in Client, FromLog(c) PROVE PortAt'
  <2>0. LogGives(c)
    BY <1>22, FromLogDoes DEF ComInv
  <2>1. QED
    BY <2>0 DEF LogGives, portVars, chanVars, clientVars, ComInv, ComTypeOK, PortAt
<1>23. ASSUME NEW c \in Client, Give(c) PROVE PortAt'
  <2>0. Gives(c)
    BY <1>23, GiveDoes DEF ComInv
  <2>1. QED
    BY <2>0 DEF Gives, portVars, chanVars, clientVars, ComInv, ComTypeOK, PortAt
<1>24. CASE UNCHANGED comVars
  BY <1>24 DEF comVars, ComInv, ComTypeOK, PortAt
<1>25. QED
  BY <1>1, <1>2, <1>3, <1>4, <1>5, <1>6, <1>7, <1>8, <1>9, <1>10, <1>11, <1>12, <1>13, <1>14,
     <1>15, <1>16, <1>17, <1>18, <1>19, <1>20, <1>21, <1>22, <1>23, <1>24 DEF ComNext, ComStep,
     MonitorStep, LoggerStep, ClientStep

LEMMA LoggerAtStep ==
  ASSUME ComInv, [ComNext]_comVars
  PROVE  LoggerAt'
<1>1. CASE PowerOn
  BY <1>1 DEF PowerOn, portVars, chanVars, clientVars, ComInv, ComTypeOK, LoggerAt
<1>2. CASE ProcessStart
  BY <1>2 DEF ProcessStart, portVars, chanVars, clientVars, ComInv, ComTypeOK, LoggerAt
<1>3. CASE SetupFails
  BY <1>3 DEF SetupFails, portVars, chanVars, clientVars, ComInv, ComTypeOK, LoggerAt
<1>4. CASE SetupCom
  BY <1>4, ComConstants, SMTT(30)
     DEF Life, SetupCom, portVars, chanVars, clientVars, ComInv, ComTypeOK, LoggerAt
<1>5. CASE AssignCom
  BY <1>5 DEF AssignCom, portVars, chanVars, clientVars, ComInv, ComTypeOK, LoggerAt
<1>6. CASE ProcessCrashed
  BY <1>6 DEF ProcessCrashed, KillCom, portVars, chanVars, clientVars, ComInv, ComTypeOK,
     LoggerAt
<1>7. CASE DoneKillCom
  BY <1>7 DEF DoneKillCom, KillCom, portVars, chanVars, clientVars, ComInv, ComTypeOK,
     LoggerAt
<1>8. CASE DoneSetStopped
  BY <1>8 DEF DoneSetStopped, portVars, chanVars, clientVars, ComInv, ComTypeOK, LoggerAt
<1>9. ASSUME NEW g \in Life, LoggerBegin(g) PROVE LoggerAt'
  <2>0. LoggerBegins(g)
    BY <1>9, LoggerBeginDoes DEF ComInv
  <2>1. QED
    BY <2>0 DEF LoggerBegins, portVars, chanVars, clientVars, ComInv, ComTypeOK, LoggerAt
<1>10. ASSUME NEW g \in Life, LoggerLoop(g) PROVE LoggerAt'
  BY <1>10 DEF LoggerLoop, Log, LoggerGone, LoggerIdle, portVars, chanVars, clientVars,
     ComInv, ComTypeOK, LoggerAt
<1>11. ASSUME NEW g \in Life, LoggerRead(g) PROVE LoggerAt'
  <2>0. LoggerReads(g)
    BY <1>11, LoggerReadDoes DEF ComInv
  <2>1. QED
    BY <2>0 DEF LoggerReads, portVars, chanVars, clientVars, ComInv, ComTypeOK, LoggerAt
<1>12. ASSUME NEW g \in Life, LoggerWrite(g) PROVE LoggerAt'
  <2>0. LoggerWrites(g)
    BY <1>12, LoggerWriteDoes DEF ComInv
  <2>1. QED
    BY <2>0 DEF LoggerWrites, portVars, chanVars, clientVars, ComInv, ComTypeOK, LoggerAt
<1>13. ASSUME NEW g \in Life, LoggerSend(g) PROVE LoggerAt'
  <2>0. LoggerSends(g)
    BY <1>13, LoggerSendDoes DEF ComInv
  <2>1. QED
    BY <2>0 DEF LoggerSends, portVars, chanVars, clientVars, ComInv, ComTypeOK, LoggerAt
<1>14. ASSUME NEW c \in Client, ComInteractive(c) PROVE LoggerAt'
  BY <1>14 DEF ComInteractive, Goes, portVars, chanVars, clientVars, ComInv, ComTypeOK,
     LoggerAt
<1>15. ASSUME NEW c \in Client, SessionBegin(c) PROVE LoggerAt'
  BY <1>15 DEF SessionBegin, Goes, SessionOver, SessionIdle, portVars, chanVars, clientVars,
     ComInv, ComTypeOK, LoggerAt
<1>16. ASSUME NEW c \in Client, FlushByte(c) PROVE LoggerAt'
  BY <1>16 DEF FlushByte, portVars, chanVars, clientVars, ComInv, ComTypeOK, LoggerAt
<1>17. ASSUME NEW c \in Client, FlushDone(c) PROVE LoggerAt'
  BY <1>17 DEF FlushDone, Goes, portVars, chanVars, clientVars, ComInv, ComTypeOK, LoggerAt
<1>18. ASSUME NEW c \in Client, SessionCheck(c) PROVE LoggerAt'
  <2>0. SessionGoesOn(c)
    BY <1>18, SessionDoes DEF ComInv
  <2>1. QED
    BY <2>0 DEF SessionGoesOn, portVars, chanVars, clientVars, ComInv, ComTypeOK, LoggerAt
<1>19. ASSUME NEW c \in Client, SessionRecv(c) PROVE LoggerAt'
  <2>0. SessionGoesOn(c)
    BY <1>19, SessionDoes DEF ComInv
  <2>1. QED
    BY <2>0 DEF SessionGoesOn, portVars, chanVars, clientVars, ComInv, ComTypeOK, LoggerAt
<1>20. ASSUME NEW c \in Client, SenderLoop(c) PROVE LoggerAt'
  BY <1>20 DEF SenderLoop, Sends, SenderGone, SenderIdle, portVars, chanVars, clientVars,
     ComInv, ComTypeOK, LoggerAt
<1>21. ASSUME NEW c \in Client, FromDev(c) PROVE LoggerAt'
  <2>0. DevGives(c)
    BY <1>21, FromDevDoes DEF ComInv
  <2>1. QED
    BY <2>0 DEF DevGives, portVars, chanVars, clientVars, ComInv, ComTypeOK, LoggerAt
<1>22. ASSUME NEW c \in Client, FromLog(c) PROVE LoggerAt'
  <2>0. LogGives(c)
    BY <1>22, FromLogDoes DEF ComInv
  <2>1. QED
    BY <2>0 DEF LogGives, portVars, chanVars, clientVars, ComInv, ComTypeOK, LoggerAt
<1>23. ASSUME NEW c \in Client, Give(c) PROVE LoggerAt'
  <2>0. Gives(c)
    BY <1>23, GiveDoes DEF ComInv
  <2>1. QED
    BY <2>0 DEF Gives, portVars, chanVars, clientVars, ComInv, ComTypeOK, LoggerAt
<1>24. CASE UNCHANGED comVars
  BY <1>24 DEF comVars, ComInv, ComTypeOK, LoggerAt
<1>25. QED
  BY <1>1, <1>2, <1>3, <1>4, <1>5, <1>6, <1>7, <1>8, <1>9, <1>10, <1>11, <1>12, <1>13, <1>14,
     <1>15, <1>16, <1>17, <1>18, <1>19, <1>20, <1>21, <1>22, <1>23, <1>24 DEF ComNext, ComStep,
     MonitorStep, LoggerStep, ClientStep

LEMMA SenderAtStep ==
  ASSUME ComInv, [ComNext]_comVars
  PROVE  SenderAt'
<1>1. CASE PowerOn
  BY <1>1 DEF PowerOn, portVars, chanVars, clientVars, ComInv, ComTypeOK, SenderAt
<1>2. CASE ProcessStart
  BY <1>2 DEF ProcessStart, portVars, chanVars, clientVars, ComInv, ComTypeOK, SenderAt
<1>3. CASE SetupFails
  BY <1>3 DEF SetupFails, portVars, chanVars, clientVars, ComInv, ComTypeOK, SenderAt
<1>4. CASE SetupCom
  BY <1>4 DEF SetupCom, portVars, chanVars, clientVars, ComInv, ComTypeOK, SenderAt
<1>5. CASE AssignCom
  BY <1>5 DEF AssignCom, portVars, chanVars, clientVars, ComInv, ComTypeOK, SenderAt
<1>6. CASE ProcessCrashed
  BY <1>6 DEF ProcessCrashed, KillCom, portVars, chanVars, clientVars, ComInv, ComTypeOK,
     SenderAt
<1>7. CASE DoneKillCom
  BY <1>7 DEF DoneKillCom, KillCom, portVars, chanVars, clientVars, ComInv, ComTypeOK,
     SenderAt
<1>8. CASE DoneSetStopped
  BY <1>8 DEF DoneSetStopped, portVars, chanVars, clientVars, ComInv, ComTypeOK, SenderAt
<1>9. ASSUME NEW g \in Life, LoggerBegin(g) PROVE SenderAt'
  <2>0. LoggerBegins(g)
    BY <1>9, LoggerBeginDoes DEF ComInv
  <2>1. QED
    BY <2>0 DEF LoggerBegins, portVars, chanVars, clientVars, ComInv, ComTypeOK, SenderAt
<1>10. ASSUME NEW g \in Life, LoggerLoop(g) PROVE SenderAt'
  BY <1>10 DEF LoggerLoop, Log, LoggerGone, LoggerIdle, portVars, chanVars, clientVars,
     ComInv, ComTypeOK, SenderAt
<1>11. ASSUME NEW g \in Life, LoggerRead(g) PROVE SenderAt'
  <2>0. LoggerReads(g)
    BY <1>11, LoggerReadDoes DEF ComInv
  <2>1. QED
    BY <2>0 DEF LoggerReads, portVars, chanVars, clientVars, ComInv, ComTypeOK, SenderAt
<1>12. ASSUME NEW g \in Life, LoggerWrite(g) PROVE SenderAt'
  <2>0. LoggerWrites(g)
    BY <1>12, LoggerWriteDoes DEF ComInv
  <2>1. QED
    BY <2>0 DEF LoggerWrites, portVars, chanVars, clientVars, ComInv, ComTypeOK, SenderAt
<1>13. ASSUME NEW g \in Life, LoggerSend(g) PROVE SenderAt'
  <2>0. LoggerSends(g)
    BY <1>13, LoggerSendDoes DEF ComInv
  <2>1. QED
    BY <2>0 DEF LoggerSends, portVars, chanVars, clientVars, ComInv, ComTypeOK, SenderAt
<1>14. ASSUME NEW c \in Client, ComInteractive(c) PROVE SenderAt'
  BY <1>14 DEF ComInteractive, Goes, portVars, chanVars, clientVars, ComInv, ComTypeOK,
     SenderAt
<1>15. ASSUME NEW c \in Client, SessionBegin(c) PROVE SenderAt'
  BY <1>15 DEF SessionBegin, Goes, SessionOver, SessionIdle, portVars, chanVars, clientVars,
     ComInv, ComTypeOK, SenderAt
<1>16. ASSUME NEW c \in Client, FlushByte(c) PROVE SenderAt'
  BY <1>16 DEF FlushByte, portVars, chanVars, clientVars, ComInv, ComTypeOK, SenderAt
<1>17. ASSUME NEW c \in Client, FlushDone(c) PROVE SenderAt'
  BY <1>17 DEF FlushDone, Goes, portVars, chanVars, clientVars, ComInv, ComTypeOK, SenderAt
<1>18. ASSUME NEW c \in Client, SessionCheck(c) PROVE SenderAt'
  <2>0. SessionGoesOn(c)
    BY <1>18, SessionDoes DEF ComInv
  <2>1. QED
    BY <2>0 DEF SessionGoesOn, portVars, chanVars, clientVars, ComInv, ComTypeOK, SenderAt
<1>19. ASSUME NEW c \in Client, SessionRecv(c) PROVE SenderAt'
  <2>0. SessionGoesOn(c)
    BY <1>19, SessionDoes DEF ComInv
  <2>1. QED
    BY <2>0 DEF SessionGoesOn, portVars, chanVars, clientVars, ComInv, ComTypeOK, SenderAt
<1>20. ASSUME NEW c \in Client, SenderLoop(c) PROVE SenderAt'
  BY <1>20 DEF SenderLoop, Sends, SenderGone, SenderIdle, portVars, chanVars, clientVars,
     ComInv, ComTypeOK, SenderAt
<1>21. ASSUME NEW c \in Client, FromDev(c) PROVE SenderAt'
  <2>0. DevGives(c)
    BY <1>21, FromDevDoes DEF ComInv
  <2>1. QED
    BY <2>0 DEF DevGives, portVars, chanVars, clientVars, ComInv, ComTypeOK, SenderAt
<1>22. ASSUME NEW c \in Client, FromLog(c) PROVE SenderAt'
  <2>0. LogGives(c)
    BY <1>22, FromLogDoes DEF ComInv
  <2>1. QED
    BY <2>0 DEF LogGives, portVars, chanVars, clientVars, ComInv, ComTypeOK, SenderAt
<1>23. ASSUME NEW c \in Client, Give(c) PROVE SenderAt'
  <2>0. Gives(c)
    BY <1>23, GiveDoes DEF ComInv
  <2>1. QED
    BY <2>0 DEF Gives, portVars, chanVars, clientVars, ComInv, ComTypeOK, SenderAt
<1>24. CASE UNCHANGED comVars
  BY <1>24 DEF comVars, ComInv, ComTypeOK, SenderAt
<1>25. QED
  BY <1>1, <1>2, <1>3, <1>4, <1>5, <1>6, <1>7, <1>8, <1>9, <1>10, <1>11, <1>12, <1>13, <1>14,
     <1>15, <1>16, <1>17, <1>18, <1>19, <1>20, <1>21, <1>22, <1>23, <1>24 DEF ComNext, ComStep,
     MonitorStep, LoggerStep, ClientStep

\* A logger that has ended keeps the byte it ended with, and the log is never cut.
LEMMA LogGrows ==
  ASSUME ComInv, [ComNext]_comVars
  PROVE  \A b \in Byte : b \in InLog => b \in InLog'
<1>. DEFINE Ended(l) == l.pc \in {"last", "gone"}
            Stay == \A g \in Life : Ended(logger[g]) =>
                      Ended(logger'[g]) /\ logger'[g].byte = logger[g].byte
<1>1. ASSUME SetupCom PROVE Stay /\ logFile \subseteq logFile'
  <2>1. opened' = opened + 1 /\ opened' \in Life /\ opened' > opened /\ logFile' = logFile
    BY <1>1, ComConstants DEF SetupCom, ComInv, ComTypeOK, Life
  <2>2. logger[opened'].pc = "none"
    BY <2>1 DEF ComInv, LoggerAt
  <2>3. QED
    BY <1>1, <2>1, <2>2 DEF SetupCom, ComInv, ComTypeOK
<1>2. ASSUME NEW g \in Life, LoggerStep(g) PROVE Stay /\ logFile \subseteq logFile'
  <2>1. CASE LoggerBegin(g)
    BY <2>1, LoggerBeginDoes DEF LoggerBegins, ComInv, ComTypeOK
  <2>2. CASE LoggerLoop(g)
    BY <2>2 DEF LoggerLoop, Log, ComInv, ComTypeOK
  <2>3. CASE LoggerRead(g)
    BY <2>3, LoggerReadDoes DEF LoggerReads, ComInv, ComTypeOK
  <2>4. CASE LoggerWrite(g)
    BY <2>4, LoggerWriteDoes DEF LoggerWrites, ComInv, ComTypeOK
  <2>5. CASE LoggerSend(g)
    BY <2>5, LoggerSendDoes DEF LoggerSends, ComInv, ComTypeOK
  <2>6. QED
    BY <1>2, <2>1, <2>2, <2>3, <2>4, <2>5 DEF LoggerStep
<1>3. ASSUME NEW c \in Client, ClientStep(c) PROVE logger' = logger /\ logFile' = logFile
  BY <1>3 DEF ClientStep, ComInteractive, SessionBegin, FlushByte, FlushDone, SessionCheck,
     SessionRecv, SenderLoop, FromDev, FromLog, Give
<1>4. ASSUME MonitorStep, ~SetupCom PROVE logger' = logger /\ logFile' = logFile
  BY <1>4 DEF MonitorStep, PowerOn, ProcessStart, SetupFails, AssignCom, ProcessCrashed,
     DoneKillCom, KillCom, DoneSetStopped
<1>5. ASSUME UNCHANGED comVars PROVE logger' = logger /\ logFile' = logFile
  BY <1>5 DEF comVars
<1>6. logger' = logger => Stay
  OBVIOUS
<1>. HIDE DEF Stay
<1>7. Stay /\ logFile \subseteq logFile'
  BY <1>1, <1>2, <1>3, <1>4, <1>5, <1>6 DEF ComNext, ComStep
<1>. USE DEF Stay
<1>8. ASSUME NEW b, b \in LogEnds PROVE b \in LogEnds'
  <2>1. PICK g \in Life : logger[g].pc \in {"last", "gone"} /\ logger[g].byte = b
    BY <1>8 DEF LogEnds
  <2>2. logger'[g].pc \in {"last", "gone"} /\ logger'[g].byte = b
    BY <1>7, <2>1
  <2>3. QED
    BY <2>2 DEF LogEnds
<1>9. QED
  BY <1>7, <1>8 DEF InLog

LEMMA LoggedStep ==
  ASSUME ComInv, [ComNext]_comVars
  PROVE  Logged'
<1>0. /\ \A b \in Byte : b \in InLog => b \in InLog'
      /\ \A g \in Life : \A i \in 1 .. Len(queue[g]) : queue[g][i] \in InLog'
      /\ \A g \in Life : logger[g].pc \in {"send", "last"} => logger[g].byte \in InLog'
      /\ \A c \in Client : sender[c].log /\ sender[c].pc = "give" /\ sender[c].byte # 0
           => sender[c].byte \in InLog'
  <2>1. \A b \in Byte : b \in InLog => b \in InLog'
    BY LogGrows
  <2>2. \A g \in Life : queue[g] \in Seq(Byte)
    BY DEF ComInv, ComTypeOK
  <2>3. \A g \in Life : \A i \in 1 .. Len(queue[g]) : queue[g][i] \in Byte
    BY <2>2
  <2>4. \A c \in Client : sender[c].byte # 0 => sender[c].byte \in Byte
    BY DEF ComInv, ComTypeOK, SenderState
  <2>5. \A g \in Life : logger[g].pc \in {"send", "last"} => logger[g].byte \in Byte
    BY DEF ComInv, LoggerAt
  <2>6. QED
    BY <2>1, <2>3, <2>4, <2>5 DEF ComInv, Logged
<1>1. CASE PowerOn
  BY <1>0, <1>1 DEF PowerOn, portVars, chanVars, clientVars, ComInv, ComTypeOK, LoggerAt, Logged
<1>2. CASE ProcessStart
  BY <1>0, <1>2 DEF ProcessStart, portVars, chanVars, clientVars, ComInv, ComTypeOK, LoggerAt,
     Logged
<1>3. CASE SetupFails
  BY <1>0, <1>3 DEF SetupFails, portVars, chanVars, clientVars, ComInv, ComTypeOK, LoggerAt,
     Logged
<1>4. CASE SetupCom
  BY <1>0, <1>4 DEF SetupCom, portVars, chanVars, clientVars, ComInv, ComTypeOK, LoggerAt, Logged
<1>5. CASE AssignCom
  BY <1>0, <1>5 DEF AssignCom, portVars, chanVars, clientVars, ComInv, ComTypeOK, LoggerAt, Logged
<1>6. CASE ProcessCrashed
  BY <1>0, <1>6 DEF ProcessCrashed, KillCom, portVars, chanVars, clientVars, ComInv, ComTypeOK,
     LoggerAt, Logged
<1>7. CASE DoneKillCom
  BY <1>0, <1>7 DEF DoneKillCom, KillCom, portVars, chanVars, clientVars, ComInv, ComTypeOK,
     LoggerAt, Logged
<1>8. CASE DoneSetStopped
  BY <1>0, <1>8 DEF DoneSetStopped, portVars, chanVars, clientVars, ComInv, ComTypeOK, LoggerAt,
     Logged
<1>9. ASSUME NEW g \in Life, LoggerBegin(g) PROVE Logged'
  <2>0. LoggerBegins(g)
    BY <1>0, <1>9, LoggerBeginDoes DEF ComInv
  <2>1. QED
    BY <1>0, <2>0 DEF LoggerBegins, portVars, chanVars, clientVars, ComInv, ComTypeOK, LoggerAt,
       Logged
<1>10. ASSUME NEW g \in Life, LoggerLoop(g) PROVE Logged'
  BY <1>0, <1>10 DEF LoggerLoop, Log, LoggerGone, LoggerIdle, portVars, chanVars, clientVars,
     ComInv, ComTypeOK, LoggerAt, Logged
<1>11. ASSUME NEW g \in Life, LoggerRead(g) PROVE Logged'
  <2>0. LoggerReads(g)
    BY <1>0, <1>11, LoggerReadDoes DEF ComInv
  <2>1. QED
    BY <1>0, <2>0 DEF LoggerReads, portVars, chanVars, clientVars, ComInv, ComTypeOK, LoggerAt,
       Logged
<1>12. ASSUME NEW g \in Life, LoggerWrite(g) PROVE Logged'
  <2>0. LoggerWrites(g)
    BY <1>12, LoggerWriteDoes DEF ComInv
  <2>1. PICK l \in LoggerState :
          /\ logger' = [logger EXCEPT ![g] = l]
          /\ l.pc \in {"send", "last"} => l.byte = logger[g].byte
          /\ l.pc = "send" => logFile' = logFile \cup {logger[g].byte}
    BY <2>0 DEF LoggerWrites
  <2>2. l = logger'[g]
    BY <2>1 DEF ComInv, ComTypeOK
  <2>3. l.pc \in {"send", "last"} => l.byte \in InLog'
    BY <2>1, <2>2 DEF InLog, LogEnds
  <2>4. queue' = queue /\ sender' = sender
    BY <2>0 DEF LoggerWrites, chanVars, clientVars
  <2>5. QED
    BY <1>0, <2>1, <2>3, <2>4 DEF ComInv, ComTypeOK, Logged
<1>13. ASSUME NEW g \in Life, LoggerSend(g) PROVE Logged'
  <2>0. LoggerSends(g)
    BY <1>0, <1>13, LoggerSendDoes DEF ComInv
  <2>1. ASSUME NEW k \in Life, NEW i \in 1 .. Len(queue[k]') PROVE queue[k]'[i] \in InLog'
    <3>1. CASE queue' = queue
      BY <1>0, <2>1, <3>1 DEF ComInv, ComTypeOK, LoggerAt, Logged
    <3>2. ASSUME NEW j \in Life, queue' = [queue EXCEPT ![j] = Append(@, logger[g].byte)]
          PROVE  queue[k]'[i] \in InLog'
      <4>1. queue[k] \in Seq(Byte) /\ logger[g].byte \in Byte /\ logger[g].byte \in InLog
        BY <2>0 DEF LoggerSends, ComInv, ComTypeOK, LoggerAt, Logged
      <4>2. CASE k = j
        BY <1>0, <2>1, <3>2, <4>1, <4>2 DEF ComInv, ComTypeOK, LoggerAt, Logged
      <4>3. CASE k # j
        BY <1>0, <2>1, <3>2, <4>3 DEF ComInv, ComTypeOK, LoggerAt, Logged
      <4>4. QED
        BY <4>2, <4>3 DEF ComInv, ComTypeOK, LoggerAt, Logged
    <3>3. QED
      BY <1>0, <2>0, <3>1, <3>2 DEF LoggerSends
  <2>2. QED
    BY <1>0, <2>0, <2>1, ZenonT(60)
    DEF LoggerSends, portVars, clientVars, ComInv, ComTypeOK, LoggerAt, Logged
<1>14. ASSUME NEW c \in Client, ComInteractive(c) PROVE Logged'
  BY <1>0, <1>14 DEF ComInteractive, Goes, portVars, chanVars, clientVars, ComInv, ComTypeOK,
     LoggerAt, Logged
<1>15. ASSUME NEW c \in Client, SessionBegin(c) PROVE Logged'
  BY <1>0, <1>15 DEF SessionBegin, Goes, SessionOver, SessionIdle, portVars, chanVars, clientVars,
     ComInv, ComTypeOK, LoggerAt, Logged
<1>16. ASSUME NEW c \in Client, FlushByte(c) PROVE Logged'
  BY <1>0, <1>16 DEF FlushByte, portVars, chanVars, clientVars, ComInv, ComTypeOK, LoggerAt, Logged
<1>17. ASSUME NEW c \in Client, FlushDone(c) PROVE Logged'
  BY <1>0, <1>17 DEF FlushDone, Goes, portVars, chanVars, clientVars, ComInv, ComTypeOK, LoggerAt,
     Logged
<1>18. ASSUME NEW c \in Client, SessionCheck(c) PROVE Logged'
  <2>0. SessionGoesOn(c)
    BY <1>0, <1>18, SessionDoes DEF ComInv
  <2>1. QED
    BY <1>0, <2>0 DEF SessionGoesOn, portVars, chanVars, clientVars, ComInv, ComTypeOK, LoggerAt,
       Logged
<1>19. ASSUME NEW c \in Client, SessionRecv(c) PROVE Logged'
  <2>0. SessionGoesOn(c)
    BY <1>0, <1>19, SessionDoes DEF ComInv
  <2>1. QED
    BY <1>0, <2>0 DEF SessionGoesOn, portVars, chanVars, clientVars, ComInv, ComTypeOK, LoggerAt,
       Logged
<1>20. ASSUME NEW c \in Client, SenderLoop(c) PROVE Logged'
  BY <1>0, <1>20 DEF SenderLoop, Sends, SenderGone, SenderIdle, portVars, chanVars, clientVars,
     ComInv, ComTypeOK, LoggerAt, Logged
<1>21. ASSUME NEW c \in Client, FromDev(c) PROVE Logged'
  <2>0. DevGives(c)
    BY <1>0, <1>21, FromDevDoes DEF ComInv
  <2>1. QED
    BY <1>0, <2>0 DEF DevGives, portVars, chanVars, clientVars, ComInv, ComTypeOK, LoggerAt, Logged
<1>22. ASSUME NEW c \in Client, FromLog(c) PROVE Logged'
  <2>0. LogGives(c)
    BY <1>0, <1>22, FromLogDoes DEF ComInv
  <2>1. PICK k \in Life, s \in SenderState :
          /\ sender' = [sender EXCEPT ![c] = s]
          /\ \/ s.byte = 0 /\ UNCHANGED queue
             \/ /\ queue[k] # << >> /\ s.byte = Head(queue[k])
                /\ queue' = [queue EXCEPT ![k] = Tail(@)]
    BY <2>0 DEF LogGives
  <2>2. queue[k] \in Seq(Byte)
    BY DEF ComInv, ComTypeOK, LoggerAt, Logged
  <2>3. s.byte # 0 => s.byte \in Byte /\ s.byte \in InLog
    BY <1>0, <2>1, <2>2 DEF ComInv, ComTypeOK, LoggerAt, Logged
  <2>4. ASSUME NEW j \in Life, NEW i \in 1 .. Len(queue[j]') PROVE queue[j]'[i] \in InLog'
    <3>1. CASE queue[j]' = queue[j]
      BY <1>0, <2>4, <3>1 DEF ComInv, ComTypeOK, LoggerAt, Logged
    <3>2. CASE j = k /\ queue[k] # << >> /\ queue[j]' = Tail(queue[k])
      BY <1>0, <2>2, <2>4, <3>2 DEF ComInv, ComTypeOK, LoggerAt, Logged
    <3>3. QED
      BY <1>0, <2>1, <3>1, <3>2 DEF ComInv, ComTypeOK, LoggerAt, Logged
  <2>5. QED
    BY <1>0, <2>0, <2>1, <2>3, <2>4 DEF LogGives, portVars, clientVars, ComInv, ComTypeOK, LoggerAt,
       Logged
<1>23. ASSUME NEW c \in Client, Give(c) PROVE Logged'
  <2>0. Gives(c)
    BY <1>0, <1>23, GiveDoes DEF ComInv
  <2>1. QED
    BY <1>0, <2>0 DEF Gives, portVars, chanVars, clientVars, ComInv, ComTypeOK, LoggerAt, Logged
<1>24. CASE UNCHANGED comVars
  BY <1>0, <1>24 DEF comVars, ComInv, ComTypeOK, LoggerAt, Logged
<1>25. QED
  BY <1>0, <1>1, <1>2, <1>3, <1>4, <1>5, <1>6, <1>7, <1>8, <1>9, <1>10, <1>11, <1>12, <1>13, <1>14,
     <1>15, <1>16, <1>17, <1>18, <1>19, <1>20, <1>21, <1>22, <1>23, <1>24 DEF ComNext, ComStep,
     MonitorStep, LoggerStep, ClientStep

LEMMA FlaggedStep ==
  ASSUME ComInv, [ComNext]_comVars
  PROVE  Flagged'
<1>1. CASE PowerOn
  BY <1>1 DEF PowerOn, portVars, chanVars, clientVars, ComInv, ComTypeOK, LoggerAt, Flagged,
     Attached
<1>2. CASE ProcessStart
  BY <1>2 DEF ProcessStart, portVars, chanVars, clientVars, ComInv, ComTypeOK, LoggerAt,
     Flagged, Attached
<1>3. CASE SetupFails
  BY <1>3 DEF SetupFails, portVars, chanVars, clientVars, ComInv, ComTypeOK, LoggerAt,
     Flagged, Attached
<1>4. CASE SetupCom
  BY <1>4 DEF SetupCom, portVars, chanVars, clientVars, ComInv, ComTypeOK, LoggerAt, Flagged,
     Attached
<1>5. CASE AssignCom
  BY <1>5 DEF AssignCom, portVars, chanVars, clientVars, ComInv, ComTypeOK, LoggerAt,
     Flagged, Attached
<1>6. CASE ProcessCrashed
  BY <1>6 DEF ProcessCrashed, KillCom, portVars, chanVars, clientVars, ComInv, ComTypeOK,
     LoggerAt, Flagged, Attached
<1>7. CASE DoneKillCom
  BY <1>7 DEF DoneKillCom, KillCom, portVars, chanVars, clientVars, ComInv, ComTypeOK,
     LoggerAt, Flagged, Attached
<1>8. CASE DoneSetStopped
  BY <1>8 DEF DoneSetStopped, portVars, chanVars, clientVars, ComInv, ComTypeOK, LoggerAt,
     Flagged, Attached
<1>9. ASSUME NEW g \in Life, LoggerBegin(g) PROVE Flagged'
  <2>0. LoggerBegins(g)
    BY <1>9, LoggerBeginDoes DEF ComInv
  <2>1. QED
    BY <2>0 DEF LoggerBegins, portVars, chanVars, clientVars, ComInv, ComTypeOK, LoggerAt,
       Flagged, Attached
<1>10. ASSUME NEW g \in Life, LoggerLoop(g) PROVE Flagged'
  BY <1>10 DEF LoggerLoop, Log, LoggerGone, LoggerIdle, portVars, chanVars, clientVars,
     ComInv, ComTypeOK, LoggerAt, Flagged, Attached
<1>11. ASSUME NEW g \in Life, LoggerRead(g) PROVE Flagged'
  <2>0. LoggerReads(g)
    BY <1>11, LoggerReadDoes DEF ComInv
  <2>1. QED
    BY <2>0 DEF LoggerReads, portVars, chanVars, clientVars, ComInv, ComTypeOK, LoggerAt,
       Flagged, Attached
<1>12. ASSUME NEW g \in Life, LoggerWrite(g) PROVE Flagged'
  <2>0. LoggerWrites(g)
    BY <1>12, LoggerWriteDoes DEF ComInv
  <2>1. QED
    BY <2>0 DEF LoggerWrites, portVars, chanVars, clientVars, ComInv, ComTypeOK, LoggerAt,
       Flagged, Attached
<1>13. ASSUME NEW g \in Life, LoggerSend(g) PROVE Flagged'
  <2>0. LoggerSends(g)
    BY <1>13, LoggerSendDoes DEF ComInv
  <2>1. QED
    BY <2>0 DEF LoggerSends, portVars, chanVars, clientVars, ComInv, ComTypeOK, LoggerAt,
       Flagged, Attached
<1>14. ASSUME NEW c \in Client, ComInteractive(c) PROVE Flagged'
  BY <1>14 DEF ComInteractive, Goes, portVars, chanVars, clientVars, ComInv, ComTypeOK,
     LoggerAt, Flagged, Attached
<1>15. ASSUME NEW c \in Client, SessionBegin(c) PROVE Flagged'
  <2>1. \/ comWrite' = comWrite
        \/ session'[c].pc = "flush"
    BY <1>15 DEF SessionBegin, Goes, ComInv, ComTypeOK
  <2>2. Attached \/ session'[c].pc = "flush" => Attached'
    BY <1>15 DEF SessionBegin, Goes, SessionOver, SessionIdle, ComInv, ComTypeOK, Attached
  <2>3. logger' = logger /\ comPanic' = comPanic
    BY <1>15 DEF SessionBegin
  <2>4. QED
    BY <2>1, <2>2, <2>3 DEF ComInv, Flagged
<1>16. ASSUME NEW c \in Client, FlushByte(c) PROVE Flagged'
  BY <1>16 DEF FlushByte, portVars, chanVars, clientVars, ComInv, ComTypeOK, LoggerAt,
     Flagged, Attached
<1>17. ASSUME NEW c \in Client, FlushDone(c) PROVE Flagged'
  BY <1>17 DEF FlushDone, Goes, portVars, chanVars, clientVars, ComInv, ComTypeOK, LoggerAt,
     Flagged, Attached
<1>18. ASSUME NEW c \in Client, SessionCheck(c) PROVE Flagged'
  <2>0. SessionGoesOn(c)
    BY <1>18, SessionDoes DEF ComInv
  <2>1. QED
    BY <2>0 DEF SessionGoesOn, portVars, chanVars, clientVars, ComInv, ComTypeOK, LoggerAt,
       Flagged, Attached
<1>19. ASSUME NEW c \in Client, SessionRecv(c) PROVE Flagged'
  <2>0. SessionGoesOn(c)
    BY <1>19, SessionDoes DEF ComInv
  <2>1. QED
    BY <2>0 DEF SessionGoesOn, portVars, chanVars, clientVars, ComInv, ComTypeOK, LoggerAt,
       Flagged, Attached
<1>20. ASSUME NEW c \in Client, SenderLoop(c) PROVE Flagged'
  BY <1>20 DEF SenderLoop, Sends, SenderGone, SenderIdle, portVars, chanVars, clientVars,
     ComInv, ComTypeOK, LoggerAt, Flagged, Attached
<1>21. ASSUME NEW c \in Client, FromDev(c) PROVE Flagged'
  <2>0. DevGives(c)
    BY <1>21, FromDevDoes DEF ComInv
  <2>1. QED
    BY <2>0 DEF DevGives, portVars, chanVars, clientVars, ComInv, ComTypeOK, LoggerAt,
       Flagged, Attached
<1>22. ASSUME NEW c \in Client, FromLog(c) PROVE Flagged'
  <2>0. LogGives(c)
    BY <1>22, FromLogDoes DEF ComInv
  <2>1. QED
    BY <2>0 DEF LogGives, portVars, chanVars, clientVars, ComInv, ComTypeOK, LoggerAt,
       Flagged, Attached
<1>23. ASSUME NEW c \in Client, Give(c) PROVE Flagged'
  <2>0. Gives(c)
    BY <1>23, GiveDoes DEF ComInv
  <2>1. QED
    BY <2>0 DEF Gives, portVars, chanVars, clientVars, ComInv, ComTypeOK, LoggerAt, Flagged,
       Attached
<1>24. CASE UNCHANGED comVars
  BY <1>24 DEF comVars, ComInv, ComTypeOK, LoggerAt, Flagged, Attached
<1>25. QED
  BY <1>1, <1>2, <1>3, <1>4, <1>5, <1>6, <1>7, <1>8, <1>9, <1>10, <1>11, <1>12, <1>13, <1>14,
     <1>15, <1>16, <1>17, <1>18, <1>19, <1>20, <1>21, <1>22, <1>23, <1>24 DEF ComNext, ComStep,
     MonitorStep, LoggerStep, ClientStep

-----------------------------------------------------------------------------
LEMMA ComPreserved == ComInv /\ [ComNext]_comVars => ComInv'
<1>. SUFFICES ASSUME ComInv, [ComNext]_comVars PROVE ComInv'
  OBVIOUS
<1>1. QED
  BY ComTypeStep, PortAtStep, LoggerAtStep, SenderAtStep, LoggedStep, FlaggedStep DEF ComInv

LEMMA ComInductive == ComSpec => []ComInv
BY ComInitInv, ComPreserved, PTL DEF ComSpec

\* The port, its channels and its goroutines keep their types; no channel ever holds more
\* than its capacity.
THEOREM PortTyped == ComSpec => []ComTypeOK
<1>1. ComInv => ComTypeOK
  BY DEF ComInv
<1>2. QED
  BY <1>1, ComInductive, PTL

\* The log comes first: for any number of clients that come and go and any number of reboots,
\* what a client of a logged port is about to be given is in the log already, or it is the
\* byte at which the log breaks off because it could not be written.
THEOREM LogComesFirst == ComSpec => []ShownIsLogged
<1>1. ComInv => ShownIsLogged
  BY DEF ComInv, Logged, InLog, ShownIsLogged
<1>2. QED
  BY <1>1, ComInductive, PTL

\* The sender that outlives its client takes one byte at most from the next one.
THEOREM OneByteLost == ComSpec => []LastByteOnly
<1>1. ASSUME ComInv PROVE LastByteOnly
  <2>1. ASSUME NEW c \in Client PROVE lost[c] <= 1
    <3>1. lost[c] \in {0, 1}
      BY <1>1 DEF ComInv, SenderAt
    <3>2. QED
      BY <3>1
  <2>2. QED
    BY <2>1 DEF LastByteOnly
<1>2. QED
  BY <1>1, ComInductive, PTL

\* Without a client that is or was attached, no logger waits for a channel, and the daemon
\* does not die of one that killCom has closed.
THEOREM LoggerAlone == ComSpec => []Unattended
<1>1. ComInv => Unattended
  BY DEF ComInv, Flagged, Attached, Unattended
<1>2. QED
  BY <1>1, ComInductive, PTL

\* No port stays open after its guest, whatever crashes, reboots and ends in between.
THEOREM NoPortLeft == ComSpec => []PortsClosed
<1>1. ASSUME ComInv PROVE PortsClosed
  <2>1. vmStatus = "STOPPED" => isOpen = {}
    <3>1. vmStatus = "STOPPED" => com = 0 /\ isOpen \subseteq {com}
      BY <1>1 DEF ComInv, PortAt
    <3>2. 0 \notin isOpen
      BY <1>1, ComConstants DEF ComInv, ComTypeOK, Life
    <3>3. QED
      BY <3>1, <3>2
  <2>2. QED
    BY <1>1, <2>1 DEF ComInv, PortAt, PortsClosed
<1>2. QED
  BY <1>1, ComInductive, PTL
=============================================================================

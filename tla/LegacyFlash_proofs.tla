-------------------------- MODULE LegacyFlash_proofs --------------------------
(***************************************************************************)
(* No reply of the bootloader is matched with its run, and still what the  *)
(* flasher reports is so: frames are obeyed in order, and a finish is      *)
(* answered once.  For all images, versions, runs and mishaps.             *)
(***************************************************************************)
EXTENDS LegacyFlash, SequenceTheorems, TLAPS

\* What a queue holds, and which command is last in it.
Held(s) == {s[i] : i \in DOMAIN s}
EndsIn(s, c) == s # <<>> /\ s[Len(s)].cmd = c

Messages == [cmd : Commands, fw : Images, ver : Versions]
Replies == [cmd : Commands, ok : BOOLEAN, app : Apps]

\* What the run has been told to put on the board.
Wanted == [fw |-> job.fw, ver |-> job.ver]

-----------------------------------------------------------------------------
(* Queues.                                                                 *)

LEMMA Appended ==
  ASSUME NEW T, NEW s \in Seq(T), NEW x \in T
  PROVE  /\ Append(s, x) \in Seq(T) /\ Append(s, x) # <<>>
         /\ Held(Append(s, x)) = Held(s) \cup {x}
         /\ \A c : EndsIn(Append(s, x), c) <=> x.cmd = c
<1> DEFINE t == Append(s, x)
           n == Len(s)
<1>1. /\ n \in Nat /\ DOMAIN s = 1..n /\ DOMAIN t = 1..(n + 1) /\ Len(t) = n + 1
      /\ t[n + 1] = x /\ (\A i \in 1..n : t[i] = s[i]) /\ t \in Seq(T) /\ t # <<>>
  OBVIOUS
<1> HIDE DEF t, n
<1>2. /\ \A i \in DOMAIN t : i \in DOMAIN s \/ i = n + 1
      /\ \A i \in DOMAIN s : i \in DOMAIN t /\ t[i] = s[i]
      /\ n + 1 \in DOMAIN t
  BY <1>1
<1>3. Held(t) = Held(s) \cup {x}
  BY <1>1, <1>2 DEF Held
<1>4. \A c : EndsIn(t, c) <=> x.cmd = c
  BY <1>1 DEF EndsIn
<1> QED
  BY <1>1, <1>3, <1>4 DEF t

LEMMA Taken ==
  ASSUME NEW T, NEW s \in Seq(T), s # <<>>
  PROVE  /\ Tail(s) \in Seq(T) /\ Head(s) \in Held(s) /\ Head(s) \in T
         /\ Held(s) = Held(Tail(s)) \cup {Head(s)}
         /\ \A c : EndsIn(s, c)
              <=> IF Tail(s) = <<>> THEN Head(s).cmd = c ELSE EndsIn(Tail(s), c)
<1> DEFINE t == Tail(s)
           h == Head(s)
           n == Len(t)
<1>1. /\ n \in Nat /\ DOMAIN t = 1..n /\ DOMAIN s = 1..(n + 1) /\ Len(s) = n + 1
      /\ h = s[1] /\ (\A i \in 1..n : t[i] = s[i + 1]) /\ t \in Seq(T) /\ h \in T
  OBVIOUS
<1>6. t = <<>> <=> n = 0
  <2>1. t \in Seq(T)
    OBVIOUS
  <2> QED
    BY <2>1, EmptySeq
<1> HIDE DEF t, h, n
<1>2. /\ \A i \in DOMAIN t : i + 1 \in DOMAIN s /\ t[i] = s[i + 1]
      /\ \A i \in DOMAIN s : i # 1 => i - 1 \in DOMAIN t /\ t[i - 1] = s[i]
      /\ 1 \in DOMAIN s /\ s[1] = h
  BY <1>1
<1>3. Held(s) \subseteq Held(t) \cup {h}
  BY <1>2 DEF Held
<1>4. Held(t) \subseteq Held(s) /\ h \in Held(s)
  BY <1>2 DEF Held
<1>5. ASSUME NEW c
      PROVE  EndsIn(s, c) <=> IF t = <<>> THEN h.cmd = c ELSE EndsIn(t, c)
  <2>1. CASE n = 0
    BY <1>1, <1>6, <2>1 DEF EndsIn
  <2>2. CASE n # 0
    <3>1. n \in 1..n /\ t[n] = s[n + 1] /\ t # <<>>
      BY <1>1, <1>6, <2>2
    <3> QED
      BY <1>1, <3>1 DEF EndsIn
  <2> QED
    BY <2>1, <2>2
<1> QED
  BY <1>1, <1>3, <1>4, <1>5 DEF t, h

LEMMA Emptied == Held(<<>>) = {} /\ \A c : ~EndsIn(<<>>, c)
<1>1. DOMAIN <<>> = {}
  OBVIOUS
<1> QED
  BY <1>1 DEF Held, EndsIn

LEMMA InHeld ==
  ASSUME NEW T, NEW s \in Seq(T), NEW i \in DOMAIN s
  PROVE  s[i] \in T /\ s[i] \in Held(s)
BY DEF Held

-----------------------------------------------------------------------------
(* The flasher, step by step.                                              *)

LEMMA Order ==
  /\ DOMAIN After = {"erase", "size", "crc", "version", "finish", "verify"}
  /\ After["erase"] = "size" /\ After["size"] = "crc" /\ After["crc"] = "version"
  /\ After["version"] = "data" /\ After["finish"] = "verify" /\ After["verify"] = "jump"
BY DEF After

LEMMA Named == \A s \in Steps : Command(s) \in Commands
BY DEF Command, Commands, Steps

-----------------------------------------------------------------------------
(* What can happen.                                                        *)

\* Between commands nothing has been acknowledged, a run at work has no
\* outcome, and a board that does not run its bootloader has no frames to read.
Shape ==
  /\ step # "data" => written = 0
  /\ step # "idle" => outcome = "none"
  /\ mode # "boot" => toBl = <<>> /\ buf = <<>> /\ meta = Unset

Sound == TypeOK /\ Shape

\* The order of the commands, up to the jump.
Follower(s) == CASE s = "erase" -> "size" [] s = "size" -> "crc" [] s = "crc" -> "version"
              [] s = "version" -> "data" [] s = "finish" -> "verify" [] OTHER -> "jump"

\* A reply takes the run on to t.
Onward(t) ==
  /\ acks # <<>> /\ Head(acks).cmd = Command(step) /\ acks' = Tail(acks)
  /\ Goto(t) /\ UNCHANGED <<calm, board>>
  /\ \/ step \in {"probe", "poll"} /\ t \in {"erase", "info"} /\ written' = written
     \/ step = "info" /\ t = "erase" /\ written' = written
     \/ /\ step \in {"erase", "size", "crc", "version", "finish", "verify"} /\ t = Follower(step)
        /\ Head(acks).ok /\ written' = written
     \/ /\ step = "data" /\ Head(acks).ok
        /\ \/ t = "data" /\ written + 1 < Frames[job.fw] /\ written' = written + 1
           \/ t = "finish" /\ written + 1 = Frames[job.fw] /\ written' = 0

\* A deadline does.
Lapses(t) ==
  /\ Goto(t) /\ acks' \in {acks, <<>>} /\ UNCHANGED <<written, app, buf, meta>>
  /\ \/ step \in {"probe", "poll"} /\ t = "poll"
     \/ step = "info" /\ t = "erase"
  /\ \/ toBl = <<>> /\ acks = <<>> /\ UNCHANGED calm
        /\ mode' = IF step = "probe" THEN Asked ELSE mode
     \/ calm' = FALSE /\ mode' \in {mode, IF step = "probe" THEN Asked ELSE mode}

\* The run is over.
Over(how) ==
  /\ step # "idle" /\ Ends(how) /\ UNCHANGED board
  /\ acks' = acks \/ (acks # <<>> /\ acks' = Tail(acks))
  /\ calm' => calm
  /\ \/ /\ how = "skipped" /\ step = "info"
        /\ acks # <<>> /\ Head(acks).cmd = "info" /\ Installed(Head(acks))
     \/ how = "flashed" /\ step = "jump"
     \/ /\ how = "failed"
        /\ calm' => \/ /\ step \notin {"idle", "probe", "poll", "info"}
                       /\ acks # <<>> /\ Head(acks).cmd = Command(step) /\ ~Head(acks).ok
                    \/ step = "poll" /\ mode = "app"
                    \/ /\ step \notin {"idle", "probe", "poll", "info", "jump"}
                       /\ toBl = <<>> /\ acks = <<>>
     \/ how = "killed" /\ ~calm'

\* The bootloader obeys the first frame.
Obeyed(ok, a) ==
  /\ mode = "boot" /\ toBl # <<>>
  /\ Consumes /\ Reply(ok, a) /\ UNCHANGED mode /\ (calm' => calm)
  /\ Head(toBl).cmd \notin {"erase", "finish"} => app' = app
  /\ Head(toBl).cmd \in {"ping", "size", "crc", "version"} => ok
  /\ Head(toBl).cmd = "info" => (ok <=> app # NoApp) /\ a = app
  /\ Head(toBl).cmd = "jump" => app = NoApp
  /\ Head(toBl).cmd = "erase" => app' = NoApp /\ buf' = <<>> /\ (calm' => ok)
  /\ Head(toBl).cmd = "data" =>
       (calm' => ok) /\ (ok => buf' = Append(buf, Head(toBl).fw)) /\ (~ok => buf' = buf)
  /\ Head(toBl).cmd = "finish" =>
       /\ ok <=> Complete
       /\ app' = IF Complete THEN [fw |-> meta.crc, ver |-> meta.version] ELSE app
  /\ Head(toBl).cmd \notin {"erase", "data"} => buf' = buf
  /\ Head(toBl).cmd \notin {"size", "crc", "version"} => meta' = meta
  /\ Head(toBl).cmd = "size" => meta' = [meta EXCEPT !.size = Frames[Head(toBl).fw]]
  /\ Head(toBl).cmd = "crc" => meta' = [meta EXCEPT !.crc = Head(toBl).fw]
  /\ Head(toBl).cmd = "version" => meta' = [meta EXCEPT !.version = Head(toBl).ver]

\* The board starts its application, or its bootloader.
Restarts ==
  /\ toBl' = <<>> /\ buf' = <<>> /\ meta' = Unset /\ app' = app
  /\ step' = step /\ job' = job /\ written' = written /\ outcome' = outcome
  /\ before' = before /\ (calm' => calm)
  /\ \/ /\ mode = "boot" /\ toBl # <<>> /\ Head(toBl).cmd = "jump" /\ app # NoApp /\ mode' = "app"
        /\ \/ acks' = acks
           \/ acks' = IF step = "idle" THEN <<>>
                      ELSE Append(acks, [cmd |-> "jump", ok |-> TRUE, app |-> app])
     \/ mode = "rebooting" /\ mode' = "boot" /\ acks' = acks
     \/ ~calm' /\ mode' = (IF app = NoApp THEN "boot" ELSE "app") /\ acks' = acks

Idles ==
  /\ UNCHANGED <<step, job, written, outcome, before, calm, toBl, board>>
  /\ \/ acks' = acks
     \/ acks # <<>> /\ Head(acks).cmd # Command(step) /\ acks' = Tail(acks)

LEMMA AcceptIs ==
  ASSUME Sound, Accept
  PROVE  (\E t \in Steps : Onward(t)) \/ Over("skipped") \/ Over("flashed")
<1>1. /\ acks # <<>> /\ step # "idle" /\ Head(acks).cmd = Command(step) /\ acks' = Tail(acks)
      /\ UNCHANGED <<calm, board>> /\ step \in Steps
  BY DEF Accept, Sound, TypeOK
<1>2. CASE step \in {"probe", "poll"}
  <2>1. written' = written /\ Goto(IF job.force THEN "erase" ELSE "info")
    BY <1>2, Order DEF Accept
  <2>2. PICK t \in {"erase", "info"} : Goto(t)
    BY <2>1
  <2> QED
    BY <1>1, <1>2, <2>1, <2>2 DEF Onward, Steps
<1>3. CASE step = "info"
  <2>1. written' = written /\ IF Installed(Head(acks)) THEN Ends("skipped") ELSE Goto("erase")
    BY <1>3, Order DEF Accept, Ends
  <2>2. CASE Installed(Head(acks))
    BY <1>1, <1>3, <2>1, <2>2 DEF Over, Command
  <2>3. CASE ~Installed(Head(acks))
    BY <1>1, <1>3, <2>1, <2>3 DEF Onward, Steps
  <2> QED
    BY <2>2, <2>3
<1>4. CASE step \in {"erase", "size", "crc", "version", "finish", "verify"}
  <2>1. written' = written /\ Head(acks).ok /\ Goto(After[step])
    BY <1>4, Order DEF Accept
  <2>2. After[step] = Follower(step) /\ Follower(step) \in Steps
    BY <1>4, Order DEF Follower, Steps
  <2>3. Onward(Follower(step))
    BY <1>1, <1>4, <2>1, <2>2 DEF Onward
  <2> QED
    BY <2>2, <2>3
<1>5. CASE step = "data"
  <2>1. /\ Head(acks).ok
        /\ IF written + 1 < Frames[job.fw] THEN Goto("data") /\ written' = written + 1
                                           ELSE Goto("finish") /\ written' = 0
    BY <1>5, Order DEF Accept
  <2>2. CASE written + 1 < Frames[job.fw]
    <3>1. Goto("data") /\ written' = written + 1
      BY <2>1, <2>2
    <3>2. Onward("data")
      BY <1>1, <1>5, <2>1, <2>2, <3>1 DEF Onward
    <3> QED
      BY <3>2 DEF Steps
  <2>3. CASE ~(written + 1 < Frames[job.fw])
    <3>1. Goto("finish") /\ written' = 0
      BY <2>1, <2>3
    <3>2. written + 1 = Frames[job.fw]
      <4>1. job.fw \in Images /\ written \in Nat /\ written < Frames[job.fw]
        BY DEF Sound, TypeOK, Jobs
      <4>2. Frames[job.fw] \in Nat
        BY <4>1, FlashConstants
      <4> QED
        BY <4>1, <4>2, <2>3
    <3>3. Onward("finish")
      BY <1>1, <1>5, <2>1, <3>1, <3>2 DEF Onward
    <3> QED
      BY <3>3 DEF Steps
  <2> QED
    BY <2>2, <2>3
<1>6. CASE step = "jump"
  <2>1. Ends("flashed")
    BY <1>6, Order DEF Accept
  <2> QED
    BY <1>1, <1>6, <2>1 DEF Over
<1> QED
  BY <1>1, <1>2, <1>3, <1>4, <1>5, <1>6 DEF Steps

\* No other step than these, whoever takes it.
LEMMA WhatHappens ==
  ASSUME Sound, [Next]_vars
  PROVE  /\ \/ \E j \in Jobs : Start(j)
            \/ \E t \in Steps : Onward(t) \/ Lapses(t)
            \/ \E how \in {"skipped", "flashed", "failed", "killed"} : Over(how)
            \/ \E ok \in BOOLEAN, a \in Apps : Obeyed(ok, a)
            \/ Restarts \/ Idles
         /\ runs' \in 0..MaxRuns /\ faults' \in 0..MaxFaults /\ calm' \in BOOLEAN
<1>1. runs' \in 0..MaxRuns
  <2>1. runs' = runs \/ (runs > 0 /\ runs' = runs - 1)
    BY DEF Next, Flasher, Bootloader, vars, host, board, Start, Accept, Ignore, Refused,
           RemoteEnter, PollAgain, InfoLate, JumpLate, CommandLate, GiveUp, Killed, BlPing,
           BlInfo, BlErase, BlSet, BlData, BlFinish, BlJump, BlStarts, BoardResets, Goto,
           Ends, Consumes
  <2> QED
    BY <2>1, FlashConstants DEF Sound, TypeOK
<1>2. faults' \in 0..MaxFaults /\ calm' \in BOOLEAN
  <2>1. (faults' = faults \/ Mishap) /\ calm' \in {calm, TRUE, FALSE}
    BY DEF Next, Flasher, Bootloader, vars, host, board, Start, Accept, Ignore, Refused,
           RemoteEnter, PollAgain, InfoLate, JumpLate, CommandLate, GiveUp, Killed, BlPing,
           BlInfo, BlErase, BlSet, BlData, BlFinish, BlJump, BlStarts, BoardResets, Late
  <2>2. faults \in 0..MaxFaults /\ calm \in BOOLEAN
    BY DEF Sound, TypeOK
  <2>3. faults' \in 0..MaxFaults
    BY <2>1, <2>2, FlashConstants DEF Mishap
  <2>4. calm' \in BOOLEAN
    BY <2>1, <2>2, Zenon
  <2> QED
    BY <2>3, <2>4
<1> DEFINE Shown == \/ \E j \in Jobs : Start(j)
                    \/ \E t \in Steps : Onward(t) \/ Lapses(t)
                    \/ \E how \in {"skipped", "flashed", "failed", "killed"} : Over(how)
                    \/ \E ok \in BOOLEAN, a \in Apps : Obeyed(ok, a)
                    \/ Restarts \/ Idles
<1> SUFFICES Shown
  BY <1>1, <1>2
<1>3. step \in Steps \cup {"idle"} /\ app \in Apps
  BY DEF Sound, TypeOK
<1>4. CASE \E j \in Jobs : Start(j)
  BY <1>4
<1>5. CASE Accept
  BY <1>5, AcceptIs
<1>6. CASE Ignore
  BY <1>6 DEF Ignore, Idles
<1>7. CASE Refused
  <2>1. Over("failed")
    BY <1>7 DEF Refused, Over
  <2> QED
    BY <2>1
<1>8. CASE RemoteEnter
  <2>1. Lapses("poll")
    BY <1>8 DEF RemoteEnter, Lapses
  <2> QED
    BY <2>1 DEF Steps
<1>9. CASE PollAgain
  <2>1. Lapses("poll")
    BY <1>9 DEF PollAgain, Late, Lapses, board
  <2> QED
    BY <2>1 DEF Steps
<1>10. CASE InfoLate
  <2>1. Lapses("erase")
    BY <1>10 DEF InfoLate, Late, Lapses, board
  <2> QED
    BY <2>1 DEF Steps
<1>11. CASE JumpLate
  <2>1. Over("flashed")
    BY <1>11 DEF JumpLate, Late, Over
  <2> QED
    BY <2>1
<1>12. CASE CommandLate
  <2>1. Over("failed")
    BY <1>12 DEF CommandLate, Late, Over, Steps
  <2> QED
    BY <2>1
<1>13. CASE GiveUp
  <2>1. Over("failed")
    BY <1>13 DEF GiveUp, Over
  <2> QED
    BY <2>1
<1>14. CASE Killed
  <2>1. Over("killed")
    BY <1>14 DEF Killed, Over
  <2> QED
    BY <2>1
<1>15. CASE Bootloader
  <2>1. CASE BlPing
    <3>1. Obeyed(TRUE, app)
      BY <2>1 DEF BlPing, Obeys, Obeyed, board
    <3> QED
      BY <1>3, <3>1
  <2>2. CASE BlInfo
    <3>1. Obeyed(app # NoApp, app)
      BY <2>2 DEF BlInfo, Obeys, Obeyed, board
    <3> QED
      BY <1>3, <3>1
  <2>3. CASE BlErase
    <3>1. Obeyed(TRUE, NoApp) \/ Obeyed(FALSE, NoApp)
      BY <2>3 DEF BlErase, Obeys, Obeyed
    <3> QED
      BY <3>1 DEF Apps
  <2>4. CASE BlSet
    <3>1. Obeyed(TRUE, app)
      BY <2>4 DEF BlSet, Obeys, Obeyed
    <3> QED
      BY <1>3, <3>1
  <2>5. CASE BlData
    <3>1. Obeyed(TRUE, app) \/ Obeyed(FALSE, app)
      BY <2>5 DEF BlData, Obeys, Obeyed
    <3> QED
      BY <1>3, <3>1
  <2>6. CASE BlFinish
    <3>1. Obeyed(Complete, app')
      BY <2>6 DEF BlFinish, Obeys, Obeyed
    <3>2. Complete \in BOOLEAN /\ app' \in Apps
      <4>1. Complete \in BOOLEAN
        BY DEF Complete
      <4>2. meta.crc \in Images \cup {NoApp} /\ meta.version \in Versions \cup {NoApp}
        BY DEF Sound, TypeOK
      <4>3. Complete => meta.crc \in Images /\ meta.version \in Versions
        BY <4>2 DEF Complete
      <4> QED
        BY <1>3, <2>6, <4>1, <4>3 DEF BlFinish, Apps
    <3> QED
      BY <3>1, <3>2
  <2>7. CASE BlJump
    <3>1. CASE app = NoApp
      <4>1. Obeyed(FALSE, app)
        BY <2>7, <3>1 DEF BlJump, Obeys, Obeyed, Consumes, board
      <4> QED
        BY <1>3, <4>1
    <3>2. CASE app # NoApp
      <4>1. Restarts
        BY <2>7, <3>2 DEF BlJump, Obeys, Restarts, Reply, BoardStarts
      <4> QED
        BY <4>1
    <3> QED
      BY <3>1, <3>2
  <2>8. CASE BlStarts
    <3>1. toBl = <<>>
      BY <2>8 DEF BlStarts, Sound, Shape
    <3>2. Restarts
      BY <2>8, <3>1 DEF BlStarts, Restarts, BoardStarts, host
    <3> QED
      BY <3>2
  <2> QED
    BY <1>15, <2>1, <2>2, <2>3, <2>4, <2>5, <2>6, <2>7, <2>8 DEF Bootloader
<1>16. CASE BoardResets
  <2>1. Restarts
    BY <1>16 DEF BoardResets, Restarts, BoardStarts
  <2> QED
    BY <2>1
<1>17. CASE UNCHANGED vars
  BY <1>17 DEF vars, Idles, board
<1>18. Shown
  BY <1>4, <1>5, <1>6, <1>7, <1>8, <1>9, <1>10, <1>11, <1>12, <1>13, <1>14, <1>15, <1>16,
     <1>17 DEF Next, Flasher
<1> QED
  BY <1>1, <1>2, <1>18

-----------------------------------------------------------------------------
(* Types.                                                                  *)

\* A frame is the last on its way, or nobody's.
LEMMA Sent ==
  ASSUME Sound, NEW s \in Steps, NEW j \in Jobs, Send(s, j)
  PROVE  /\ toBl' \in Seq(Messages)
         /\ mode # "boot" => toBl' = <<>>
         /\ mode = "boot" =>
              toBl' = Append(toBl, [cmd |-> Command(s), fw |-> j.fw, ver |-> j.ver])
         /\ [cmd |-> Command(s), fw |-> j.fw, ver |-> j.ver] \in Messages
<1>1. toBl \in Seq(Messages) /\ (mode # "boot" => toBl = <<>>)
  BY DEF Sound, TypeOK, Shape, Messages
<1>2. [cmd |-> Command(s), fw |-> j.fw, ver |-> j.ver] \in Messages
  BY Named DEF Messages, Jobs
<1> QED
  BY <1>1, <1>2 DEF Send

\* A reply ends up in the socket of the run.
LEMMA Answered ==
  ASSUME Sound, NEW ok \in BOOLEAN, NEW a \in Apps, Obeyed(ok, a)
  PROVE  /\ toBl \in Seq(Messages) /\ Head(toBl) \in Messages /\ toBl' \in Seq(Messages)
         /\ acks \in Seq(Replies) /\ acks' \in Seq(Replies)
         /\ [cmd |-> Head(toBl).cmd, ok |-> ok, app |-> a] \in Replies
<1>1. toBl \in Seq(Messages) /\ acks \in Seq(Replies) /\ toBl # <<>> /\ toBl' = Tail(toBl)
  BY DEF Sound, TypeOK, Messages, Replies, Obeyed, Consumes
<1>2. Head(toBl) \in Messages /\ toBl' \in Seq(Messages)
  BY <1>1, Taken
<1>3. [cmd |-> Head(toBl).cmd, ok |-> ok, app |-> a] \in Replies
  BY <1>2 DEF Messages, Replies
<1>4. acks' \in Seq(Replies)
  BY <1>1, <1>3 DEF Obeyed, Reply
<1> QED
  BY <1>1, <1>2, <1>3, <1>4

LEMMA SoundInit == Init => Sound
<1> SUFFICES ASSUME Init PROVE Sound
  OBVIOUS
<1>1. Jobs # {}
  <2>1. PICK i : i \in Images
    BY FlashConstants
  <2>2. [fw |-> i, ver |-> 0, force |-> TRUE] \in Jobs
    BY <2>1, FlashConstants DEF Jobs
  <2> QED
    BY <2>2
<1>2. job \in Jobs
  BY <1>1 DEF Init
<1>3. written \in Nat /\ written < Frames[job.fw]
  <2>1. Frames[job.fw] \in Nat \ {0}
    BY <1>2, FlashConstants DEF Jobs
  <2> QED
    BY <2>1 DEF Init
<1>4. runs \in 0..MaxRuns /\ faults \in 0..MaxFaults
  BY FlashConstants DEF Init
<1>5. Unset \in [size : Nat \cup {NoApp}, crc : Images \cup {NoApp}, version : Versions \cup {NoApp}]
  BY DEF Unset
<1>6. TypeOK
  BY <1>2, <1>3, <1>4, <1>5, EmptySeq DEF Init, TypeOK
<1> QED
  BY <1>6 DEF Init, Sound, Shape

LEMMA SoundKept == Sound /\ [Next]_vars => Sound'
<1> SUFFICES ASSUME Sound, [Next]_vars PROVE Sound'
  OBVIOUS
<1>1. runs' \in 0..MaxRuns /\ faults' \in 0..MaxFaults /\ calm' \in BOOLEAN
  BY WhatHappens
<1> DEFINE Metas == [size : Nat \cup {NoApp}, crc : Images \cup {NoApp},
                     version : Versions \cup {NoApp}]
<1>2. /\ step \in Steps \cup {"idle"} /\ job \in Jobs
      /\ written \in Nat /\ written < Frames[job.fw] /\ (step # "data" => written = 0)
      /\ outcome \in {"none", "flashed", "skipped", "failed", "killed"}
      /\ (step # "idle" => outcome = "none") /\ before \subseteq {"erase", "finish"}
      /\ toBl \in Seq(Messages) /\ acks \in Seq(Replies)
      /\ mode \in {"app", "boot", "rebooting"} /\ app \in Apps
      /\ (mode = "app" => app # NoApp) /\ buf \in Seq(Images) /\ meta \in Metas
      /\ (mode # "boot" => toBl = <<>> /\ buf = <<>> /\ meta = Unset)
  BY DEF Sound, TypeOK, Shape, Messages, Replies
<1>3. Unset \in Metas /\ <<>> \in Seq(Images) /\ <<>> \in Seq(Messages) /\ <<>> \in Seq(Replies)
  BY DEF Unset
<1>4. acks # <<>> => Tail(acks) \in Seq(Replies)
  BY <1>2, Taken
<1> HIDE DEF Metas
<1>5. ASSUME /\ step' \in Steps \cup {"idle"} /\ job' \in Jobs
             /\ written' \in Nat /\ written' < Frames[job'.fw] /\ (step' # "data" => written' = 0)
             /\ outcome' \in {"none", "flashed", "skipped", "failed", "killed"}
             /\ (step' # "idle" => outcome' = "none") /\ before' \subseteq {"erase", "finish"}
             /\ toBl' \in Seq(Messages) /\ acks' \in Seq(Replies)
             /\ mode' \in {"app", "boot", "rebooting"} /\ app' \in Apps
             /\ (mode' = "app" => app' # NoApp) /\ buf' \in Seq(Images) /\ meta' \in Metas
             /\ (mode' # "boot" => toBl' = <<>> /\ buf' = <<>> /\ meta' = Unset)
      PROVE  Sound'
  BY <1>1, <1>5 DEF Sound, TypeOK, Shape, Messages, Replies, Metas
<1>6. \A j \in Jobs : Frames[j.fw] \in Nat \ {0}
  BY FlashConstants DEF Jobs
<1>7. ASSUME NEW j \in Jobs, Start(j)
      PROVE  Sound'
  <2>1. toBl' \in Seq(Messages) /\ (mode # "boot" => toBl' = <<>>)
    BY <1>7, Sent DEF Start, Steps
  <2>2. written' = 0 /\ 0 < Frames[j.fw]
    BY <1>2, <1>6, <1>7 DEF Start
  <2> QED
    BY <1>2, <1>3, <1>5, <1>7, <2>1, <2>2 DEF Start, board, Steps
<1>8. ASSUME NEW t \in Steps, Onward(t)
      PROVE  Sound'
  <2>1. toBl' \in Seq(Messages) /\ (mode # "boot" => toBl' = <<>>)
    BY <1>2, <1>8, Sent DEF Onward, Goto
  <2>2. written' \in Nat /\ written' < Frames[job.fw] /\ (t # "data" => written' = 0)
    BY <1>2, <1>6, <1>8 DEF Onward, Follower
  <2> QED
    BY <1>2, <1>4, <1>5, <1>8, <2>1, <2>2 DEF Onward, Goto, board, Command
<1>9. ASSUME NEW t \in Steps, Lapses(t)
      PROVE  Sound'
  <2>1. toBl' \in Seq(Messages) /\ (mode # "boot" => toBl' = <<>>)
    BY <1>2, <1>9, Sent DEF Lapses, Goto
  <2>2. /\ mode' \in {"app", "boot", "rebooting"} /\ (mode' = "app" => mode = "app")
        /\ (mode' # "boot" => mode # "boot")
    BY <1>2, <1>9 DEF Lapses, Asked
  <2>3. /\ step' = t /\ job' = job /\ written' = written /\ outcome' = outcome
        /\ before' = before /\ app' = app /\ buf' = buf /\ meta' = meta
        /\ acks' \in Seq(Replies) /\ outcome = "none"
    BY <1>2, <1>3, <1>9 DEF Lapses, Goto
  <2>4. written = 0
    BY <1>2, <1>9 DEF Lapses
  <2> QED
    BY <1>2, <1>5, <2>1, <2>2, <2>3, <2>4
<1>10. ASSUME NEW how \in {"skipped", "flashed", "failed", "killed"}, Over(how)
       PROVE  Sound'
  <2>1. /\ step' = "idle" /\ outcome' = how /\ written' = 0 /\ job' = job /\ before' = before
        /\ toBl' = toBl /\ mode' = mode /\ app' = app /\ buf' = buf /\ meta' = meta
    BY <1>10 DEF Over, Ends, board
  <2>2. acks' \in Seq(Replies)
    BY <1>2, <1>4, <1>10 DEF Over
  <2>3. 0 \in Nat /\ 0 < Frames[job.fw]
    BY <1>2, <1>6
  <2> QED
    BY <1>2, <1>5, <2>1, <2>2, <2>3
<1>11. ASSUME NEW ok \in BOOLEAN, NEW a \in Apps, Obeyed(ok, a)
       PROVE  Sound'
  <2>1. /\ toBl' \in Seq(Messages) /\ acks' \in Seq(Replies) /\ Head(toBl) \in Messages
        /\ Frames[Head(toBl).fw] \in Nat /\ Head(toBl).fw \in Images /\ Head(toBl).ver \in Versions
    BY <1>11, Answered, FlashConstants DEF Messages
  <2>2. app' \in Apps
    <3>1. CASE Head(toBl).cmd = "finish" /\ Complete
      <4>1. meta.crc \in Images /\ meta.version \in Versions
        BY <1>2, <3>1 DEF Complete, Metas
      <4> QED
        BY <1>11, <3>1, <4>1 DEF Obeyed, Apps
    <3>2. CASE ~(Head(toBl).cmd = "finish" /\ Complete)
      BY <1>2, <1>11, <3>2 DEF Obeyed, Apps
    <3> QED
      BY <3>1, <3>2
  <2>3. buf' \in Seq(Images)
    <3>1. buf' \in {buf, <<>>, Append(buf, Head(toBl).fw)}
      BY <1>11 DEF Obeyed
    <3>2. Append(buf, Head(toBl).fw) \in Seq(Images)
      BY <1>2, <2>1, AppendProperties
    <3> QED
      BY <1>2, <1>3, <3>1, <3>2
  <2>4. meta' \in Metas
    <3>1. meta' \in {meta, [meta EXCEPT !.size = Frames[Head(toBl).fw]],
                     [meta EXCEPT !.crc = Head(toBl).fw],
                     [meta EXCEPT !.version = Head(toBl).ver]}
      BY <1>11 DEF Obeyed
    <3> QED
      BY <1>2, <2>1, <3>1 DEF Metas
  <2> QED
    BY <1>2, <1>5, <1>11, <2>1, <2>2, <2>3, <2>4 DEF Obeyed, Consumes
<1>12. CASE Restarts
  <2>1. acks' \in Seq(Replies)
    <3>1. [cmd |-> "jump", ok |-> TRUE, app |-> app] \in Replies
      BY <1>2 DEF Replies, Commands, Steps
    <3>2. Append(acks, [cmd |-> "jump", ok |-> TRUE, app |-> app]) \in Seq(Replies)
      BY <1>2, <3>1, AppendProperties
    <3> QED
      BY <1>2, <1>3, <1>12, <3>2 DEF Restarts
  <2> QED
    BY <1>2, <1>3, <1>5, <1>12, <2>1 DEF Restarts
<1>13. CASE Idles
  BY <1>2, <1>4, <1>5, <1>13 DEF Idles, board
<1> QED
  BY <1>7, <1>8, <1>9, <1>10, <1>11, <1>12, <1>13, WhatHappens

\* The variables keep their types.
THEOREM Typing == Spec => []TypeOK
<1>1. Spec => []Sound
  BY SoundInit, SoundKept, PTL DEF Spec
<1> QED
  BY <1>1, PTL DEF Sound

-----------------------------------------------------------------------------
(* Order in a queue.                                                       *)

\* Every message of W is followed by one of R.
Mended(s, W, R) == \A i \in DOMAIN s : s[i] \in W => \E j \in DOMAIN s : i < j /\ s[j] \in R

\* Command c is last, if it is there.
AtEnd(s, c) == \A i \in DOMAIN s : s[i].cmd = c => i = Len(s)

\* No jump follows a ping without a finish between them.
Parted(s) ==
  \A i, k \in DOMAIN s : i < k /\ s[i].cmd = "ping" /\ s[k].cmd = "jump"
                           => \E j \in DOMAIN s : i < j /\ j < k /\ s[j].cmd = "finish"

LEMMA OrderAppended ==
  ASSUME NEW T, NEW s \in Seq(T), NEW x \in T
  PROVE  /\ \A W, R : x \in R /\ x \notin W => Mended(Append(s, x), W, R)
         /\ \A W, R : x \notin W /\ Mended(s, W, R) => Mended(Append(s, x), W, R)
         /\ \A c : (\A m \in Held(s) : m.cmd # c) => AtEnd(Append(s, x), c)
         /\ Parted(s) /\ x.cmd # "jump" => Parted(Append(s, x))
         /\ /\ Parted(s)
            /\ Mended(s, {m \in T : m.cmd = "ping"}, {m \in T : m.cmd = "finish"})
            => Parted(Append(s, x))
<1> DEFINE t == Append(s, x)
           n == Len(s)
<1>1. /\ n \in Nat /\ DOMAIN s = 1..n /\ DOMAIN t = 1..(n + 1) /\ Len(t) = n + 1
      /\ t[n + 1] = x /\ (\A i \in 1..n : t[i] = s[i] /\ s[i] \in T)
  OBVIOUS
<1> HIDE DEF t, n
<1>2. /\ \A i \in DOMAIN t : i \in DOMAIN s \/ i = n + 1
      /\ \A i \in DOMAIN s : i \in DOMAIN t /\ t[i] = s[i] /\ i < n + 1 /\ s[i] \in T
      /\ n + 1 \in DOMAIN t /\ t[n + 1] = x /\ \A i \in DOMAIN t : ~(n + 1 < i)
  BY <1>1
<1>3. ASSUME NEW W, NEW R, x \in R, x \notin W
      PROVE  Mended(t, W, R)
  BY <1>2, <1>3 DEF Mended
<1>4. ASSUME NEW W, NEW R, x \notin W, Mended(s, W, R)
      PROVE  Mended(t, W, R)
  BY <1>2, <1>4 DEF Mended
<1>5. ASSUME NEW c, \A m \in Held(s) : m.cmd # c
      PROVE  AtEnd(t, c)
  BY <1>1, <1>2, <1>5 DEF AtEnd, Held
<1>6. ASSUME Parted(s), x.cmd # "jump"
      PROVE  Parted(t)
  BY <1>2, <1>6 DEF Parted
<1>7. ASSUME Parted(s), Mended(s, {m \in T : m.cmd = "ping"}, {m \in T : m.cmd = "finish"})
      PROVE  Parted(t)
  <2> SUFFICES ASSUME NEW i \in DOMAIN t, NEW k \in DOMAIN t,
                      i < k, t[i].cmd = "ping", t[k].cmd = "jump"
               PROVE  \E j \in DOMAIN t : i < j /\ j < k /\ t[j].cmd = "finish"
    BY DEF Parted
  <2>1. i \in DOMAIN s /\ t[i] = s[i]
    BY <1>2
  <2>2. CASE k \in DOMAIN s
    <3>1. PICK j \in DOMAIN s : i < j /\ j < k /\ s[j].cmd = "finish"
      BY <1>2, <1>7, <2>1, <2>2 DEF Parted
    <3> QED
      BY <1>2, <3>1
  <2>3. CASE k = n + 1
    <3>1. PICK j \in DOMAIN s : i < j /\ s[j].cmd = "finish"
      BY <1>2, <1>7, <2>1 DEF Mended
    <3> QED
      BY <1>2, <2>3, <3>1
  <2> QED
    BY <1>2, <2>2, <2>3
<1> QED
  BY <1>3, <1>4, <1>5, <1>6, <1>7 DEF t

LEMMA OrderTaken ==
  ASSUME NEW T, NEW s \in Seq(T), s # <<>>
  PROVE  /\ \A W, R : Mended(s, W, R) =>
              /\ Mended(Tail(s), W, R)
              /\ Head(s) \in W => \E m \in Held(Tail(s)) : m \in R
         /\ \A c : AtEnd(s, c) =>
              AtEnd(Tail(s), c) /\ (Head(s).cmd = c => Tail(s) = <<>>)
         /\ Parted(s) =>
              /\ Parted(Tail(s))
              /\ Head(s).cmd = "ping" /\ (\A m \in Held(s) : m.cmd # "finish")
                   => \A m \in Held(Tail(s)) : m.cmd # "jump"
<1> DEFINE t == Tail(s)
           h == Head(s)
           n == Len(t)
<1>1. /\ n \in Nat /\ DOMAIN t = 1..n /\ DOMAIN s = 1..(n + 1) /\ Len(s) = n + 1
      /\ h = s[1] /\ (\A i \in 1..n : t[i] = s[i + 1])
  OBVIOUS
<1>2. n = 0 => t = <<>>
  <2>1. t \in Seq(T)
    OBVIOUS
  <2> QED
    BY <2>1, EmptySeq
<1> HIDE DEF t, h, n
<1>3. /\ \A i \in DOMAIN t : i + 1 \in DOMAIN s /\ t[i] = s[i + 1] /\ 1 < i + 1
      /\ \A i \in DOMAIN s : 1 < i => i - 1 \in DOMAIN t /\ t[i - 1] = s[i] /\ (i - 1) + 1 = i
      /\ 1 \in DOMAIN s /\ s[1] = h
      /\ \A i, j \in DOMAIN t : i < j <=> i + 1 < j + 1
      /\ \A i \in DOMAIN t, j \in DOMAIN s : i + 1 < j => 1 < j /\ i < j - 1
      /\ \A i \in DOMAIN t, j \in DOMAIN s : j < i + 1 /\ 1 < j => j - 1 < i
  BY <1>1
<1>4. ASSUME NEW W, NEW R, Mended(s, W, R)
      PROVE  Mended(t, W, R) /\ (h \in W => \E m \in Held(t) : m \in R)
  <2>1. ASSUME NEW i \in DOMAIN t, t[i] \in W
        PROVE  \E j \in DOMAIN t : i < j /\ t[j] \in R
    <3>1. PICK j \in DOMAIN s : i + 1 < j /\ s[j] \in R
      BY <1>3, <1>4, <2>1 DEF Mended
    <3> QED
      BY <1>3, <3>1
  <2>2. ASSUME h \in W
        PROVE  \E m \in Held(t) : m \in R
    <3>1. PICK j \in DOMAIN s : 1 < j /\ s[j] \in R
      BY <1>3, <1>4, <2>2 DEF Mended
    <3> QED
      BY <1>3, <3>1 DEF Held
  <2> QED
    BY <2>1, <2>2 DEF Mended
<1>5. ASSUME NEW c, AtEnd(s, c)
      PROVE  AtEnd(t, c) /\ (h.cmd = c => t = <<>>)
  <2>1. ASSUME NEW i \in DOMAIN t, t[i].cmd = c
        PROVE  i = n
    <3>1. i + 1 = n + 1
      BY <1>1, <1>3, <1>5, <2>1 DEF AtEnd
    <3> QED
      BY <1>1, <3>1
  <2>2. ASSUME h.cmd = c
        PROVE  t = <<>>
    <3>1. n + 1 = 1
      BY <1>1, <1>3, <1>5, <2>2 DEF AtEnd
    <3> QED
      BY <1>1, <1>2, <3>1
  <2> QED
    BY <2>1, <2>2 DEF AtEnd, n
<1>6. ASSUME Parted(s)
      PROVE  /\ Parted(t)
             /\ h.cmd = "ping" /\ (\A m \in Held(s) : m.cmd # "finish")
                  => \A m \in Held(t) : m.cmd # "jump"
  <2>1. ASSUME NEW i \in DOMAIN t, NEW k \in DOMAIN t,
               i < k, t[i].cmd = "ping", t[k].cmd = "jump"
        PROVE  \E j \in DOMAIN t : i < j /\ j < k /\ t[j].cmd = "finish"
    <3>1. PICK j \in DOMAIN s : i + 1 < j /\ j < k + 1 /\ s[j].cmd = "finish"
      BY <1>3, <1>6, <2>1 DEF Parted
    <3>2. 1 < j /\ j - 1 \in DOMAIN t /\ t[j - 1] = s[j] /\ i < j - 1 /\ j - 1 < k
      BY <1>3, <3>1
    <3> QED
      BY <3>1, <3>2
  <2>2. ASSUME h.cmd = "ping", \A m \in Held(s) : m.cmd # "finish",
               NEW k \in DOMAIN t, t[k].cmd = "jump"
        PROVE  FALSE
    <3>1. PICK j \in DOMAIN s : s[j].cmd = "finish"
      BY <1>3, <1>6, <2>2 DEF Parted
    <3> QED
      BY <2>2, <3>1 DEF Held
  <2> QED
    BY <2>1, <2>2 DEF Parted, Held
<1> QED
  BY <1>4, <1>5, <1>6 DEF t, h

LEMMA OrderEmpty ==
  /\ \A W, R : Mended(<<>>, W, R)
  /\ \A c : AtEnd(<<>>, c)
  /\ Parted(<<>>)
<1>1. DOMAIN <<>> = {}
  OBVIOUS
<1> QED
  BY <1>1 DEF Mended, AtEnd, Parted

-----------------------------------------------------------------------------
(* The metadata is that of the run.                                        *)

\* Once the messages of s are read x is in A, if those of R bring it there and
\* those of W take it away.
Carried(x, A, s, W, R) == Mended(s, W, R) /\ (x \in A \/ \E m \in Held(s) : m \in R)

LEMMA CarriedOn ==
  ASSUME NEW T, NEW s \in Seq(T), NEW W, NEW R, NEW A, NEW x
  PROVE  /\ \A m \in T : m \notin W /\ (m \in R \/ Carried(x, A, s, W, R))
                           => Carried(x, A, Append(s, m), W, R)
         /\ x \in A => Carried(x, A, <<>>, W, R)
         /\ \A y : /\ s # <<>> /\ Carried(x, A, s, W, R)
                   /\ Head(s) \in R => y \in A
                   /\ Head(s) \notin W /\ Head(s) \notin R /\ x \in A => y \in A
                   => Carried(y, A, Tail(s), W, R)
<1>1. ASSUME NEW m \in T, m \notin W, m \in R \/ Carried(x, A, s, W, R)
      PROVE  Carried(x, A, Append(s, m), W, R)
  <2>1. Held(Append(s, m)) = Held(s) \cup {m}
    BY Appended
  <2>2. Mended(Append(s, m), W, R)
    BY <1>1, OrderAppended DEF Carried
  <2> QED
    BY <1>1, <2>1, <2>2 DEF Carried
<1>2. x \in A => Carried(x, A, <<>>, W, R)
  BY OrderEmpty DEF Carried
<1>3. ASSUME NEW y, s # <<>>, Carried(x, A, s, W, R), Head(s) \in R => y \in A,
             Head(s) \notin W /\ Head(s) \notin R /\ x \in A => y \in A
      PROVE  Carried(y, A, Tail(s), W, R)
  <2>1. Held(s) = Held(Tail(s)) \cup {Head(s)}
    BY <1>3, Taken
  <2>2. /\ Mended(Tail(s), W, R)
        /\ Head(s) \in W => \E m \in Held(Tail(s)) : m \in R
    BY <1>3, OrderTaken DEF Carried
  <2> QED
    BY <1>3, <2>1, <2>2 DEF Carried
<1> QED
  BY <1>1, <1>2, <1>3

Crcs(fw) == {m \in Messages : m.cmd = "crc" /\ m.fw = fw}
OtherCrcs(fw) == {m \in Messages : m.cmd = "crc" /\ m.fw # fw}
Vers(ver) == {m \in Messages : m.cmd = "version" /\ m.ver = ver}
OtherVers(ver) == {m \in Messages : m.cmd = "version" /\ m.ver # ver}

\* From its own SET_CRC and SET_VERSION on, what the bootloader has of the two
\* is the run's, or will be.
CrcComes == Carried(meta.crc, {NoApp, job.fw}, toBl, OtherCrcs(job.fw), Crcs(job.fw))
VersionComes ==
  Carried(meta.version, {NoApp, job.ver}, toBl, OtherVers(job.ver), Vers(job.ver))
Settled ==
  /\ step \in {"crc", "version", "data", "finish", "verify", "jump"} => CrcComes
  /\ step \in {"version", "data", "finish", "verify", "jump"} => VersionComes

\* A command sent by the run, or dropped, leaves that so.
LEMMA SettledGoto ==
  ASSUME Sound, Settled, NEW t \in Steps, Goto(t), UNCHANGED meta,
         t \in {"crc", "version", "data", "finish", "verify", "jump"}
           => t = "crc" \/ step \in {"crc", "version", "data", "finish", "verify", "jump"},
         t \in {"version", "data", "finish", "verify", "jump"}
           => t = "version" \/ step \in {"version", "data", "finish", "verify", "jump"}
  PROVE  Settled'
<1> DEFINE m == [cmd |-> Command(t), fw |-> job.fw, ver |-> job.ver]
<1>1. /\ step' = t /\ job' = job /\ meta' = meta /\ toBl \in Seq(Messages)
      /\ (mode # "boot" => meta = Unset) /\ job \in Jobs
  BY DEF Goto, Sound, TypeOK, Shape, Messages
<1>2. /\ m \in Messages /\ (mode # "boot" => toBl' = <<>>)
      /\ (mode = "boot" => toBl' = Append(toBl, m))
  BY <1>1, Sent DEF Goto
<1>3. m \notin OtherCrcs(job.fw) /\ m \notin OtherVers(job.ver)
  BY DEF OtherCrcs, OtherVers
<1>4. (t = "crc" => m \in Crcs(job.fw)) /\ (t = "version" => m \in Vers(job.ver))
  BY <1>2 DEF Crcs, Vers, Command
<1> HIDE DEF m
<1>5. ASSUME step' \in {"crc", "version", "data", "finish", "verify", "jump"}
      PROVE  CrcComes'
  <2>1. m \in Crcs(job.fw) \/ CrcComes
    BY <1>1, <1>4, <1>5 DEF Settled
  <2>2. Carried(meta.crc, {NoApp, job.fw}, toBl', OtherCrcs(job.fw), Crcs(job.fw))
    <3>1. CASE mode = "boot"
      <4>1. \A n \in Messages :
              n \notin OtherCrcs(job.fw)
                /\ (n \in Crcs(job.fw)
                    \/ Carried(meta.crc, {NoApp, job.fw}, toBl, OtherCrcs(job.fw), Crcs(job.fw)))
              => Carried(meta.crc, {NoApp, job.fw}, Append(toBl, n), OtherCrcs(job.fw), Crcs(job.fw))
        BY <1>1, CarriedOn
      <4> QED
        BY <1>2, <1>3, <2>1, <3>1, <4>1 DEF CrcComes
    <3>2. CASE mode # "boot"
      <4>1. meta.crc \in {NoApp, job.fw}
        BY <1>1, <3>2 DEF Unset
      <4> QED
        BY <1>1, <1>2, <3>2, <4>1, CarriedOn
    <3> QED
      BY <3>1, <3>2
  <2> QED
    BY <1>1, <2>2 DEF CrcComes
<1>6. ASSUME step' \in {"version", "data", "finish", "verify", "jump"}
      PROVE  VersionComes'
  <2>1. m \in Vers(job.ver) \/ VersionComes
    BY <1>1, <1>4, <1>6 DEF Settled
  <2>2. Carried(meta.version, {NoApp, job.ver}, toBl', OtherVers(job.ver), Vers(job.ver))
    <3>1. CASE mode = "boot"
      <4>1. \A n \in Messages :
              n \notin OtherVers(job.ver)
                /\ (n \in Vers(job.ver)
                    \/ Carried(meta.version, {NoApp, job.ver}, toBl, OtherVers(job.ver), Vers(job.ver)))
              => Carried(meta.version, {NoApp, job.ver}, Append(toBl, n), OtherVers(job.ver), Vers(job.ver))
        BY <1>1, CarriedOn
      <4> QED
        BY <1>2, <1>3, <2>1, <3>1, <4>1 DEF VersionComes
    <3>2. CASE mode # "boot"
      <4>1. meta.version \in {NoApp, job.ver}
        BY <1>1, <3>2 DEF Unset
      <4> QED
        BY <1>1, <1>2, <3>2, <4>1, CarriedOn
    <3> QED
      BY <3>1, <3>2
  <2> QED
    BY <1>1, <2>2 DEF VersionComes
<1> QED
  BY <1>5, <1>6 DEF Settled

LEMMA SettledKept == Sound /\ Settled /\ [Next]_vars => Settled'
<1> SUFFICES ASSUME Sound, Settled, [Next]_vars PROVE Settled'
  OBVIOUS
<1>1. ASSUME NEW j \in Jobs, Start(j)
      PROVE  Settled'
  BY <1>1 DEF Start, Settled
<1>2. ASSUME NEW t \in Steps, Onward(t)
      PROVE  Settled'
  <2>1. Goto(t) /\ UNCHANGED meta
    BY <1>2 DEF Onward, board
  <2>2. /\ t \in {"crc", "version", "data", "finish", "verify", "jump"}
             => t = "crc" \/ step \in {"crc", "version", "data", "finish", "verify", "jump"}
        /\ t \in {"version", "data", "finish", "verify", "jump"}
             => t = "version" \/ step \in {"version", "data", "finish", "verify", "jump"}
    BY <1>2 DEF Onward, Follower
  <2> QED
    BY <2>1, <2>2, SettledGoto
<1>3. ASSUME NEW t \in Steps, Lapses(t)
      PROVE  Settled'
  BY <1>3 DEF Lapses, Goto, Settled
<1>4. ASSUME NEW how, Over(how)
      PROVE  Settled'
  BY <1>4 DEF Over, Ends, Settled
<1>5. ASSUME NEW ok \in BOOLEAN, NEW a \in Apps, Obeyed(ok, a)
      PROVE  Settled'
  <2>1. /\ step' = step /\ job' = job /\ toBl \in Seq(Messages) /\ toBl # <<>>
        /\ toBl' = Tail(toBl) /\ Head(toBl) \in Messages
    BY <1>5, Answered DEF Obeyed, Consumes
  <2>2. meta \in [size : Nat \cup {NoApp}, crc : Images \cup {NoApp},
                  version : Versions \cup {NoApp}]
    BY DEF Sound, TypeOK
  <2>3. ASSUME CrcComes
        PROVE  CrcComes'
    <3>1. meta'.crc = IF Head(toBl).cmd = "crc" THEN Head(toBl).fw ELSE meta.crc
      BY <1>5, <2>2 DEF Obeyed
    <3>2. Carried(meta'.crc, {NoApp, job.fw}, Tail(toBl), OtherCrcs(job.fw), Crcs(job.fw))
      <4>1. /\ Head(toBl) \in Crcs(job.fw) => meta'.crc \in {NoApp, job.fw}
            /\ Head(toBl) \notin OtherCrcs(job.fw) /\ Head(toBl) \notin Crcs(job.fw)
                 /\ meta.crc \in {NoApp, job.fw} => meta'.crc \in {NoApp, job.fw}
        BY <2>1, <3>1 DEF Crcs, OtherCrcs
      <4> QED
        BY <2>1, <2>3, <4>1, CarriedOn DEF CrcComes
    <3> QED
      BY <2>1, <3>2 DEF CrcComes
  <2>4. ASSUME VersionComes
        PROVE  VersionComes'
    <3>1. meta'.version = IF Head(toBl).cmd = "version" THEN Head(toBl).ver ELSE meta.version
      BY <1>5, <2>2 DEF Obeyed
    <3>2. Carried(meta'.version, {NoApp, job.ver}, Tail(toBl), OtherVers(job.ver), Vers(job.ver))
      <4>1. /\ Head(toBl) \in Vers(job.ver) => meta'.version \in {NoApp, job.ver}
            /\ Head(toBl) \notin OtherVers(job.ver) /\ Head(toBl) \notin Vers(job.ver)
                 /\ meta.version \in {NoApp, job.ver} => meta'.version \in {NoApp, job.ver}
        BY <2>1, <3>1 DEF Vers, OtherVers
      <4> QED
        BY <2>1, <2>4, <4>1, CarriedOn DEF VersionComes
    <3> QED
      BY <2>1, <3>2 DEF VersionComes
  <2> QED
    BY <2>1, <2>3, <2>4 DEF Settled
<1>6. CASE Restarts
  <2>1. toBl' = <<>> /\ meta'.crc = NoApp /\ meta'.version = NoApp
    BY <1>6 DEF Restarts, Unset
  <2>2. CrcComes'
    BY <2>1, OrderEmpty DEF CrcComes, Carried
  <2>3. VersionComes'
    BY <2>1, OrderEmpty DEF VersionComes, Carried
  <2> QED
    BY <2>2, <2>3 DEF Settled
<1>7. CASE Idles
  BY <1>7 DEF Idles, board, Settled, CrcComes, VersionComes
<1> QED
  BY <1>1, <1>2, <1>3, <1>4, <1>5, <1>6, <1>7, WhatHappens

-----------------------------------------------------------------------------
(* What a step does to the queues.                                         *)

Without(s, c) == \A m \in Held(s) : m.cmd # c

LEMMA GotoQueues ==
  ASSUME Sound, NEW t \in Steps, Goto(t)
  PROVE  /\ step' = t /\ job' = job /\ outcome' = outcome /\ before' = before
         /\ toBl \in Seq(Messages) /\ toBl' \in Seq(Messages)
         /\ mode # "boot" => toBl' = <<>> /\ toBl = <<>>
         /\ mode = "boot" => EndsIn(toBl', Command(t))
         /\ \A m \in Held(toBl') : m \in Held(toBl) \/ m.cmd = Command(t)
<1> DEFINE m == [cmd |-> Command(t), fw |-> job.fw, ver |-> job.ver]
<1>1. /\ toBl \in Seq(Messages) /\ toBl' \in Seq(Messages) /\ m \in Messages
      /\ (mode # "boot" => toBl' = <<>> /\ toBl = <<>>)
      /\ (mode = "boot" => toBl' = Append(toBl, m))
  BY Sent DEF Goto, Sound, TypeOK, Shape, Messages
<1>2. m.cmd = Command(t)
  OBVIOUS
<1> HIDE DEF m
<1>3. CASE mode = "boot"
  <2>1. /\ Held(Append(toBl, m)) = Held(toBl) \cup {m}
        /\ \A c : EndsIn(Append(toBl, m), c) <=> m.cmd = c
    BY <1>1, Appended
  <2> QED
    BY <1>1, <1>2, <1>3, <2>1 DEF Goto
<1>4. CASE mode # "boot"
  BY <1>1, <1>4, Emptied DEF Goto
<1> QED
  BY <1>3, <1>4

LEMMA AcksTaken ==
  ASSUME Sound, acks # <<>>
  PROVE  /\ acks \in Seq(Replies) /\ Tail(acks) \in Seq(Replies)
         /\ Head(acks) \in Held(acks) /\ Head(acks) \in Replies
         /\ \A r \in Held(Tail(acks)) : r \in Held(acks)
<1>1. acks \in Seq(Replies)
  BY DEF Sound, TypeOK, Replies
<1> QED
  BY <1>1, Taken

LEMMA ObeyedQueues ==
  ASSUME Sound, NEW ok \in BOOLEAN, NEW a \in Apps, Obeyed(ok, a)
  PROVE  /\ step' = step /\ job' = job /\ outcome' = outcome /\ before' = before
         /\ written' = written
         /\ toBl \in Seq(Messages) /\ toBl # <<>> /\ toBl' = Tail(toBl)
         /\ Head(toBl) \in Held(toBl) /\ Head(toBl) \in Messages
         /\ \A m \in Held(toBl') : m \in Held(toBl)
         /\ step # "idle" =>
              acks' = Append(acks, [cmd |-> Head(toBl).cmd, ok |-> ok, app |-> a])
         /\ \A r \in Held(acks') : \/ r \in Held(acks)
                                   \/ r.cmd = Head(toBl).cmd /\ r.ok = ok /\ r.app = a
<1> DEFINE r == [cmd |-> Head(toBl).cmd, ok |-> ok, app |-> a]
<1>1. /\ toBl \in Seq(Messages) /\ toBl # <<>> /\ toBl' = Tail(toBl)
      /\ acks \in Seq(Replies) /\ r \in Replies
      /\ acks' = (IF step = "idle" THEN <<>> ELSE Append(acks, r))
      /\ step' = step /\ job' = job /\ outcome' = outcome /\ before' = before
      /\ written' = written
  BY Answered DEF Obeyed, Consumes, Reply
<1>2. r.cmd = Head(toBl).cmd /\ r.ok = ok /\ r.app = a
  OBVIOUS
<1>3. /\ Head(toBl) \in Held(toBl) /\ Head(toBl) \in Messages
      /\ \A m \in Held(toBl') : m \in Held(toBl)
  BY <1>1, Taken
<1>4. \A q \in Held(acks') : q \in Held(acks) \/ q = r
  <2>1. CASE step = "idle"
    BY <1>1, <2>1, Emptied
  <2>2. CASE step # "idle"
    BY <1>1, <2>2, Appended
  <2> QED
    BY <2>1, <2>2
<1> QED
  BY <1>1, <1>2, <1>3, <1>4

LEMMA RestartQueues ==
  ASSUME Sound, Restarts
  PROVE  /\ step' = step /\ job' = job /\ outcome' = outcome /\ before' = before
         /\ toBl' = <<>> /\ app' = app
         /\ \A r \in Held(acks') : r \in Held(acks) \/ (r.cmd = "jump" /\ r.ok)
         /\ toBl = <<>> => acks' = acks
<1> DEFINE r == [cmd |-> "jump", ok |-> TRUE, app |-> app]
<1>1. /\ acks \in Seq(Replies) /\ r \in Replies /\ r.cmd = "jump" /\ r.ok
  BY DEF Sound, TypeOK, Replies, Commands, Steps
<1>2. acks' \in {acks, <<>>, Append(acks, r)}
  BY DEF Restarts
<1> HIDE DEF r
<1>3. \A q \in Held(acks') : q \in Held(acks) \/ q = r
  <2>1. Held(Append(acks, r)) = Held(acks) \cup {r}
    BY <1>1, Appended
  <2> QED
    BY <1>2, <2>1, Emptied
<1> QED
  BY <1>1, <1>3 DEF Restarts

-----------------------------------------------------------------------------
(* A finish is answered once.                                              *)

Early == {"probe", "poll", "info", "erase", "size", "crc", "version", "data"}

\* Nobody else's finish was on its way when the run started: until its own is
\* sent there is none; then it is the last frame, or its reply the last reply,
\* and an answer of 0 says that the app is the run's; after it only an info and
\* a jump are sent, and answered with 0.
Finishing ==
  "finish" \notin before =>
  /\ step \in Early => Without(toBl, "finish") /\ Without(acks, "finish")
  /\ step = "finish" =>
       \/ EndsIn(toBl, "finish") /\ AtEnd(toBl, "finish") /\ Without(acks, "finish")
       \/ /\ toBl = <<>> /\ AtEnd(acks, "finish")
          /\ \A r \in Held(acks) : r.cmd = "finish" /\ r.ok => app = Wanted
  /\ step \in {"verify", "jump"} => \A r \in Held(acks) : r.ok
  /\ step = "verify" => \A m \in Held(toBl) : m.cmd = "info"
  /\ step \in {"verify", "jump"} \/ outcome = "flashed" =>
       app = Wanted /\ \A m \in Held(toBl) : m.cmd \in {"info", "jump"}

LEMMA EarlyGoto ==
  ASSUME Sound, Finishing, NEW t \in Early, Goto(t), step \in Early,
         \A r \in Held(acks') : r \in Held(acks)
  PROVE  Finishing'
<1>1. t \in Steps /\ Command(t) # "finish" /\ t \notin {"finish", "verify", "jump"}
  BY DEF Early, Steps, Command
<1>2. outcome = "none"
  BY DEF Early, Sound, Shape
<1> QED
  BY <1>1, <1>2, GotoQueues DEF Finishing, Without

LEMMA OnwardFinishing ==
  ASSUME Sound, Finishing, NEW t \in Steps, Onward(t)
  PROVE  Finishing'
<1>1. /\ Goto(t) /\ acks # <<>> /\ acks' = Tail(acks) /\ app' = app
      /\ Head(acks).cmd = Command(step) /\ outcome = "none"
  BY DEF Onward, board, Goto, Sound, Shape, Command
<1>2. /\ acks \in Seq(Replies) /\ Head(acks) \in Held(acks)
      /\ \A r \in Held(acks') : r \in Held(acks)
  BY <1>1, AcksTaken
<1>3. /\ step' = t /\ job' = job /\ outcome' = "none" /\ before' = before
      /\ toBl \in Seq(Messages) /\ toBl' \in Seq(Messages)
      /\ (mode # "boot" => toBl' = <<>> /\ toBl = <<>>)
      /\ (mode = "boot" => EndsIn(toBl', Command(t)))
      /\ \A m \in Held(toBl') : m \in Held(toBl) \/ m.cmd = Command(t)
  BY <1>1, GotoQueues
<1>4. \/ step \in Early /\ t \in Early
      \/ step = "data" /\ t = "finish"
      \/ step = "finish" /\ t = "verify" /\ Head(acks).ok
      \/ step = "verify" /\ t = "jump"
  BY DEF Onward, Early, Follower
<1>5. CASE step \in Early /\ t \in Early
  BY <1>1, <1>2, <1>5, EarlyGoto
<1>6. CASE step = "data" /\ t = "finish"
  <2> SUFFICES ASSUME "finish" \notin before
               PROVE  \/ EndsIn(toBl', "finish") /\ AtEnd(toBl', "finish")
                           /\ Without(acks', "finish")
                      \/ toBl' = <<>> /\ AtEnd(acks', "finish")
                           /\ \A r \in Held(acks') : r.cmd = "finish" /\ r.ok => app' = Wanted'
    BY <1>3, <1>6 DEF Finishing, Early
  <2>1. Without(toBl, "finish") /\ Without(acks', "finish")
    BY <1>2, <1>6 DEF Finishing, Early, Without
  <2>2. CASE mode = "boot"
    <3>1. \E m \in Messages : toBl' = Append(toBl, m)
      BY <1>1, <2>2, Sent DEF Goto, Sound, TypeOK
    <3>2. AtEnd(toBl', "finish")
      BY <1>3, <2>1, <3>1, OrderAppended DEF Without
    <3> QED
      BY <1>3, <1>6, <2>1, <2>2, <3>2 DEF Command
  <2>3. CASE mode # "boot"
    <3>1. AtEnd(acks', "finish")
      BY <2>1 DEF Without, AtEnd, Held
    <3> QED
      BY <1>3, <2>1, <2>3, <3>1 DEF Without
  <2> QED
    BY <2>2, <2>3
<1>7. CASE step = "finish" /\ t = "verify" /\ Head(acks).ok
  <2> SUFFICES ASSUME "finish" \notin before
               PROVE  /\ \A r \in Held(acks') : r.ok
                      /\ \A m \in Held(toBl') : m.cmd = "info"
                      /\ app' = Wanted'
    BY <1>3, <1>7 DEF Finishing, Early
  <2>1. Head(acks).cmd = "finish"
    BY <1>1, <1>7 DEF Command
  <2>2. toBl = <<>> /\ AtEnd(acks, "finish") /\ app = Wanted
    BY <1>2, <1>7, <2>1 DEF Finishing, Without
  <2>3. Tail(acks) = <<>>
    BY <1>1, <1>2, <2>1, <2>2, OrderTaken
  <2>4. Command(t) = "info"
    BY <1>7 DEF Command
  <2> QED
    BY <1>1, <1>3, <2>2, <2>3, <2>4, Emptied DEF Wanted
<1>8. CASE step = "verify" /\ t = "jump"
  <2>1. Command(t) = "jump"
    BY <1>8 DEF Command
  <2> QED
    BY <1>1, <1>2, <1>3, <1>8, <2>1 DEF Finishing, Early, Wanted
<1> QED
  BY <1>4, <1>5, <1>6, <1>7, <1>8

LEMMA StartQueues ==
  ASSUME Sound, NEW j \in Jobs, Start(j)
  PROVE  /\ step' = "probe" /\ outcome' = "none" /\ acks' = <<>> /\ job' = j /\ UNCHANGED board
         /\ toBl \in Seq(Messages) /\ toBl' \in Seq(Messages)
         /\ mode # "boot" => toBl' = <<>>
         /\ mode = "boot" => \E m \in Messages : m.cmd = "ping" /\ toBl' = Append(toBl, m)
         /\ \A m \in Held(toBl') : m \in Held(toBl) \/ m.cmd = "ping"
         /\ \A c \in {"erase", "finish"} : c \notin before' => Without(toBl, c)
<1> DEFINE m == [cmd |-> Command("probe"), fw |-> j.fw, ver |-> j.ver]
<1>1. /\ step' = "probe" /\ outcome' = "none" /\ acks' = <<>> /\ job' = j /\ UNCHANGED board
      /\ Send("probe", j) /\ "probe" \in Steps
      /\ before' = {toBl[i].cmd : i \in DOMAIN toBl} \cap {"erase", "finish"}
  BY DEF Start, Steps
<1>2. /\ toBl \in Seq(Messages) /\ toBl' \in Seq(Messages) /\ m \in Messages
      /\ (mode # "boot" => toBl' = <<>>) /\ (mode = "boot" => toBl' = Append(toBl, m))
  BY <1>1, Sent DEF Sound, TypeOK, Messages
<1>3. m.cmd = "ping"
  BY DEF Command
<1>4. \A c \in {"erase", "finish"} : c \notin before' => Without(toBl, c)
  BY <1>1 DEF Without, Held
<1> HIDE DEF m
<1>5. \A q \in Held(toBl') : q \in Held(toBl) \/ q.cmd = "ping"
  <2>1. Held(Append(toBl, m)) = Held(toBl) \cup {m}
    BY <1>2, Appended
  <2> QED
    BY <1>2, <1>3, <2>1, Emptied
<1> QED
  BY <1>1, <1>2, <1>3, <1>4, <1>5

LEMMA ObeyedFinishing ==
  ASSUME Sound, Settled, Finishing, NEW ok \in BOOLEAN, NEW a \in Apps, Obeyed(ok, a)
  PROVE  Finishing'
<1> DEFINE c == Head(toBl).cmd
           r == [cmd |-> c, ok |-> ok, app |-> a]
<1>1. /\ step' = step /\ job' = job /\ outcome' = outcome /\ before' = before
      /\ toBl \in Seq(Messages) /\ toBl # <<>> /\ toBl' = Tail(toBl)
      /\ Head(toBl) \in Held(toBl) /\ Head(toBl) \in Messages
      /\ (\A m \in Held(toBl') : m \in Held(toBl))
      /\ (step # "idle" => acks' = Append(acks, r))
      /\ \A q \in Held(acks') : q \in Held(acks) \/ (q.cmd = c /\ q.ok = ok /\ q.app = a)
  BY ObeyedQueues
<1>2. /\ acks \in Seq(Replies) /\ r \in Replies
      /\ (c \notin {"erase", "finish"} => app' = app)
      /\ (c = "info" => (ok <=> app # NoApp)) /\ (c = "jump" => app = NoApp)
      /\ c = "finish" =>
           /\ ok <=> Complete
           /\ app' = IF Complete THEN [fw |-> meta.crc, ver |-> meta.version] ELSE app
  BY Answered DEF Obeyed
<1> HIDE DEF c
<1> SUFFICES ASSUME "finish" \notin before
             PROVE  Finishing'
  BY <1>1 DEF Finishing
<1>3. CASE step \in Early
  <2>1. Without(toBl, "finish") /\ Without(acks, "finish") /\ outcome = "none"
    BY <1>3 DEF Finishing, Sound, Shape, Early
  <2>2. Without(toBl', "finish") /\ Without(acks', "finish")
    BY <1>1, <2>1 DEF Without, c
  <2> QED
    BY <1>1, <1>3, <2>1, <2>2 DEF Finishing, Early
<1>4. CASE step = "finish"
  <2>1. EndsIn(toBl, "finish") /\ AtEnd(toBl, "finish") /\ Without(acks, "finish")
    BY <1>1, <1>4 DEF Finishing
  <2>2. outcome = "none"
    BY <1>4 DEF Sound, Shape
  <2> SUFFICES \/ EndsIn(toBl', "finish") /\ AtEnd(toBl', "finish") /\ Without(acks', "finish")
               \/ /\ toBl' = <<>> /\ AtEnd(acks', "finish")
                  /\ \A q \in Held(acks') : q.cmd = "finish" /\ q.ok => app' = Wanted'
    BY <1>1, <1>4, <2>2 DEF Finishing, Early
  <2>3. CASE Tail(toBl) = <<>>
    <3>1. c = "finish"
      BY <1>1, <2>1, <2>3, Taken DEF c
    <3>2. AtEnd(acks', "finish")
      BY <1>1, <1>2, <1>4, <2>1, OrderAppended DEF Without
    <3>3. Held(toBl) = {Head(toBl)}
      BY <1>1, <2>3, Taken, Emptied
    <3>4. Complete => [fw |-> meta.crc, ver |-> meta.version] = Wanted
      <4>1. CrcComes /\ VersionComes
        BY <1>4 DEF Settled
      <4>2. meta.crc \in {NoApp, job.fw} /\ meta.version \in {NoApp, job.ver}
        BY <3>1, <3>3, <4>1 DEF CrcComes, VersionComes, Carried, Crcs, Vers, c
      <4> QED
        BY <4>2 DEF Complete, Wanted
    <3>5. ok => app' = Wanted'
      BY <1>1, <1>2, <3>1, <3>4 DEF Wanted
    <3> QED
      BY <1>1, <2>1, <2>3, <3>2, <3>5 DEF Without
  <2>4. CASE Tail(toBl) # <<>>
    <3>1. EndsIn(toBl', "finish")
      BY <1>1, <2>1, <2>4, Taken
    <3>2. AtEnd(toBl', "finish") /\ c # "finish"
      BY <1>1, <2>1, <2>4, OrderTaken DEF c
    <3> QED
      BY <1>1, <2>1, <3>1, <3>2 DEF Without
  <2> QED
    BY <2>3, <2>4
<1>5. CASE step \in {"verify", "jump"} \/ outcome = "flashed"
  <2>1. app = Wanted /\ \A m \in Held(toBl) : m.cmd \in {"info", "jump"}
    BY <1>5 DEF Finishing
  <2>2. app # NoApp
    <3>1. Wanted \in [fw : Images, ver : Versions]
      BY DEF Wanted, Sound, TypeOK, Jobs
    <3> QED
      BY <2>1, <3>1, FlashConstants
  <2>3. c \in {"info", "jump"} /\ app' = app /\ ok
    BY <1>1, <1>2, <2>1, <2>2 DEF c
  <2>4. step \notin Early /\ step # "finish"
    BY <1>5 DEF Early, Sound, Shape
  <2>5. step \in {"verify", "jump"} => \A q \in Held(acks') : q.ok
    BY <1>1, <2>3 DEF Finishing
  <2>6. step = "verify" => \A m \in Held(toBl') : m.cmd = "info"
    BY <1>1 DEF Finishing
  <2> QED
    BY <1>1, <2>1, <2>3, <2>4, <2>5, <2>6 DEF Finishing, Wanted
<1>6. CASE step = "idle" /\ outcome # "flashed"
  BY <1>1, <1>6 DEF Finishing, Early
<1> QED
  BY <1>3, <1>4, <1>5, <1>6 DEF Sound, TypeOK, Steps, Early

LEMMA FinishingKept == Sound /\ Settled /\ Finishing /\ [Next]_vars => Finishing'
<1> SUFFICES ASSUME Sound, Settled, Finishing, [Next]_vars PROVE Finishing'
  OBVIOUS
<1>1. ASSUME NEW j \in Jobs, Start(j)
      PROVE  Finishing'
  BY <1>1, StartQueues, Emptied DEF Finishing, Early, Without
<1>2. ASSUME NEW t \in Steps, Onward(t)
      PROVE  Finishing'
  BY <1>2, OnwardFinishing
<1>3. ASSUME NEW t \in Steps, Lapses(t)
      PROVE  Finishing'
  <2>1. t \in Early /\ step \in Early /\ Goto(t) /\ acks' \in {acks, <<>>}
    BY <1>3 DEF Lapses, Early
  <2> QED
    BY <2>1, EarlyGoto, Emptied
<1>4. ASSUME NEW how \in {"skipped", "flashed", "failed", "killed"}, Over(how)
      PROVE  Finishing'
  <2>1. /\ step' = "idle" /\ outcome' = how /\ job' = job /\ before' = before
        /\ toBl' = toBl /\ app' = app /\ (how = "flashed" => step = "jump")
    BY <1>4 DEF Over, Ends, board
  <2> QED
    BY <2>1 DEF Finishing, Early, Wanted
<1>5. ASSUME NEW ok \in BOOLEAN, NEW a \in Apps, Obeyed(ok, a)
      PROVE  Finishing'
  BY <1>5, ObeyedFinishing
<1>6. CASE Restarts
  <2>1. /\ step' = step /\ job' = job /\ outcome' = outcome /\ before' = before
        /\ toBl' = <<>> /\ app' = app /\ (toBl = <<>> => acks' = acks)
        /\ \A r \in Held(acks') : r \in Held(acks) \/ (r.cmd = "jump" /\ r.ok)
    BY <1>6, RestartQueues
  <2>2. Held(toBl') = {}
    BY <2>1, Emptied
  <2>3. Without(acks', "finish") => AtEnd(acks', "finish")
    BY DEF Without, AtEnd, Held
  <2> SUFFICES ASSUME "finish" \notin before
               PROVE  Finishing'
    BY <2>1 DEF Finishing
  <2>4. step = "finish" => /\ AtEnd(acks', "finish")
                           /\ \A r \in Held(acks') : r.cmd = "finish" /\ r.ok => app' = Wanted'
    <3>1. CASE Without(acks, "finish")
      BY <2>1, <2>3, <3>1 DEF Without
    <3>2. CASE toBl = <<>>
      <4>1. acks' = acks
        BY <2>1, <3>2
      <4>2. step = "finish" => AtEnd(acks, "finish")
              /\ \A r \in Held(acks) : r.cmd = "finish" /\ r.ok => app = Wanted
        BY <3>2, Emptied DEF Finishing
      <4> QED
        BY <2>1, <4>1, <4>2 DEF Wanted
    <3> QED
      BY <3>1, <3>2 DEF Finishing
  <2>5. step \in Early => Without(acks', "finish")
    BY <2>1 DEF Finishing, Without
  <2>6. step \in {"verify", "jump"} => \A r \in Held(acks') : r.ok
    BY <2>1 DEF Finishing
  <2>7. step \in {"verify", "jump"} \/ outcome = "flashed" => app' = Wanted'
    BY <2>1 DEF Finishing, Wanted
  <2> QED
    BY <2>1, <2>2, <2>4, <2>5, <2>6, <2>7 DEF Finishing, Without
<1>7. CASE Idles
  <2>1. /\ UNCHANGED <<step, job, outcome, before, toBl, app>>
        /\ \/ acks' = acks
           \/ acks # <<>> /\ acks' = Tail(acks)
    BY <1>7 DEF Idles, board
  <2>2. /\ \A r \in Held(acks') : r \in Held(acks)
        /\ AtEnd(acks, "finish") => AtEnd(acks', "finish")
    BY <2>1, AcksTaken, OrderTaken
  <2>3. Wanted' = Wanted
    BY <2>1 DEF Wanted
  <2> QED
    BY <2>1, <2>2, <2>3 DEF Finishing, Without
<1> QED
  BY <1>1, <1>2, <1>3, <1>4, <1>5, <1>6, <1>7, WhatHappens

-----------------------------------------------------------------------------
(* What the board says of its app stays true.                              *)

\* With no erase and no finish on its way, the app is not going to change until
\* the run asks for it.
Asking ==
  before = {} =>
  /\ step \in {"probe", "poll", "info"} \/ outcome = "skipped" =>
       Without(toBl, "erase") /\ Without(toBl, "finish")
  /\ step \in {"probe", "poll", "info"} =>
       \A r \in Held(acks) : r.cmd = "info" /\ r.ok => app # NoApp /\ r.app = app
  /\ outcome = "skipped" => app # NoApp /\ app.ver = job.ver

LEMMA AskingKept == Sound /\ Asking /\ [Next]_vars => Asking'
<1> SUFFICES ASSUME Sound, Asking, [Next]_vars PROVE Asking'
  OBVIOUS
<1> DEFINE First == {"probe", "poll", "info"}
<1>1. step \in First => outcome = "none"
  BY DEF Sound, Shape
<1>2. ASSUME NEW j \in Jobs, Start(j)
      PROVE  Asking'
  BY <1>2, StartQueues, Emptied DEF Asking, Without
<1>3. ASSUME NEW t \in Steps, Goto(t), step \in First, UNCHANGED app,
             \A r \in Held(acks') : r \in Held(acks)
      PROVE  Asking'
  <2>1. t \in First => Command(t) \notin {"erase", "finish"}
    BY DEF Command
  <2> QED
    BY <1>1, <1>3, <2>1, GotoQueues DEF Asking, Without
<1>4. ASSUME NEW t \in Steps, Onward(t)
      PROVE  Asking'
  <2>1. Goto(t) /\ UNCHANGED app /\ acks # <<>> /\ acks' = Tail(acks)
    BY <1>4 DEF Onward, board
  <2>2. CASE step \in First
    BY <1>3, <2>1, <2>2, AcksTaken
  <2>3. CASE step \notin First
    <3>1. step' = t /\ t \notin First /\ outcome' = "none"
      BY <1>4, <2>1, <2>3 DEF Onward, Goto, Follower, Sound, Shape, Command
    <3> QED
      BY <3>1 DEF Asking
  <2> QED
    BY <2>2, <2>3
<1>5. ASSUME NEW t \in Steps, Lapses(t)
      PROVE  Asking'
  <2>1. Goto(t) /\ UNCHANGED app /\ step \in First /\ acks' \in {acks, <<>>}
    BY <1>5 DEF Lapses
  <2> QED
    BY <1>3, <2>1, Emptied
<1>6. ASSUME NEW how \in {"skipped", "flashed", "failed", "killed"}, Over(how)
      PROVE  Asking'
  <2>1. /\ step' = "idle" /\ outcome' = how /\ before' = before
        /\ toBl' = toBl /\ app' = app /\ job' = job
        /\ how = "skipped" => /\ step = "info" /\ acks # <<>> /\ Head(acks).cmd = "info"
                              /\ Head(acks).ok /\ Head(acks).app.ver = job.ver
    BY <1>6 DEF Over, Ends, board, Installed
  <2>2. acks # <<>> => Head(acks) \in Held(acks)
    BY AcksTaken
  <2> QED
    BY <2>1, <2>2 DEF Asking
<1>7. ASSUME NEW ok \in BOOLEAN, NEW a \in Apps, Obeyed(ok, a)
      PROVE  Asking'
  <2>1. /\ step' = step /\ job' = job /\ outcome' = outcome /\ before' = before
        /\ Head(toBl) \in Held(toBl) /\ \A m \in Held(toBl') : m \in Held(toBl)
        /\ \A r \in Held(acks') : \/ r \in Held(acks)
                                  \/ r.cmd = Head(toBl).cmd /\ r.ok = ok /\ r.app = a
    BY <1>7, ObeyedQueues
  <2>2. /\ Head(toBl).cmd \notin {"erase", "finish"} => app' = app
        /\ Head(toBl).cmd = "info" => (ok <=> app # NoApp) /\ a = app
    BY <1>7 DEF Obeyed
  <2> QED
    BY <2>1, <2>2 DEF Asking, Without
<1>8. CASE Restarts
  BY <1>8, RestartQueues, Emptied DEF Asking, Without
<1>9. CASE Idles
  <2>1. /\ UNCHANGED <<step, job, outcome, before, toBl, app>>
        /\ \/ acks' = acks
           \/ acks # <<>> /\ acks' = Tail(acks)
    BY <1>9 DEF Idles, board
  <2>2. \A r \in Held(acks') : r \in Held(acks)
    BY <2>1, AcksTaken
  <2> QED
    BY <2>1, <2>2 DEF Asking, Without
<1> QED
  BY <1>2, <1>4, <1>5, <1>6, <1>7, <1>8, <1>9, WhatHappens

FlasherInv == Sound /\ Settled /\ Finishing /\ Asking

LEMMA FlasherInit == Init => FlasherInv
<1> SUFFICES ASSUME Init PROVE FlasherInv
  OBVIOUS
<1>1. Sound
  BY SoundInit
<1>2. step = "idle" /\ outcome = "none"
  BY DEF Init
<1> QED
  BY <1>1, <1>2 DEF FlasherInv, Settled, Finishing, Asking, Early

\* However late the replies and whatever was killed before.
THEOREM Ordering == Spec => []FlasherInv
<1>1. FlasherInv /\ [Next]_vars => FlasherInv'
  BY SoundKept, SettledKept, FinishingKept, AskingKept DEF FlasherInv
<1> QED
  BY <1>1, FlasherInit, PTL DEF Spec

\* flash.py:386-407: a reported flash is on the board, unless a finish of an
\* earlier run was under way when this one began.
THEOREM Flashing == Spec => []FlashedHoldsImage
<1>1. FlasherInv => FlashedHoldsImage
  BY DEF FlasherInv, Finishing, FlashedHoldsImage, Wanted
<1> QED
  BY <1>1, Ordering, PTL

\* flash.py:362-374: what is skipped is there, unless an erase or a finish of an
\* earlier run was under way when this one began.
THEOREM Skipping == Spec => []SkippedHasVersion
<1>1. FlasherInv => SkippedHasVersion
  BY DEF FlasherInv, Asking, SkippedHasVersion
<1> QED
  BY <1>1, Ordering, PTL

-----------------------------------------------------------------------------
(* A run in which nothing goes wrong.                                      *)

Pings == {m \in Messages : m.cmd = "ping"}
Finishes == {m \in Messages : m.cmd = "finish"}

\* A run that has got to its finish has put it behind every ping under way.
Parting ==
  /\ Parted(toBl)
  /\ step \in {"finish", "verify", "jump"} => Mended(toBl, Pings, Finishes)

Working == {"erase", "size", "crc", "version", "data", "finish"}

\* Which of its commands a run is at, counted from its erase, and the frame of
\* the k-th.
Said(s, w, j) == CASE s = "erase" -> 1 [] s = "size" -> 2 [] s = "crc" -> 3 [] s = "version" -> 4
                   [] s = "data" -> 5 + w [] s = "finish" -> 5 + Frames[j.fw] [] OTHER -> 0
Frame(k, j) == [cmd |-> IF k = 1 THEN "erase" ELSE IF k = 2 THEN "size" ELSE IF k = 3 THEN "crc"
                        ELSE IF k = 4 THEN "version" ELSE IF k <= 4 + Frames[j.fw] THEN "data"
                        ELSE "finish",
                fw |-> j.fw, ver |-> j.ver]

\* The queue ends with the last of the first n of them,
Told(s, n, j) == \A i \in DOMAIN s : n - Len(s) + i >= 1 => s[i] = Frame(n - Len(s) + i, j)

\* and the bootloader has obeyed the first p.
Loaded(p, j) == IF p <= 4 THEN 0 ELSE IF p <= 4 + Frames[j.fw] THEN p - 4 ELSE Frames[j.fw]
Done(p, j, b, m) ==
  /\ p >= 1 => b = [i \in 1..Loaded(p, j) |-> j.fw]
  /\ p >= 2 => m.size = Frames[j.fw]
  /\ p >= 3 => m.crc = j.fw
  /\ p >= 4 => m.version = j.ver

\* The bootloader is there and stays, and the run's last frame or its reply is
\* still under way.
Calmly ==
  /\ calm /\ step = "poll" => mode # "app" /\ \A m \in Held(toBl) : m.cmd = "ping"
  /\ calm => \A r \in Held(acks) : ~r.ok => r.cmd \in {"info", "finish", "jump"}
  /\ calm /\ "finish" \notin before =>
       /\ step \in {"probe", "poll"} /\ (\E r \in Held(acks) : r.cmd = "ping")
            => mode = "boot" /\ Without(toBl, "jump")
       /\ step \in Working \cup {"info", "verify"} => mode = "boot" /\ Without(toBl, "jump")
       /\ step \in Working \cup {"verify"} => \/ EndsIn(toBl, Command(step))
                                              \/ toBl = <<>> /\ EndsIn(acks, Command(step))
       /\ step \in Working => /\ Told(toBl, Said(step, written, job), job)
                              /\ Done(Said(step, written, job) - Len(toBl), job, buf, meta)
       /\ step = "finish" => \A r \in Held(acks) : r.cmd = "finish" => r.ok
       /\ outcome # "failed"

RepairInv == FlasherInv /\ Parting /\ Calmly

LEMMA PartingKept == Sound /\ Parting /\ [Next]_vars => Parting'
<1> SUFFICES ASSUME Sound, Parting, [Next]_vars PROVE Parting'
  OBVIOUS
<1>1. ASSUME NEW j \in Jobs, Start(j)
      PROVE  Parting'
  <2>1. /\ step' = "probe" /\ toBl \in Seq(Messages) /\ (mode # "boot" => toBl' = <<>>)
        /\ mode = "boot" => \E m \in Messages : m.cmd = "ping" /\ toBl' = Append(toBl, m)
    BY <1>1, StartQueues
  <2>2. Parted(toBl')
    <3>1. CASE mode = "boot"
      BY <2>1, <3>1, OrderAppended DEF Parting
    <3>2. CASE mode # "boot"
      BY <2>1, <3>2, OrderEmpty
    <3> QED
      BY <3>1, <3>2
  <2> QED
    BY <2>1, <2>2 DEF Parting
<1>2. ASSUME NEW t \in Steps, Goto(t), t = "verify" => step = "finish", t = "jump" => step = "verify"
      PROVE  Parting'
  <2> DEFINE m == [cmd |-> Command(t), fw |-> job.fw, ver |-> job.ver]
  <2>1. /\ step' = t /\ toBl \in Seq(Messages) /\ m \in Messages
        /\ (mode # "boot" => toBl' = <<>>) /\ (mode = "boot" => toBl' = Append(toBl, m))
    BY <1>2, Sent DEF Goto, Sound, TypeOK, Messages
  <2>2. m.cmd = Command(t)
    OBVIOUS
  <2>3. /\ t = "finish" => m \in Finishes
        /\ t \in {"finish", "verify", "jump"} => m \notin Pings
        /\ t # "jump" => m.cmd # "jump"
    BY <2>1, <2>2 DEF Finishes, Pings, Command, Steps
  <2> HIDE DEF m
  <2>4. CASE mode = "boot"
    <3>1. t \in {"finish", "verify", "jump"} => Mended(toBl', Pings, Finishes)
      <4>1. CASE t = "finish"
        BY <2>1, <2>3, <2>4, <4>1, OrderAppended
      <4>2. CASE t \in {"verify", "jump"}
        <5>1. Mended(toBl, Pings, Finishes) /\ m \notin Pings
          BY <1>2, <2>3, <4>2 DEF Parting
        <5> QED
          BY <2>1, <2>4, <5>1, OrderAppended
      <4> QED
        BY <4>1, <4>2
    <3>2. Parted(toBl')
      <4>1. CASE t = "jump"
        <5>1. Parted(toBl) /\ Mended(toBl, Pings, Finishes)
          BY <1>2, <4>1 DEF Parting
        <5> QED
          BY <2>1, <2>4, <5>1, OrderAppended DEF Pings, Finishes
      <4>2. CASE t # "jump"
        BY <2>1, <2>3, <2>4, <4>2, OrderAppended DEF Parting
      <4> QED
        BY <4>1, <4>2
    <3> QED
      BY <2>1, <3>1, <3>2 DEF Parting
  <2>5. CASE mode # "boot"
    BY <2>1, <2>5, OrderEmpty DEF Parting
  <2> QED
    BY <2>4, <2>5
<1>3. ASSUME NEW t \in Steps, Onward(t)
      PROVE  Parting'
  BY <1>2, <1>3 DEF Onward, Follower
<1>4. ASSUME NEW t \in Steps, Lapses(t)
      PROVE  Parting'
  BY <1>2, <1>4 DEF Lapses
<1>5. ASSUME NEW how, Over(how)
      PROVE  Parting'
  BY <1>5 DEF Over, Ends, Parting
<1>6. ASSUME NEW ok \in BOOLEAN, NEW a \in Apps, Obeyed(ok, a)
      PROVE  Parting'
  <2>1. step' = step /\ toBl \in Seq(Messages) /\ toBl # <<>> /\ toBl' = Tail(toBl)
    BY <1>6, ObeyedQueues
  <2> QED
    BY <2>1, OrderTaken DEF Parting
<1>7. CASE Restarts
  BY <1>7, OrderEmpty DEF Restarts, Parting
<1>8. CASE Idles
  BY <1>8 DEF Idles, Parting
<1> QED
  BY <1>1, <1>3, <1>4, <1>5, <1>6, <1>7, <1>8, WhatHappens

-----------------------------------------------------------------------------
(* The image, frame by frame.                                              *)

LEMMA SaidIsNat ==
  ASSUME NEW s, NEW w \in Nat, NEW j \in Jobs
  PROVE  Said(s, w, j) \in Nat /\ Frames[j.fw] \in Nat \ {0} /\ j.fw \in Images /\ j.ver \in Versions
BY FlashConstants DEF Said, Jobs

LEMMA ToldAppended ==
  ASSUME NEW T, NEW s \in Seq(T), NEW n \in Nat, NEW j, Told(s, n, j)
  PROVE  Told(Append(s, Frame(n + 1, j)), n + 1, j)
<1> DEFINE x == Frame(n + 1, j)
           t == Append(s, x)
           l == Len(s)
<1>1. /\ l \in Nat /\ DOMAIN s = 1..l /\ DOMAIN t = 1..(l + 1) /\ Len(t) = l + 1
      /\ t[l + 1] = x /\ (\A i \in 1..l : t[i] = s[i])
  OBVIOUS
<1>2. Told(s, n, j) => \A i \in 1..l : n - l + i >= 1 => s[i] = Frame(n - l + i, j)
  BY <1>1 DEF Told
<1> HIDE DEF t, l, x
<1>3. ASSUME NEW i \in 1..(l + 1), (n + 1) - (l + 1) + i >= 1
      PROVE  t[i] = Frame((n + 1) - (l + 1) + i, j)
  <2>1. (n + 1) - (l + 1) + i = n - l + i
    BY <1>1
  <2>2. CASE i = l + 1
    <3>1. n - l + i = n + 1
      BY <1>1, <2>2
    <3> QED
      BY <1>1, <2>1, <2>2, <3>1 DEF x
  <2>3. CASE i # l + 1
    <3>1. i \in 1..l
      BY <1>1, <2>3
    <3> QED
      BY <1>1, <1>2, <1>3, <2>1, <3>1
  <2> QED
    BY <2>2, <2>3
<1>4. Told(t, n + 1, j)
  BY <1>1, <1>3 DEF Told
<1> QED
  BY <1>4 DEF t, x

LEMMA ToldTaken ==
  ASSUME NEW T, NEW s \in Seq(T), s # <<>>, NEW n \in Nat, NEW j, Told(s, n, j)
  PROVE  /\ Told(Tail(s), n, j) /\ Len(s) \in Nat /\ Len(Tail(s)) = Len(s) - 1
         /\ n - Len(s) >= 0 => Head(s) = Frame(n - Len(s) + 1, j)
<1> DEFINE t == Tail(s)
           l == Len(t)
           h == Head(s)
<1>1. /\ l \in Nat /\ DOMAIN t = 1..l /\ DOMAIN s = 1..(l + 1) /\ Len(s) = l + 1
      /\ h = s[1] /\ (\A i \in 1..l : t[i] = s[i + 1])
  OBVIOUS
<1>2. \A i \in 1..(l + 1) : n - (l + 1) + i >= 1 => s[i] = Frame(n - (l + 1) + i, j)
  BY <1>1 DEF Told
<1> HIDE DEF t, l, h
<1>3. ASSUME NEW i \in 1..l, n - l + i >= 1
      PROVE  t[i] = Frame(n - l + i, j)
  <2>1. i + 1 \in 1..(l + 1) /\ n - (l + 1) + (i + 1) = n - l + i
    BY <1>1
  <2> QED
    BY <1>1, <1>2, <1>3, <2>1
<1>4. Told(t, n, j)
  BY <1>1, <1>3 DEF Told, l
<1>5. n - (l + 1) >= 0 => h = Frame(n - (l + 1) + 1, j)
  <2>1. 1 \in 1..(l + 1) /\ (n - (l + 1) >= 0 => n - (l + 1) + 1 >= 1)
    BY <1>1
  <2> QED
    BY <1>1, <1>2, <2>1
<1>6. l = (l + 1) - 1
  BY <1>1
<1> QED
  BY <1>1, <1>4, <1>5, <1>6 DEF t, l, h

LEMMA ToldStart ==
  ASSUME NEW T, NEW s \in Seq(T), NEW j
  PROVE  Told(s, 0, j)
<1>1. Len(s) \in Nat /\ DOMAIN s = 1..Len(s)
  OBVIOUS
<1>2. \A i \in 1..Len(s) : ~(0 - Len(s) + i >= 1)
  BY <1>1
<1> QED
  BY <1>1, <1>2 DEF Told

\* The next frame is obeyed.
LEMMA DoneNext ==
  ASSUME NEW j \in Jobs, NEW p \in Nat, p <= 4 + Frames[j.fw],
         NEW b \in Seq(Images), NEW m, NEW b2, NEW m2, Done(p, j, b, m),
         Frame(p + 1, j).cmd = "erase" => b2 = <<>>,
         Frame(p + 1, j).cmd = "data" => b2 = Append(b, j.fw),
         Frame(p + 1, j).cmd \notin {"erase", "data"} => b2 = b,
         m2.size = (IF Frame(p + 1, j).cmd = "size" THEN Frames[j.fw] ELSE m.size),
         m2.crc = (IF Frame(p + 1, j).cmd = "crc" THEN j.fw ELSE m.crc),
         m2.version = (IF Frame(p + 1, j).cmd = "version" THEN j.ver ELSE m.version)
  PROVE  Done(p + 1, j, b2, m2)
<1> DEFINE F == Frames[j.fw]
           c == Frame(p + 1, j).cmd
<1>1. F \in Nat /\ F >= 1 /\ j.fw \in Images
  BY FlashConstants DEF Jobs
<1>2. p + 1 >= 2 => m2.size = F
  <2>1. CASE p + 1 = 2
    BY <2>1 DEF Frame
  <2>2. CASE p + 1 > 2
    <3>1. p >= 2 /\ c # "size"
      BY <2>2 DEF Frame
    <3> QED
      BY <3>1 DEF Done
  <2> QED
    BY <2>1, <2>2
<1>3. p + 1 >= 3 => m2.crc = j.fw
  <2>1. CASE p + 1 = 3
    BY <2>1 DEF Frame
  <2>2. CASE p + 1 > 3
    <3>1. p >= 3 /\ c # "crc"
      BY <2>2 DEF Frame
    <3> QED
      BY <3>1 DEF Done
  <2> QED
    BY <2>1, <2>2
<1>4. p + 1 >= 4 => m2.version = j.ver
  <2>1. CASE p + 1 = 4
    BY <2>1 DEF Frame
  <2>2. CASE p + 1 > 4
    <3>1. p >= 4 /\ c # "version"
      BY <2>2 DEF Frame
    <3> QED
      BY <3>1 DEF Done
  <2> QED
    BY <2>1, <2>2
<1>5. b2 = [i \in 1..Loaded(p + 1, j) |-> j.fw]
  <2>1. CASE p + 1 = 1
    <3>1. b2 = <<>> /\ Loaded(p + 1, j) = 0
      BY <2>1 DEF Frame, Loaded
    <3>2. <<>> = [i \in 1..0 |-> j.fw]
      OBVIOUS
    <3> QED
      BY <3>1, <3>2
  <2>2. CASE p + 1 \in 2..4
    <3>1. b2 = b /\ Loaded(p + 1, j) = 0 /\ Loaded(p, j) = 0 /\ p >= 1
      BY <2>2 DEF Frame, Loaded
    <3> QED
      BY <3>1 DEF Done
  <2>3. CASE p + 1 > 4 /\ p + 1 <= 4 + F
    <3>1. c = "data" /\ p >= 4 /\ Loaded(p, j) \in Nat /\ Loaded(p + 1, j) = Loaded(p, j) + 1
      BY <1>1, <2>3 DEF Frame, Loaded
    <3>2. b = [i \in 1..Loaded(p, j) |-> j.fw] /\ b2 = Append(b, j.fw)
      BY <3>1 DEF Done
    <3> DEFINE k == Loaded(p, j)
    <3>3. Append([i \in 1..k |-> j.fw], j.fw) = [i \in 1..(k + 1) |-> j.fw]
      BY <1>1, <3>1
    <3> QED
      BY <3>1, <3>2, <3>3
  <2>4. CASE p + 1 > 4 + F
    <3>1. p = 4 + F
      BY <1>1, <2>4
    <3>2. c \notin {"erase", "data"} /\ Loaded(p + 1, j) = F /\ Loaded(p, j) = F /\ p >= 1
      BY <1>1, <3>1 DEF Frame, Loaded
    <3> QED
      BY <3>2 DEF Done
  <2> QED
    BY <1>1, <2>1, <2>2, <2>3, <2>4
<1> QED
  BY <1>2, <1>3, <1>4, <1>5 DEF Done

\* Nothing is missing for the finish.
LEMMA DoneIsComplete ==
  ASSUME job \in Jobs, Done(4 + Frames[job.fw], job, buf, meta)
  PROVE  Complete
<1>1. /\ Frames[job.fw] \in Nat \ {0} /\ job.fw \in Images /\ job.ver \in Versions
      /\ job.fw # NoApp /\ job.ver # NoApp
  BY FlashConstants DEF Jobs
<1>2. /\ buf = [i \in 1..Frames[job.fw] |-> job.fw] /\ meta.size = Frames[job.fw]
      /\ meta.crc = job.fw /\ meta.version = job.ver
  BY <1>1 DEF Done, Loaded
<1> QED
  BY <1>1, <1>2 DEF Complete

-----------------------------------------------------------------------------
(* Step by step.                                                           *)

LEMMA OnwardCalmly ==
  ASSUME RepairInv, NEW t \in Steps, Onward(t)
  PROVE  Calmly'
<1>1. Sound /\ Finishing /\ Calmly /\ Goto(t)
  BY DEF RepairInv, FlasherInv, Onward
<1>2. /\ step' = t /\ job' = job /\ outcome' = outcome /\ before' = before
      /\ toBl \in Seq(Messages) /\ toBl' \in Seq(Messages)
      /\ mode # "boot" => toBl' = <<>> /\ toBl = <<>>
      /\ mode = "boot" => EndsIn(toBl', Command(t))
      /\ \A m \in Held(toBl') : m \in Held(toBl) \/ m.cmd = Command(t)
  BY <1>1, GotoQueues
<1>3. /\ calm' = calm /\ mode' = mode /\ buf' = buf /\ meta' = meta /\ acks # <<>>
      /\ acks' = Tail(acks) /\ Head(acks).cmd = Command(step)
  BY DEF Onward, board
<1>4. Head(acks) \in Held(acks) /\ \A r \in Held(acks') : r \in Held(acks)
  BY <1>1, <1>3, AcksTaken
<1>5. \/ step \in {"probe", "poll"} /\ t \in {"erase", "info"}
      \/ step = "info" /\ t = "erase"
      \/ step \in Working /\ t \in (Working \ {"erase"}) \cup {"verify"}
      \/ step = "verify" /\ t = "jump"
  BY DEF Onward, Follower, Working
<1>6. outcome = "none" /\ job \in Jobs /\ written \in Nat /\ written < Frames[job.fw]
  BY <1>1, <1>5 DEF Sound, TypeOK, Shape, Working
<1>7. calm => \A r \in Held(acks') : ~r.ok => r.cmd \in {"info", "finish", "jump"}
  BY <1>1, <1>4 DEF Calmly
<1> SUFFICES ASSUME calm, "finish" \notin before, t # "jump"
             PROVE  /\ t \in Working \cup {"info", "verify"} => mode = "boot" /\ Without(toBl', "jump")
                    /\ t \in Working \cup {"verify"} => EndsIn(toBl', Command(t))
                    /\ t \in Working => /\ Told(toBl', Said(t, written', job), job)
                                        /\ Done(Said(t, written', job) - Len(toBl'), job, buf, meta)
                    /\ t = "finish" => \A r \in Held(acks') : r.cmd = "finish" => r.ok
  BY <1>2, <1>3, <1>5, <1>6, <1>7 DEF Calmly, Working
<1>8. mode = "boot" /\ Without(toBl, "jump")
  <2>1. CASE step \in {"probe", "poll"}
    BY <1>1, <1>3, <1>4, <2>1 DEF Calmly, Command
  <2>2. CASE step \notin {"probe", "poll"}
    BY <1>1, <1>5, <2>2 DEF Calmly
  <2> QED
    BY <2>1, <2>2
<1>9. Without(toBl', "jump")
  <2>1. Command(t) # "jump"
    BY <1>5 DEF Command, Working
  <2> QED
    BY <1>2, <1>8, <2>1 DEF Without
<1>10. ASSUME t \in Working
       PROVE  /\ Told(toBl', Said(t, written', job), job)
              /\ Done(Said(t, written', job) - Len(toBl'), job, buf, meta)
  <2> DEFINE n == IF t = "erase" THEN 0 ELSE Said(step, written, job)
             l == Len(toBl)
             x == Frame(n + 1, job)
  <2>1. n \in Nat /\ l \in Nat /\ Frames[job.fw] \in Nat \ {0}
    BY <1>2, <1>6, SaidIsNat
  <2>2. Said(t, written', job) = n + 1
    <3>1. CASE t \in {"erase", "size", "crc", "version"}
      BY <3>1 DEF Said, Onward, Follower
    <3>2. CASE t = "data"
      <4>1. \/ step = "version" /\ written' = 0
            \/ step = "data" /\ written' = written + 1
        BY <1>1, <3>2 DEF Onward, Follower, Sound, Shape
      <4> QED
        BY <1>6, <3>2, <4>1 DEF Said
    <3>3. CASE t = "finish"
      <4>1. step = "data" /\ written + 1 = Frames[job.fw]
        BY <3>3 DEF Onward, Follower
      <4> QED
        BY <1>6, <2>1, <3>3, <4>1 DEF Said
    <3> QED
      BY <1>10, <3>1, <3>2, <3>3 DEF Working
  <2>3. [cmd |-> Command(t), fw |-> job.fw, ver |-> job.ver] = x
    <3>1. x.cmd = t
      <4>1. CASE t \in {"erase", "size", "crc", "version"}
        BY <2>2, <4>1 DEF Frame, Said
      <4>2. CASE t = "data"
        <5>1. written' \in Nat /\ written' < Frames[job.fw]
          BY <1>6, <2>1, <4>2 DEF Onward, Follower, Sound, Shape
        <5>2. n + 1 = 5 + written'
          BY <2>2, <4>2 DEF Said
        <5> QED
          BY <2>1, <4>2, <5>1, <5>2 DEF Frame
      <4>3. CASE t = "finish"
        <5>1. n + 1 = 5 + Frames[job.fw]
          BY <2>2, <4>3 DEF Said
        <5> QED
          BY <2>1, <4>3, <5>1 DEF Frame
      <4> QED
        BY <1>10, <4>1, <4>2, <4>3 DEF Working
    <3>2. Command(t) = t
      BY <1>10 DEF Command, Working
    <3> QED
      BY <3>1, <3>2 DEF Frame
  <2>4. toBl' = Append(toBl, x)
    BY <1>1, <1>8, <2>3 DEF Goto, Send
  <2>5. Told(toBl, n, job) /\ (t # "erase" => Done(n - l, job, buf, meta))
    <3>1. CASE t = "erase"
      BY <1>2, <3>1, ToldStart
    <3>2. CASE t # "erase"
      BY <1>1, <1>5, <1>10, <3>2 DEF Calmly, Working
    <3> QED
      BY <3>1, <3>2
  <2>6. Len(toBl') = l + 1
    BY <1>2, <2>4
  <2>7. Told(toBl', n + 1, job)
    BY <1>2, <2>1, <2>4, <2>5, ToldAppended
  <2> HIDE DEF x, l
  <2>8. Done((n + 1) - (l + 1), job, buf, meta)
    <3>1. CASE t = "erase"
      <4>1. n = 0 /\ ~((n + 1) - (l + 1) >= 1)
        BY <2>1, <3>1
      <4>2. ~((n + 1) - (l + 1) >= 2) /\ ~((n + 1) - (l + 1) >= 3) /\ ~((n + 1) - (l + 1) >= 4)
        BY <2>1, <3>1
      <4> QED
        BY <4>1, <4>2 DEF Done
    <3>2. CASE t # "erase"
      <4> HIDE DEF n
      <4>1. (n + 1) - (l + 1) = n - l
        BY <2>1
      <4> QED
        BY <2>5, <3>2, <4>1
    <3> QED
      BY <3>1, <3>2
  <2> QED
    BY <2>2, <2>6, <2>7, <2>8
<1>11. t = "finish" => \A r \in Held(acks') : r.cmd = "finish" => r.ok
  <2>1. t = "finish" => step = "data"
    BY DEF Onward, Follower
  <2> QED
    BY <1>1, <1>4, <2>1 DEF Finishing, Early, Without
<1> QED
  BY <1>2, <1>8, <1>9, <1>10, <1>11

LEMMA LapsesCalmly ==
  ASSUME RepairInv, NEW t \in Steps, Lapses(t)
  PROVE  Calmly'
<1>1. Sound /\ Finishing /\ Calmly /\ Goto(t)
  BY DEF RepairInv, FlasherInv, Lapses
<1>2. /\ step' = t /\ job' = job /\ outcome' = outcome /\ before' = before
      /\ toBl \in Seq(Messages) /\ toBl' \in Seq(Messages)
      /\ mode # "boot" => toBl' = <<>> /\ toBl = <<>>
      /\ mode = "boot" => EndsIn(toBl', Command(t))
      /\ \A m \in Held(toBl') : m \in Held(toBl) \/ m.cmd = Command(t)
  BY <1>1, GotoQueues
<1> SUFFICES ASSUME calm'
             PROVE  Calmly'
  BY DEF Calmly
<1>3. /\ toBl = <<>> /\ acks = <<>> /\ acks' = <<>> /\ calm /\ buf' = buf /\ meta' = meta
      /\ written' = written /\ job \in Jobs /\ written \in Nat
      /\ \/ step # "probe" /\ mode' = mode
         \/ step = "probe" /\ mode' = (IF mode = "app" THEN "rebooting" ELSE mode)
  BY <1>1 DEF Lapses, Asked, Sound, TypeOK
<1>4. Held(toBl) = {} /\ Held(acks') = {}
  BY <1>3, Emptied
<1>5. outcome = "none"
  BY <1>1 DEF Lapses, Sound, Shape
<1>6. CASE t = "poll"
  <2>1. mode' # "app" /\ \A m \in Held(toBl') : m.cmd = "ping"
    <3>1. step \in {"probe", "poll"} /\ Command(t) = "ping"
      BY <1>6 DEF Lapses, Command
    <3>2. mode' # "app"
      BY <1>1, <1>3, <3>1 DEF Calmly
    <3> QED
      BY <1>2, <1>4, <3>1, <3>2
  <2> QED
    BY <1>2, <1>3, <1>4, <1>5, <1>6, <2>1 DEF Calmly, Working
<1>7. CASE t = "erase"
  <2>1. step = "info" /\ Command(t) = "erase"
    BY <1>7 DEF Lapses, Command
  <2> SUFFICES ASSUME "finish" \notin before
               PROVE  /\ mode' = "boot" /\ Without(toBl', "jump") /\ EndsIn(toBl', Command(t))
                      /\ Told(toBl', 1, job) /\ Done(1 - Len(toBl'), job, buf, meta)
    BY <1>2, <1>3, <1>4, <1>5, <1>7 DEF Calmly, Said
  <2>2. mode = "boot" /\ mode' = "boot"
    BY <1>1, <1>3, <2>1 DEF Calmly
  <2>3. toBl' = Append(toBl, Frame(0 + 1, job))
    BY <1>1, <1>7, <2>1, <2>2 DEF Goto, Send, Frame
  <2>4. Told(toBl', 0 + 1, job)
    BY <1>2, <2>3, ToldStart, ToldAppended
  <2>5. Len(toBl') = 1
    BY <1>3, <2>3
  <2>6. Done(1 - Len(toBl'), job, buf, meta)
    BY <2>5 DEF Done
  <2>7. 0 + 1 = 1
    OBVIOUS
  <2> QED
    BY <1>2, <1>4, <2>1, <2>2, <2>4, <2>6, <2>7 DEF Without
<1> QED
  BY <1>6, <1>7 DEF Lapses

LEMMA OverCalmly ==
  ASSUME RepairInv, NEW how \in {"skipped", "flashed", "failed", "killed"}, Over(how)
  PROVE  Calmly'
<1>1. Sound /\ Finishing /\ Calmly
  BY DEF RepairInv, FlasherInv
<1>2. /\ step' = "idle" /\ outcome' = how /\ before' = before /\ (calm' => calm)
      /\ \/ acks' = acks
         \/ acks # <<>> /\ acks' = Tail(acks)
  BY DEF Over, Ends
<1>3. \A r \in Held(acks') : r \in Held(acks)
  BY <1>1, <1>2, AcksTaken
<1>4. ASSUME calm', "finish" \notin before, how = "failed"
      PROVE  FALSE
  <2>1. calm
    BY <1>2, <1>4
  <2>2. CASE /\ step \notin {"idle", "probe", "poll", "info"}
             /\ acks # <<>> /\ Head(acks).cmd = Command(step) /\ ~Head(acks).ok
    <3>1. Head(acks) \in Held(acks)
      BY <1>1, <2>2, AcksTaken
    <3>2. Command(step) \in {"info", "finish", "jump"}
      BY <1>1, <2>1, <2>2, <3>1 DEF Calmly
    <3>3. step \in {"finish", "verify", "jump"}
      BY <2>2, <3>2 DEF Command
    <3>4. CASE step = "finish"
      BY <1>1, <1>4, <2>1, <2>2, <3>1, <3>4 DEF Calmly, Command
    <3>5. CASE step \in {"verify", "jump"}
      BY <1>1, <1>4, <2>2, <3>1, <3>5 DEF Finishing
    <3> QED
      BY <3>3, <3>4, <3>5
  <2>3. CASE step = "poll" /\ mode = "app"
    BY <1>1, <2>1, <2>3 DEF Calmly
  <2>4. CASE /\ step \notin {"idle", "probe", "poll", "info", "jump"}
             /\ toBl = <<>> /\ acks = <<>>
    <3>1. step \in Working \cup {"verify"}
      BY <1>1, <2>4 DEF Sound, TypeOK, Steps, Working
    <3> QED
      BY <1>1, <1>4, <2>1, <2>4, <3>1, Emptied DEF Calmly
  <2> QED
    BY <1>4, <2>2, <2>3, <2>4 DEF Over
<1> QED
  BY <1>1, <1>2, <1>3, <1>4 DEF Calmly, Working

LEMMA ObeyedCalmly ==
  ASSUME RepairInv, NEW ok \in BOOLEAN, NEW a \in Apps, Obeyed(ok, a)
  PROVE  Calmly'
<1> DEFINE c == Head(toBl).cmd
           r == [cmd |-> c, ok |-> ok, app |-> a]
           n == Said(step, written, job)
           l == Len(toBl)
<1>1. Sound /\ Finishing /\ Parting /\ Calmly
  BY DEF RepairInv, FlasherInv
<1>2. /\ step' = step /\ job' = job /\ outcome' = outcome /\ before' = before
      /\ written' = written /\ mode = "boot" /\ mode' = mode /\ (calm' => calm)
      /\ toBl \in Seq(Messages) /\ toBl # <<>> /\ toBl' = Tail(toBl)
      /\ Head(toBl) \in Held(toBl) /\ Head(toBl) \in Messages
      /\ (\A m \in Held(toBl') : m \in Held(toBl))
      /\ (step # "idle" => acks' = Append(acks, r))
      /\ \A q \in Held(acks') : q \in Held(acks) \/ (q.cmd = c /\ q.ok = ok /\ q.app = a)
  BY <1>1, ObeyedQueues DEF Obeyed
<1>3. /\ acks \in Seq(Replies) /\ r \in Replies /\ c \in Commands
      /\ job \in Jobs /\ written \in Nat /\ written < Frames[job.fw]
      /\ buf \in Seq(Images)
      /\ meta \in [size : Nat \cup {NoApp}, crc : Images \cup {NoApp},
                   version : Versions \cup {NoApp}]
  BY <1>1, <1>2, Answered DEF Sound, TypeOK, Messages
<1>4. calm' /\ ~ok => c \in {"info", "finish", "jump"}
  BY <1>3 DEF Obeyed, Commands, Steps
<1>5. calm' => \A q \in Held(acks') : ~q.ok => q.cmd \in {"info", "finish", "jump"}
  BY <1>1, <1>2, <1>4 DEF Calmly
<1>6. calm' /\ step = "poll" => mode' # "app" /\ \A m \in Held(toBl') : m.cmd = "ping"
  BY <1>1, <1>2 DEF Calmly
<1> SUFFICES ASSUME calm', calm, "finish" \notin before
             PROVE  /\ step \in {"probe", "poll"} /\ (\E q \in Held(acks') : q.cmd = "ping")
                         => Without(toBl', "jump")
                    /\ step \in Working \cup {"info", "verify"} => Without(toBl', "jump")
                    /\ step \in Working \cup {"verify"} =>
                         \/ EndsIn(toBl', Command(step))
                         \/ toBl' = <<>> /\ EndsIn(acks', Command(step))
                    /\ step \in Working => Told(toBl', n, job) /\ Done(n - Len(toBl'), job, buf', meta')
                    /\ step = "finish" => \A q \in Held(acks') : q.cmd = "finish" => q.ok
                    /\ outcome # "failed"
  BY <1>2, <1>5, <1>6 DEF Calmly
<1> HIDE DEF n
<1>7. step \in {"probe", "poll"} /\ (\E q \in Held(acks') : q.cmd = "ping") => Without(toBl', "jump")
  <2> SUFFICES ASSUME step \in {"probe", "poll"}, NEW q \in Held(acks'), q.cmd = "ping"
               PROVE  Without(toBl', "jump")
    OBVIOUS
  <2>1. CASE q \in Held(acks)
    BY <1>1, <1>2, <2>1 DEF Calmly, Without
  <2>2. CASE c = "ping"
    <3>1. \A m \in Held(toBl) : m.cmd # "finish"
      BY <1>1 DEF Finishing, Early, Without
    <3> QED
      BY <1>1, <1>2, <2>2, <3>1, OrderTaken DEF Parting, Without
  <2> QED
    BY <1>2, <2>1, <2>2
<1>8. step \in Working \cup {"info", "verify"} => Without(toBl', "jump")
  BY <1>1, <1>2 DEF Calmly, Without
<1>9. step \in Working \cup {"verify"} => \/ EndsIn(toBl', Command(step))
                                          \/ toBl' = <<>> /\ EndsIn(acks', Command(step))
  <2> SUFFICES ASSUME step \in Working \cup {"verify"}
               PROVE  \/ EndsIn(toBl', Command(step))
                      \/ toBl' = <<>> /\ EndsIn(acks', Command(step))
    OBVIOUS
  <2>1. EndsIn(toBl, Command(step))
    BY <1>1, <1>2 DEF Calmly
  <2>2. CASE Tail(toBl) = <<>>
    <3>1. c = Command(step)
      BY <1>2, <2>1, <2>2, Taken
    <3>2. acks' = Append(acks, r) /\ r.cmd = c
      BY <1>2 DEF Working
    <3>3. EndsIn(acks', Command(step))
      BY <1>3, <3>1, <3>2, Appended
    <3> QED
      BY <1>2, <2>2, <3>3
  <2>3. CASE Tail(toBl) # <<>>
    BY <1>2, <2>1, <2>3, Taken
  <2> QED
    BY <2>2, <2>3
<1>10. ASSUME step \in Working
       PROVE  /\ Told(toBl', n, job) /\ Done(n - Len(toBl'), job, buf', meta')
              /\ step = "finish" /\ Tail(toBl) = <<>> /\ c = "finish" => Complete
  <2>1. /\ n \in Nat /\ Frames[job.fw] \in Nat \ {0} /\ n <= 5 + Frames[job.fw]
        /\ (step = "finish" => n = 5 + Frames[job.fw])
    <3>1. n \in Nat /\ Frames[job.fw] \in Nat \ {0}
      BY <1>3, SaidIsNat DEF n
    <3>2. \/ n \in 1..4 /\ step # "finish"
          \/ n = 5 + written /\ step # "finish"
          \/ n = 5 + Frames[job.fw]
      BY <1>10 DEF n, Said, Working
    <3> QED
      BY <1>3, <3>1, <3>2
  <2>2. Told(toBl, n, job) /\ Done(n - l, job, buf, meta)
    BY <1>1, <1>10 DEF Calmly, n
  <2>3. /\ Told(toBl', n, job) /\ l \in Nat /\ Len(toBl') = l - 1
        /\ n - l >= 0 => Head(toBl) = Frame(n - l + 1, job)
    BY <1>2, <2>1, <2>2, ToldTaken
  <2>4. l >= 1
    BY <1>2, EmptySeq
  <2> DEFINE p == n - l
  <2> HIDE DEF l
  <2>5. n - (l - 1) = p + 1 /\ p \in Int /\ p <= 4 + Frames[job.fw]
    BY <2>1, <2>3, <2>4
  <2>6. Done(p + 1, job, buf', meta')
    <3>1. CASE p < 0
      <4>1. ~(p + 1 >= 1) /\ ~(p + 1 >= 2) /\ ~(p + 1 >= 3) /\ ~(p + 1 >= 4)
        BY <2>5, <3>1
      <4> QED
        BY <4>1 DEF Done
    <3>2. CASE p >= 0
      <4>1. p \in Nat /\ Head(toBl) = Frame(p + 1, job) /\ Done(p, job, buf, meta)
        BY <2>2, <2>3, <2>5, <3>2
      <4>2. Head(toBl).fw = job.fw /\ Head(toBl).ver = job.ver /\ Frame(p + 1, job).cmd = c
        BY <4>1 DEF Frame
      <4>3. /\ c = "erase" => buf' = <<>>
            /\ c = "data" => buf' = Append(buf, job.fw)
            /\ c \notin {"erase", "data"} => buf' = buf
        BY <4>2, <1>4 DEF Obeyed
      <4>4. /\ meta'.size = (IF c = "size" THEN Frames[job.fw] ELSE meta.size)
            /\ meta'.crc = (IF c = "crc" THEN job.fw ELSE meta.crc)
            /\ meta'.version = (IF c = "version" THEN job.ver ELSE meta.version)
        BY <1>3, <4>2 DEF Obeyed
      <4> HIDE DEF p, c
      <4> QED
        BY <1>3, <2>5, <4>1, <4>2, <4>3, <4>4, DoneNext
    <3> QED
      BY <2>5, <3>1, <3>2
  <2>7. step = "finish" /\ Tail(toBl) = <<>> /\ c = "finish" => Complete
    <3> SUFFICES ASSUME step = "finish", Tail(toBl) = <<>>
                 PROVE  Complete
      OBVIOUS
    <3>1. l - 1 = 0
      BY <1>2, <2>3
    <3>2. p = 4 + Frames[job.fw]
      BY <2>1, <2>3, <3>1
    <3>3. Done(4 + Frames[job.fw], job, buf, meta)
      BY <2>2, <3>2
    <3> QED
      BY <1>3, <3>3, DoneIsComplete
  <2>8. n - Len(toBl') = p + 1
    BY <2>3, <2>5
  <2> QED
    BY <2>3, <2>6, <2>7, <2>8
<1>11. step = "finish" => \A q \in Held(acks') : q.cmd = "finish" => q.ok
  <2> SUFFICES ASSUME step = "finish", NEW q \in Held(acks'), q.cmd = "finish"
               PROVE  q.ok
    OBVIOUS
  <2>1. CASE q \in Held(acks)
    BY <1>1, <2>1 DEF Calmly
  <2>2. CASE c = "finish" /\ q.ok = ok
    <3>1. AtEnd(toBl, "finish")
      BY <1>1, <1>2 DEF Finishing
    <3>2. Tail(toBl) = <<>>
      BY <1>2, <2>2, <3>1, OrderTaken
    <3>3. Complete
      BY <1>10, <2>2, <3>2 DEF Working
    <3> QED
      BY <2>2, <3>3 DEF Obeyed
  <2> QED
    BY <1>2, <2>1, <2>2
<1>12. outcome # "failed"
  BY <1>1 DEF Calmly
<1> QED
  BY <1>7, <1>8, <1>9, <1>10, <1>11, <1>12

LEMMA CalmlyKept == RepairInv /\ [Next]_vars => Calmly'
<1> SUFFICES ASSUME RepairInv, [Next]_vars PROVE Calmly'
  OBVIOUS
<1>1. Sound /\ Finishing /\ Calmly
  BY DEF RepairInv, FlasherInv
<1>2. ASSUME NEW j \in Jobs, Start(j)
      PROVE  Calmly'
  BY <1>1, <1>2, StartQueues, Emptied DEF Calmly, Working
<1>3. ASSUME NEW t \in Steps, Onward(t) \/ Lapses(t)
      PROVE  Calmly'
  BY <1>3, OnwardCalmly, LapsesCalmly
<1>4. ASSUME NEW how \in {"skipped", "flashed", "failed", "killed"}, Over(how)
      PROVE  Calmly'
  BY <1>4, OverCalmly
<1>5. ASSUME NEW ok \in BOOLEAN, NEW a \in Apps, Obeyed(ok, a)
      PROVE  Calmly'
  BY <1>5, ObeyedCalmly
<1>6. CASE Restarts
  <2> SUFFICES ASSUME calm'
               PROVE  Calmly'
    BY DEF Calmly
  <2>1. /\ step' = step /\ job' = job /\ outcome' = outcome /\ before' = before /\ calm
        /\ toBl' = <<>> /\ Held(toBl') = {}
        /\ \A r \in Held(acks') : r \in Held(acks) \/ (r.cmd = "jump" /\ r.ok)
    BY <1>1, <1>6, RestartQueues, Emptied DEF Restarts
  <2>2. \/ mode = "rebooting" /\ mode' = "boot"
        \/ /\ mode = "boot" /\ mode' = "app" /\ toBl # <<>> /\ Head(toBl).cmd = "jump"
           /\ Head(toBl) \in Held(toBl)
    <3>1. toBl # <<>> => Head(toBl) \in Held(toBl)
      BY <1>1, Taken DEF Sound, TypeOK
    <3> QED
      BY <1>6, <3>1 DEF Restarts
  <2>3. ~("finish" \notin before /\ step \in Working \cup {"info", "verify"})
    BY <1>1, <2>1, <2>2 DEF Calmly, Without
  <2>4. "finish" \notin before /\ step \in {"probe", "poll"} => ~(\E r \in Held(acks) : r.cmd = "ping")
    BY <1>1, <2>1, <2>2 DEF Calmly, Without
  <2>5. step = "poll" => mode' # "app"
    BY <1>1, <2>1, <2>2 DEF Calmly
  <2>6. \A r \in Held(acks') : ~r.ok => r.cmd \in {"info", "finish", "jump"}
    BY <1>1, <2>1 DEF Calmly
  <2>7. "finish" \notin before => outcome # "failed"
    BY <1>1, <2>1 DEF Calmly
  <2> QED
    BY <2>1, <2>3, <2>4, <2>5, <2>6, <2>7 DEF Calmly, Working
<1>7. CASE Idles
  <2>1. /\ UNCHANGED <<step, job, written, outcome, before, calm, toBl, mode, buf, meta>>
        /\ \/ acks' = acks
           \/ acks # <<>> /\ Head(acks).cmd # Command(step) /\ acks' = Tail(acks)
    BY <1>7 DEF Idles, board
  <2>2. CASE acks' = acks
    BY <1>1, <2>1, <2>2 DEF Calmly
  <2>3. CASE acks # <<>> /\ Head(acks).cmd # Command(step) /\ acks' = Tail(acks)
    <3>1. \A r \in Held(acks') : r \in Held(acks)
      BY <1>1, <2>3, AcksTaken
    <3>2. EndsIn(acks, Command(step)) => EndsIn(acks', Command(step))
      <4>1. acks \in Seq(Replies)
        BY <1>1, <2>3, AcksTaken
      <4> QED
        BY <2>3, <4>1, Taken
    <3> QED
      BY <1>1, <2>1, <3>1, <3>2 DEF Calmly
  <2> QED
    BY <2>1, <2>2, <2>3
<1> QED
  BY <1>1, <1>2, <1>3, <1>4, <1>5, <1>6, <1>7, WhatHappens

\* A run in which nothing goes wrong has its frames in order to the last.
THEOREM Repairing == Spec => []RepairInv
<1>1. Init => RepairInv
  <2> SUFFICES ASSUME Init PROVE RepairInv
    OBVIOUS
  <2>1. Held(acks) = {} /\ Parted(toBl)
    BY Emptied, OrderEmpty DEF Init
  <2> QED
    BY <2>1, FlasherInit DEF Init, RepairInv, Parting, Calmly, Working
<1>2. RepairInv /\ [Next]_vars => RepairInv'
  BY SoundKept, SettledKept, FinishingKept, AskingKept, PartingKept, CalmlyKept
  DEF RepairInv, FlasherInv
<1> QED
  BY <1>1, <1>2, PTL DEF Spec

\* flash.py:350-412: it works, whatever the runs before it have left but for a
\* finish that is under way when it begins.
THEOREM Retrying == Spec => []RetryRepairs
<1>1. RepairInv => RetryRepairs
  BY DEF RepairInv, Calmly, RetryRepairs
<1> QED
  BY <1>1, Repairing, PTL
=============================================================================

----------------------------- MODULE LegacyFlash -----------------------------
(***************************************************************************)
(* tools/flash.py: the stop-and-wait flasher of the IFS08 CAN bootloader,  *)
(* run after run on one board.  A reply names its command and nothing      *)
(* else, a queue outlives the process that filled it, and every wait ends  *)
(* with its deadline; what the flasher reports rests on the order of the   *)
(* frames.  The bootloader is external: it obeys one command at a time.    *)
(***************************************************************************)
EXTENDS Naturals, Sequences

CONSTANTS Images,
          Frames,     \* how many WRITE_DATA frames an image takes
          Versions,
          NoApp,      \* no valid application
          MaxRuns,    \* bound: runs of the flasher
          MaxFaults   \* bound: kills, late replies, resets, NACKs

ASSUME FlashConstants == /\ Images # {} /\ Frames \in [Images -> Nat \ {0}]
                         /\ Versions \subseteq Nat /\ 0 \in Versions
                         /\ NoApp \notin Images /\ NoApp \notin Versions
                         /\ NoApp \notin [fw : Images, ver : Versions]
                         /\ MaxRuns \in Nat /\ MaxFaults \in Nat

VARIABLES
  step,     \* the command a run waits for the reply of, "idle" between runs
  job,      \* its image, the version to give it, and --force
  written,  \* frames acknowledged
  outcome,  \* of the last run
  before,   \* erases and finishes of earlier runs under way when it started
  calm,     \* nothing has gone wrong since then
  toBl,     \* frames the bootloader has not read yet
  acks,     \* its replies in the socket of the run
  mode,     \* the board runs its "app", its "boot"loader, or is "rebooting"
  app,      \* the application its metadata vouches for
  buf,      \* frames written since the last erase
  meta,     \* what SET_SIZE, SET_CRC and SET_VERSION have set
  runs, faults  \* what is left of the bounds

host == <<step, job, written, outcome, before, calm, acks, runs>>
board == <<mode, app, buf, meta>>
vars == <<step, job, written, outcome, before, calm, toBl, acks, mode, app,
          buf, meta, runs, faults>>

Steps == {"probe", "poll", "info", "erase", "size", "crc", "version", "data",
          "finish", "verify", "jump"}
Commands == (Steps \ {"probe", "poll", "verify"}) \cup {"ping"}
Jobs == [fw : Images, ver : Versions, force : BOOLEAN]
Apps == [fw : Images, ver : Versions] \cup {NoApp}
Unset == [size |-> NoApp, crc |-> NoApp, version |-> NoApp]

TypeOK ==
  /\ step \in Steps \cup {"idle"} /\ job \in Jobs
  /\ written \in Nat /\ written < Frames[job.fw]
  /\ outcome \in {"none", "flashed", "skipped", "failed", "killed"}
  /\ before \subseteq {"erase", "finish"} /\ calm \in BOOLEAN
  /\ toBl \in Seq([cmd : Commands, fw : Images, ver : Versions])
  /\ acks \in Seq([cmd : Commands, ok : BOOLEAN, app : Apps])
  /\ mode \in {"app", "boot", "rebooting"} /\ app \in Apps
  /\ mode = "app" => app # NoApp /\ toBl = <<>>
  /\ buf \in Seq(Images)
  /\ meta \in [size : Nat \cup {NoApp}, crc : Images \cup {NoApp},
               version : Versions \cup {NoApp}]
  /\ runs \in 0..MaxRuns /\ faults \in 0..MaxFaults

Init ==
  /\ step = "idle" /\ written = 0 /\ outcome = "none"
  /\ job = CHOOSE j \in Jobs : TRUE
  /\ before = {} /\ calm = TRUE /\ toBl = <<>> /\ acks = <<>>
  /\ app \in Apps /\ mode \in {"app", "boot"}
  /\ app = NoApp => mode = "boot"
  /\ buf = <<>> /\ meta = Unset
  /\ runs = MaxRuns /\ faults = MaxFaults

Mishap == faults > 0 /\ faults' = faults - 1

-----------------------------------------------------------------------------
(* The flasher.                                                            *)

Command(s) == IF s \in {"probe", "poll"} THEN "ping"
              ELSE IF s = "verify" THEN "info" ELSE s

\* Mutant: a frame waits for a bootloader to come.
SendHeld(s, j) ==
  toBl' = Append(toBl, [cmd |-> Command(s), fw |-> j.fw, ver |-> j.ver])

\* A frame for a bootloader that does not run is nobody's.
Send(s, j) ==
  toBl' = IF mode # "boot" THEN toBl
          ELSE Append(toBl, [cmd |-> Command(s), fw |-> j.fw, ver |-> j.ver])

Goto(s) == step' = s /\ Send(s, job) /\ UNCHANGED <<job, outcome, before, runs>>
Ends(how) == /\ step' = "idle" /\ outcome' = how /\ written' = 0
             /\ UNCHANGED <<job, before, runs, toBl>>

\* The file is read and the socket opened, empty.
Start(j) ==
  /\ step = "idle" /\ runs > 0
  /\ runs' = runs - 1
  /\ step' = "probe" /\ job' = j /\ Send("probe", j)
  /\ outcome' = "none" /\ calm' = TRUE /\ acks' = <<>>
  /\ before' = {toBl[i].cmd : i \in DOMAIN toBl} \cap {"erase", "finish"}
  /\ UNCHANGED <<written, board, faults>>

\* The order of flash(); the first two steps have more than one way on.
After == [s \in {"erase", "size", "crc", "version", "finish", "verify"} |->
            CASE s = "erase" -> "size" [] s = "size" -> "crc"
              [] s = "crc" -> "version" [] s = "version" -> "data"
              [] s = "finish" -> "verify" [] s = "verify" -> "jump"]

\* Mutant: no version is compared.
InstalledAny(a) == a.ok /\ a.app.ver # 0

\* Step 2: a version other than 0 that the board already has.
Installed(a) == a.ok /\ a.app.ver # 0 /\ a.app.ver = job.ver

\* Mutant: a refusal is a reply like every other.
AcceptAnyStatus ==
  /\ acks # <<>> /\ step # "idle" /\ Head(acks).cmd = Command(step)
  /\ acks' = Tail(acks)
  /\ \/ step \in {"probe", "poll"} /\ UNCHANGED written
        /\ Goto(IF job.force THEN "erase" ELSE "info")
     \/ step = "info" /\ UNCHANGED written
        /\ IF Installed(Head(acks)) THEN Ends("skipped") ELSE Goto("erase")
     \/ step \in DOMAIN After /\ Goto(After[step]) /\ UNCHANGED written
     \/ step = "data"
        /\ IF written + 1 < Frames[job.fw] THEN Goto("data") /\ written' = written + 1
                                           ELSE Goto("finish") /\ written' = 0
     \/ step = "jump" /\ Ends("flashed")
  /\ UNCHANGED <<calm, board, faults>>

\* The reply that is waited for, with status 0 wherever a status matters.
Accept ==
  /\ acks # <<>> /\ step # "idle" /\ Head(acks).cmd = Command(step)
  /\ acks' = Tail(acks)
  /\ \/ step \in {"probe", "poll"} /\ UNCHANGED written
        /\ Goto(IF job.force THEN "erase" ELSE "info")
     \/ step = "info" /\ UNCHANGED written
        /\ IF Installed(Head(acks)) THEN Ends("skipped") ELSE Goto("erase")
     \/ step \in DOMAIN After /\ Head(acks).ok
        /\ Goto(After[step]) /\ UNCHANGED written
     \/ step = "data" /\ Head(acks).ok
        /\ IF written + 1 < Frames[job.fw] THEN Goto("data") /\ written' = written + 1
                                           ELSE Goto("finish") /\ written' = 0
     \/ step = "jump" /\ Head(acks).ok /\ Ends("flashed")
  /\ UNCHANGED <<calm, board, faults>>

\* Any other command's reply is read and dropped.
Ignore ==
  /\ acks # <<>> /\ step # "idle" /\ Head(acks).cmd # Command(step)
  /\ acks' = Tail(acks)
  /\ UNCHANGED <<step, job, written, outcome, before, calm, toBl, runs, board, faults>>

Refused ==
  /\ acks # <<>> /\ step \notin {"idle", "probe", "poll", "info"}
  /\ Head(acks).cmd = Command(step) /\ ~Head(acks).ok
  /\ acks' = Tail(acks)
  /\ Ends("failed")
  /\ UNCHANGED <<calm, board, faults>>

\* A deadline passes: of course when nothing can come any more, and otherwise
\* because somebody was slow.
Late(s) ==
  /\ step = s
  /\ \/ toBl = <<>> /\ acks = <<>> /\ UNCHANGED <<calm, faults>>
     \/ Mishap /\ calm' = FALSE
  /\ UNCHANGED acks

\* What ENTER_BOOTLOADER, which only an application hears, makes of the board.
Asked == IF mode = "app" THEN "rebooting" ELSE mode

\* ENTER_BOOTLOADER, the wait for a reply that nobody needs and that drops any
\* other, and the first PING of the poll.
RemoteEnter ==
  /\ step = "probe"
  /\ \/ toBl = <<>> /\ acks = <<>> /\ mode' = Asked /\ UNCHANGED <<calm, faults>>
     \/ Mishap /\ calm' = FALSE /\ mode' \in {mode, Asked}
  /\ Goto("poll") /\ acks' \in {acks, <<>>}
  /\ UNCHANGED <<written, app, buf, meta>>

\* Mutant: one PING after the reboot was asked for.
PollOnce ==
  /\ Late("poll") /\ Ends("failed")
  /\ UNCHANGED board

PollAgain == Late("poll") /\ Goto("poll") /\ UNCHANGED <<written, board>>

\* Three seconds without a reply.
GiveUp ==
  /\ step = "poll"
  /\ \/ mode = "app" /\ UNCHANGED <<calm, faults>>
     \/ mode # "app" /\ Mishap /\ calm' = FALSE
  /\ Ends("failed")
  /\ UNCHANGED <<acks, board>>

\* No reply to GET_INFO: nothing is known, and the flash goes on.
InfoLate == Late("info") /\ Goto("erase") /\ UNCHANGED <<written, board>>

\* No reply to JUMP: the board "may have already reset".
JumpLate == Late("jump") /\ Ends("flashed") /\ UNCHANGED board

\* Every other command fails with its reply.
CommandLate ==
  /\ \E s \in Steps \ {"probe", "poll", "info", "jump"} : Late(s)
  /\ Ends("failed")
  /\ UNCHANGED board

\* Ctrl-C, a cancelled job.
Killed ==
  /\ step # "idle" /\ Mishap /\ calm' = FALSE
  /\ Ends("killed")
  /\ UNCHANGED <<acks, board>>

-----------------------------------------------------------------------------
(* The board.                                                              *)

Reply(ok, a) ==
  acks' = IF step = "idle" THEN <<>>
          ELSE Append(acks, [cmd |-> Head(toBl).cmd, ok |-> ok, app |-> a])

\* CRC and size in order.
Complete == /\ meta.crc # NoApp /\ meta.version # NoApp
            /\ meta.size = Frames[meta.crc]
            /\ buf = [i \in 1..Frames[meta.crc] |-> meta.crc]

Obeys(c) == mode = "boot" /\ toBl # <<>> /\ Head(toBl).cmd = c
Consumes == /\ toBl' = Tail(toBl)
            /\ UNCHANGED <<step, job, written, outcome, before, runs>>

BlPing == /\ Obeys("ping") /\ Consumes /\ Reply(TRUE, app)
          /\ UNCHANGED <<calm, faults, board>>

BlInfo == /\ Obeys("info") /\ Consumes /\ Reply(app # NoApp, app)
          /\ UNCHANGED <<calm, faults, board>>

BlErase ==
  /\ Obeys("erase") /\ Consumes
  /\ app' = NoApp /\ buf' = <<>>
  /\ \/ Reply(TRUE, NoApp) /\ UNCHANGED <<calm, faults>>
     \/ Reply(FALSE, NoApp) /\ Mishap /\ calm' = FALSE
  /\ UNCHANGED <<mode, meta>>

BlSet ==
  /\ \/ Obeys("size") /\ meta' = [meta EXCEPT !.size = Frames[Head(toBl).fw]]
     \/ Obeys("crc") /\ meta' = [meta EXCEPT !.crc = Head(toBl).fw]
     \/ Obeys("version") /\ meta' = [meta EXCEPT !.version = Head(toBl).ver]
  /\ Consumes /\ Reply(TRUE, app)
  /\ UNCHANGED <<calm, faults, mode, app, buf>>

BlData ==
  /\ Obeys("data") /\ Consumes
  /\ \/ buf' = Append(buf, Head(toBl).fw) /\ Reply(TRUE, app)
        /\ UNCHANGED <<calm, faults>>
     \/ Reply(FALSE, app) /\ Mishap /\ calm' = FALSE /\ UNCHANGED buf
  /\ UNCHANGED <<mode, app, meta>>

BlFinish ==
  /\ Obeys("finish") /\ Consumes
  /\ app' = IF Complete THEN [fw |-> meta.crc, ver |-> meta.version] ELSE app
  /\ Reply(Complete, app')
  /\ UNCHANGED <<calm, faults, mode, buf, meta>>

\* What the bootloader had in RAM is gone.
BoardStarts == buf' = <<>> /\ meta' = Unset

\* The reply of a jump that works may be cut off by it.
BlJump ==
  /\ Obeys("jump")
  /\ IF app = NoApp
     THEN Reply(FALSE, app) /\ toBl' = Tail(toBl) /\ UNCHANGED board
     ELSE /\ Reply(TRUE, app) \/ UNCHANGED acks
          /\ mode' = "app" /\ toBl' = <<>> /\ BoardStarts /\ UNCHANGED app
  /\ UNCHANGED <<step, job, written, outcome, before, runs, calm, faults>>

BlStarts ==
  /\ mode = "rebooting"
  /\ mode' = "boot" /\ BoardStarts
  /\ UNCHANGED <<app, toBl, host, faults>>

\* A power glitch or a watchdog.
BoardResets ==
  /\ Mishap /\ calm' = FALSE
  /\ mode' = IF app = NoApp THEN "boot" ELSE "app"
  /\ toBl' = <<>> /\ BoardStarts
  /\ UNCHANGED <<app, step, job, written, outcome, before, runs, acks>>

-----------------------------------------------------------------------------
Flasher == \/ Accept \/ Ignore \/ Refused
           \/ RemoteEnter \/ PollAgain \/ InfoLate \/ JumpLate \/ CommandLate
Bootloader == \/ BlPing \/ BlInfo \/ BlErase \/ BlSet \/ BlData \/ BlFinish
              \/ BlJump \/ BlStarts

Next == \/ \E j \in Jobs : Start(j)
        \/ Flasher \/ GiveUp \/ Killed \/ Bootloader \/ BoardResets

Spec == Init /\ [][Next]_vars

-----------------------------------------------------------------------------
(* Properties.                                                             *)

\* flash.py:386-407: a run that reports a finished flash has left this image
\* under this version on the board, whatever was late, reset or left over
\* from a run before, short of a finish.
FlashedHoldsImage ==
  outcome = "flashed" /\ "finish" \notin before => app = [fw |-> job.fw, ver |-> job.ver]

\* flash.py:362-374: "already installed" is true of the board, unless an
\* erase or a finish of a killed run is still on its way to it.
SkippedHasVersion ==
  outcome = "skipped" /\ before = {} => app # NoApp /\ app.ver = job.ver

\* flash.py:350-412: a run in which nothing goes wrong works, whatever state
\* interrupted runs have left the board and the bus in, again short of a
\* finish that is on its way.
RetryRepairs == calm /\ "finish" \notin before => outcome # "failed"
=============================================================================

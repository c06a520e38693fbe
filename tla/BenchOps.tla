------------------------------- MODULE BenchOps -------------------------------
(***************************************************************************)
(* Everyone who acts on one bench: the jobs of .github/workflows/          *)
(* hil-test.yml, the watchdog timer, people who run `bench recover`, and   *)
(* people who run tools/flash_dut with no flock around it.  They share the *)
(* lock file, the ATX rails, the CAN controllers and their netdev, the     *)
(* broker and its DAC objects, and the flash of the carrier under test.    *)
(***************************************************************************)
EXTENDS Naturals, FiniteSets

CONSTANTS Jobs,          \* dispatched runs that resolved to this bench
          BenchOnly,     \* those of them that bring no firmware
          Degraded,      \* those with allow_degraded: a failed preflight is ignored
          Operators,     \* hand runs of `bench recover`
          BareFlashers,  \* hand runs of flash_dut outside any flock
          Watchdog,      \* hil-bench-watchdog.service
          NoOne,         \* the owner of a free lock
          MaxFaults      \* bound: faults of the environment in one behaviour

Actors == Jobs \cup Operators \cup BareFlashers \cup {Watchdog}

ASSUME ActorsDiffer ==
  /\ BenchOnly \subseteq Jobs /\ Degraded \subseteq Jobs
  /\ Watchdog \notin Jobs \cup Operators \cup BareFlashers
  /\ Jobs \cap Operators = {} /\ Jobs \cap BareFlashers = {}
  /\ Operators \cap BareFlashers = {}
  /\ NoOne \notin Actors
  /\ Actors \cap {"old", "none", "writing", "bricked"} = {}
  /\ MaxFaults \in Nat

VARIABLES
  lock,      \* who holds the flock on BENCH_LOCK
  pc,        \* what each actor does next
  rung,      \* the rung of the recovery ladder an actor is on, 0 for none
  rails,     \* ATX main rails: SPI parts and carriers live on them
  broker,    \* hil-broker.service runs
  dacs,      \* HardwareManager._dacs against the registers of the chips
  devid,     \* what a DAC80504 answers when asked for its device id
  link,      \* the canN netdev
  timing,    \* the sample point the netdev was last configured with
  canChip,   \* MCP2515 registers: configured, or as after power-on reset
  canUnit,   \* hil-can-up.service is active (oneshot, RemainAfterExit)
  image,     \* what the carrier's flash holds
  faults     \* faults the environment may still inject

\* The DACs are apart: the first access of anybody configures them (OpenDacs).
hardwareButDacs == <<rails, devid, link, timing, canChip, canUnit>>
vars == <<lock, pc, rung, rails, broker, dacs, devid, link, timing, canChip,
          canUnit, image, faults>>

Ladder == {"restartBroker", "psuOff", "psuOn", "unload", "reload", "canUp"}
Programming == {"energise", "discover", "erase", "write"}
UnderLock == Ladder \cup {"reverify", "capture", "recheck", "suite", "leave"}
Waiting == {"queued", "verify", "tryLock", "flockRecover", "flockRun"}
Over == {"done", "failed"}
Places == UnderLock \cup Programming \cup Waiting \cup Over

TypeOK ==
  /\ lock \in Actors \cup {NoOne}
  /\ pc \in [Actors -> Places]
  /\ rung \in [Actors -> 0..2]
  /\ rails \in BOOLEAN /\ broker \in BOOLEAN /\ canUnit \in BOOLEAN
  /\ dacs \in {"unopened", "configured", "stale"}
  /\ devid \in {"good", "wedged"}
  /\ link \in {"absent", "down", "up"}
  /\ timing \in {"none", "bench", "kernel"}
  /\ canChip \in {"set", "por"}
  /\ image \in Jobs \cup BareFlashers \cup
                 {"old", "none", "writing", "bricked"}
  /\ faults \in 0..MaxFaults

Init ==
  /\ lock = NoOne
  /\ pc = [a \in Actors |-> IF a = Watchdog THEN "verify" ELSE "queued"]
  /\ rung = [a \in Actors |-> 0]
  /\ rails = TRUE /\ broker = TRUE /\ canUnit = TRUE
  /\ dacs = "unopened" /\ devid = "good"
  /\ link = "up" /\ timing = "bench" /\ canChip = "set"
  /\ image = "old"
  /\ faults = MaxFaults

Goto(a, where) == pc' = [pc EXCEPT ![a] = where]

\* A step that may go wrong: it goes right, or it costs one fault.
Sound == UNCHANGED faults
Faulty == faults > 0 /\ faults' = faults - 1

-----------------------------------------------------------------------------
(* Taking and giving back the lock.                                        *)

Acquire(a) == lock = NoOne /\ lock' = a

\* A bare flasher never took it; closing the file of the others frees it.
GiveBack(a) == lock' = IF lock = a THEN NoOne ELSE lock

-----------------------------------------------------------------------------
(* bench verify.                                                           *)

\* What cmd_verify compares.  It asks for the presence of the netdev and for
\* its timing, not whether the link is up, and reads only the device id of a
\* DAC, not its configuration.
MatchesDescriptor ==
  /\ broker /\ rails
  /\ devid = "good"
  /\ link # "absent"
  /\ timing # "kernel"

\* The first dac.read_device_id constructs the DAC objects, which writes their
\* registers: writes that go nowhere while the rails are off.
OpenDacs ==
  dacs' = IF broker /\ dacs = "unopened"
          THEN IF rails THEN "configured" ELSE "stale"
          ELSE dacs

\* The verdict of one verify; a DEVID mis-clocked three times in a row calls
\* a good bench bad.
Verdict(ok) ==
  /\ OpenDacs
  /\ \/ ok = MatchesDescriptor /\ Sound
     \/ MatchesDescriptor /\ ok = FALSE /\ Faulty

-----------------------------------------------------------------------------
(* bench recover: the two rungs of the ladder, each step best effort.      *)

RecoverFrom(level) == IF level <= 1 THEN "restartBroker" ELSE "psuOff"

\* hil-can-up: down, then up with the bench's sample point, on every canN.
CanUpEffect ==
  IF rails /\ link # "absent"
  THEN link' = "up" /\ timing' = "bench" /\ canChip' = "set" /\ canUnit' = TRUE
  ELSE /\ link' = IF link = "absent" THEN "absent" ELSE "down"
       /\ canUnit' = FALSE
       /\ UNCHANGED <<timing, canChip>>

\* A starting broker drives PS_ON# low, holds no DAC objects, and its Wants=
\* starts hil-can-up again when that unit is not active.  Reopening the SPI
\* handles is "sometimes enough" for a wedged DAC.
BrokerStart ==
  /\ broker' = TRUE
  /\ rails' = TRUE
  /\ dacs' = "unopened"
  /\ devid' \in {devid, "good"}
  /\ IF canUnit THEN UNCHANGED <<link, timing, canChip, canUnit>>
                ELSE CanUpEffect

RestartBroker(a) ==
  /\ pc[a] = "restartBroker"
  /\ \/ BrokerStart /\ Sound
     \/ /\ broker' = FALSE /\ dacs' = "unopened" /\ Faulty
        /\ UNCHANGED hardwareButDacs
  /\ Goto(a, IF a = Watchdog THEN "recheck" ELSE "leave")
  /\ UNCHANGED <<lock, rung, image>>

\* Cutting the rails resets every SPI part and takes the carriers' power.
RailsOff ==
  /\ rails' = FALSE
  /\ canChip' = "por"
  /\ devid' = "good"
  /\ dacs' = IF dacs = "configured" THEN "stale" ELSE dacs
  /\ image' = IF image = "writing" THEN "bricked" ELSE image

\* _psu_cycle, first half.  No broker: give up before anything is switched.
\* An exception after the call took effect leaves the rails off.
PsuOff(a) ==
  /\ pc[a] = "psuOff"
  /\ \/ /\ broker /\ RailsOff
        /\ \/ Goto(a, "psuOn") /\ Sound
           \/ Goto(a, "unload") /\ Faulty
     \/ /\ ~broker
        /\ Goto(a, "unload") /\ Sound
        /\ UNCHANGED <<rails, canChip, devid, dacs, image>>
  /\ UNCHANGED <<lock, rung, broker, link, timing, canUnit>>

\* Second half.  A failed call, or PWR_OK never seen, leaves the rails off.
PsuOn(a) ==
  /\ pc[a] = "psuOn"
  /\ \/ broker /\ rails' = TRUE /\ Sound
     \/ broker /\ UNCHANGED rails /\ Faulty
     \/ ~broker /\ UNCHANGED rails /\ Sound
  /\ Goto(a, "unload")
  /\ UNCHANGED <<lock, rung, broker, dacs, devid, link, timing, canChip,
                 canUnit, image>>

\* modprobe -r mcp251x takes the netdevs away,
Unload(a) ==
  /\ pc[a] = "unload"
  /\ \/ link' = "absent" /\ timing' = "none" /\ Sound
     \/ UNCHANGED <<link, timing>> /\ Faulty
  /\ Goto(a, "reload")
  /\ UNCHANGED <<lock, rung, rails, broker, dacs, devid, canChip, canUnit,
                 image>>

\* modprobe mcp251x brings them back if the chips answer the probe,
Reload(a) ==
  /\ pc[a] = "reload"
  /\ \/ link' = (IF link = "absent" /\ rails THEN "down" ELSE link) /\ Sound
     \/ UNCHANGED link /\ Faulty
  /\ Goto(a, "canUp")
  /\ UNCHANGED <<lock, rung, rails, broker, dacs, devid, timing, canChip,
                 canUnit, image>>

\* Mutant: the ladder of level 2 ends without restarting the broker.
CanUpLast(a) ==
  /\ pc[a] = "canUp"
  /\ CanUpEffect /\ Sound
  /\ Goto(a, IF a = Watchdog THEN "recheck" ELSE "leave")
  /\ UNCHANGED <<lock, rung, rails, broker, dacs, devid, image>>

\* and systemctl restart hil-can-up configures them again.
CanUp(a) ==
  /\ pc[a] = "canUp"
  /\ \/ CanUpEffect /\ Sound
     \/ /\ Faulty
        /\ link' = (IF link = "absent" THEN "absent" ELSE "down")
        /\ canUnit' = FALSE
        /\ UNCHANGED <<timing, canChip>>
  /\ Goto(a, "restartBroker")
  /\ UNCHANGED <<lock, rung, rails, broker, dacs, devid, image>>

\* recover(level) runs to its end whatever each step returned.
LadderStep(a) == \/ RestartBroker(a) \/ PsuOff(a) \/ PsuOn(a)
                 \/ Unload(a) \/ Reload(a) \/ CanUp(a)

-----------------------------------------------------------------------------
(* bench watchdog: a oneshot every five minutes.                           *)

\* The first verify takes no lock.
WdVerify ==
  /\ pc[Watchdog] = "verify"
  /\ \E ok \in BOOLEAN : /\ Verdict(ok)
                         /\ Goto(Watchdog, IF ok THEN "verify" ELSE "tryLock")
  /\ UNCHANGED <<lock, rung, broker, hardwareButDacs, image>>

\* Mutant: the OSError of a busy lock is swallowed.
WdBarges ==
  /\ pc[Watchdog] = "tryLock"
  /\ IF lock = NoOne THEN lock' = Watchdog ELSE UNCHANGED lock
  /\ Goto(Watchdog, "reverify")
  /\ UNCHANGED <<rung, broker, dacs, hardwareButDacs, image, faults>>

\* LOCK_NB: a busy bench is left alone until the next tick.
WdTryLock ==
  /\ pc[Watchdog] = "tryLock"
  /\ \/ Acquire(Watchdog) /\ Goto(Watchdog, "reverify")
     \/ lock # NoOne /\ Goto(Watchdog, "verify") /\ UNCHANGED lock
  /\ UNCHANGED <<rung, broker, dacs, hardwareButDacs, image, faults>>

\* Under the lock: the run that just finished may have fixed the bench.
WdReverify ==
  /\ pc[Watchdog] = "reverify"
  /\ \E ok \in BOOLEAN : /\ Verdict(ok)
                         /\ Goto(Watchdog, IF ok THEN "leave" ELSE "capture")
  /\ UNCHANGED <<lock, rung, broker, hardwareButDacs, image>>

\* The evidence is taken before the ladder erases it, with or without a
\* broker to ask; its DEVID reads construct the DACs like those of verify.
WdCapture ==
  /\ pc[Watchdog] = "capture"
  /\ OpenDacs
  /\ rung' = [rung EXCEPT ![Watchdog] = 1]
  /\ Goto(Watchdog, RecoverFrom(1))
  /\ UNCHANGED <<lock, broker, hardwareButDacs, image, faults>>

\* Mutant: nothing stops the climb at the second rung.
WdRecheckClimbsOn ==
  /\ pc[Watchdog] = "recheck"
  /\ \E ok \in BOOLEAN :
       /\ Verdict(ok)
       /\ IF ok
          THEN Goto(Watchdog, "leave") /\ UNCHANGED rung
          ELSE /\ rung' = [rung EXCEPT ![Watchdog] = @ + 1]
               /\ Goto(Watchdog, RecoverFrom(2))
  /\ UNCHANGED <<lock, broker, hardwareButDacs, image>>

\* Mutant: the ladder has one rung.
WdRecheckGivesUp ==
  /\ pc[Watchdog] = "recheck"
  /\ \E ok \in BOOLEAN : Verdict(ok)
  /\ Goto(Watchdog, "leave")
  /\ UNCHANGED <<rung, lock, broker, hardwareButDacs, image>>

\* Up one rung, and no further than the second.
WdRecheck ==
  /\ pc[Watchdog] = "recheck"
  /\ \E ok \in BOOLEAN :
       /\ Verdict(ok)
       /\ IF ok \/ rung[Watchdog] = 2
          THEN Goto(Watchdog, "leave") /\ UNCHANGED rung
          ELSE /\ rung' = [rung EXCEPT ![Watchdog] = 2]
               /\ Goto(Watchdog, RecoverFrom(2))
  /\ UNCHANGED <<lock, broker, hardwareButDacs, image>>

-----------------------------------------------------------------------------
(* A dispatched run, and the others who use its steps.                     *)

Active(j) == pc[j] \notin {"queued"} \cup Over

\* The workflow's concurrency group: one run at a time on a bench.
JobStart(j) ==
  /\ pc[j] = "queued"
  /\ \A k \in Jobs : ~Active(k)
  /\ Goto(j, "verify")
  /\ UNCHANGED <<lock, rung, broker, dacs, hardwareButDacs, image, faults>>

\* Mutant: the preflight repeats its first recovery level for ever.
JobVerifyRepeats(j) ==
  /\ pc[j] = "verify"
  /\ \E ok \in BOOLEAN :
       /\ Verdict(ok)
       /\ IF ok THEN Goto(j, "flockRun") /\ UNCHANGED rung
                ELSE /\ rung' = [rung EXCEPT ![j] = 1]
                     /\ Goto(j, "flockRecover")
  /\ UNCHANGED <<lock, broker, hardwareButDacs, image>>

\* Preflight, rung 0 to 2: verify, and between two verifies recover one level.
JobVerify(j) ==
  /\ pc[j] = "verify"
  /\ \E ok \in BOOLEAN :
       /\ Verdict(ok)
       /\ \/ ok /\ Goto(j, "flockRun") /\ UNCHANGED rung
          \/ /\ ~ok /\ rung[j] < 2
             /\ rung' = [rung EXCEPT ![j] = @ + 1]
             /\ Goto(j, "flockRecover")
          \/ /\ ~ok /\ rung[j] = 2 /\ UNCHANGED rung
             /\ Goto(j, IF j \in Degraded THEN "flockRun" ELSE "failed")
  /\ UNCHANGED <<lock, broker, hardwareButDacs, image>>

OperatorStart(o) ==
  /\ pc[o] = "queued"
  /\ \E level \in {1, 2} : rung' = [rung EXCEPT ![o] = level]
  /\ Goto(o, "flockRecover")
  /\ UNCHANGED <<lock, broker, dacs, hardwareButDacs, image, faults>>

\* Mutant: a recovery that takes no lock.
FlockRecoverUnlocked(a) ==
  /\ pc[a] = "flockRecover"
  /\ Goto(a, RecoverFrom(rung[a]))
  /\ UNCHANGED <<lock, rung, broker, dacs, hardwareButDacs, image, faults>>

\* cmd_recover waits for the lock and does not look at the bench again.
FlockRecover(a) ==
  /\ pc[a] = "flockRecover"
  /\ Acquire(a)
  /\ Goto(a, RecoverFrom(rung[a]))
  /\ UNCHANGED <<rung, broker, dacs, hardwareButDacs, image, faults>>

\* Mutant: a run whose wait for the lock timed out goes ahead without it.
FlockRunAnyway(j) ==
  /\ pc[j] = "flockRun"
  /\ IF lock = NoOne THEN lock' = j ELSE UNCHANGED lock
  /\ Goto(j, IF j \in BenchOnly THEN "suite" ELSE "energise")
  /\ UNCHANGED <<rung, broker, dacs, hardwareButDacs, image, faults>>

\* flock -w 3000: take the lock for flash and suite together, or give up.
FlockRun(j) ==
  /\ pc[j] = "flockRun"
  /\ \/ /\ Acquire(j)
        /\ Goto(j, IF j \in BenchOnly THEN "suite" ELSE "energise")
     \/ lock # NoOne /\ Goto(j, "failed") /\ UNCHANGED lock
  /\ UNCHANGED <<rung, broker, dacs, hardwareButDacs, image, faults>>

BareStart(b) ==
  /\ pc[b] = "queued"
  /\ Goto(b, "energise")
  /\ UNCHANGED <<lock, rung, broker, dacs, hardwareButDacs, image, faults>>

\* A flash that raises FlashError ends its run.
GiveUp(a) == Goto(a, "failed") /\ GiveBack(a)

\* The relays are switched through the broker, and an unpowered carrier draws
\* less than the floor.
Energise(a) ==
  /\ pc[a] = "energise"
  /\ IF broker /\ rails THEN Goto(a, "discover") /\ UNCHANGED lock
                        ELSE GiveUp(a)
  /\ UNCHANGED <<rung, broker, dacs, hardwareButDacs, image, faults>>

Answers == rails /\ link = "up" /\ canChip = "set" /\ image # "bricked"

\* Exactly one bootloader has to answer.
Discover(a) ==
  /\ pc[a] = "discover"
  /\ \/ Answers /\ Goto(a, "erase") /\ UNCHANGED <<lock, faults>>
     \/ ~Answers /\ GiveUp(a) /\ Sound
     \/ GiveUp(a) /\ Faulty
  /\ UNCHANGED <<rung, broker, dacs, hardwareButDacs, image>>

Erase(a) ==
  /\ pc[a] = "erase"
  /\ IF Answers THEN image' = "writing" /\ Goto(a, "write") /\ UNCHANGED lock
                ELSE GiveUp(a) /\ UNCHANGED image
  /\ UNCHANGED <<rung, broker, dacs, hardwareButDacs, faults>>

\* Mutant: the exit status of the flash does not stop the run.
WriteIgnoresFailure(a) ==
  /\ pc[a] = "write"
  /\ \/ Answers /\ Sound /\ image' = a
     \/ Answers /\ Faulty /\ image' = "none"
     \/ ~Answers /\ Sound /\ UNCHANGED image
  /\ IF a \in Jobs THEN Goto(a, "suite") /\ UNCHANGED lock
                   ELSE Goto(a, "done") /\ GiveBack(a)
  /\ UNCHANGED <<rung, broker, dacs, hardwareButDacs>>

\* can-flasher --verify-after: either these bytes are on the chip, or the app
\* is gone and the bootloader waits for the next attempt.
Write(a) ==
  /\ pc[a] = "write"
  /\ \/ /\ Answers /\ Sound
        /\ image' = a
        /\ IF a \in Jobs THEN Goto(a, "suite") /\ UNCHANGED lock
                         ELSE Goto(a, "done") /\ GiveBack(a)
     \/ /\ Answers /\ Faulty
        /\ image' = "none"
        /\ GiveUp(a)
     \/ /\ ~Answers /\ Sound
        /\ image' = IF image = "writing" THEN "none" ELSE image
        /\ GiveUp(a)
  /\ UNCHANGED <<rung, broker, dacs, hardwareButDacs>>

SuiteEnds(j) ==
  /\ pc[j] = "suite"
  /\ Goto(j, "done") /\ GiveBack(j)
  /\ UNCHANGED <<rung, broker, dacs, hardwareButDacs, image, faults>>

\* A recovery closes the lock file: the watchdog waits for its next tick, a
\* run in its preflight verifies again, an operator is done.
Leave(a) ==
  /\ pc[a] = "leave"
  /\ GiveBack(a)
  /\ Goto(a, IF a \in Operators THEN "done" ELSE "verify")
  /\ rung' = IF a = Watchdog THEN [rung EXCEPT ![a] = 0] ELSE rung
  /\ UNCHANGED <<broker, dacs, hardwareButDacs, image, faults>>

-----------------------------------------------------------------------------
(* The environment.                                                        *)

\* A run cancelled or over its 90 minutes, a watchdog over TimeoutStartSec, a
\* Ctrl-C.  The flasher inherits the lock's file and dies with its run.
Killed(a) ==
  /\ pc[a] \notin {"queued"} \cup Over
  /\ Faulty
  /\ image' = IF pc[a] = "write" /\ image = "writing" THEN "none" ELSE image
  /\ IF a = Watchdog
     THEN Goto(a, "verify") /\ rung' = [rung EXCEPT ![a] = 0]
     ELSE Goto(a, "failed") /\ UNCHANGED rung
  /\ GiveBack(a)
  /\ UNCHANGED <<broker, dacs, hardwareButDacs>>

\* IFS_HIL#124: a DAC latches up and answers a wrong device id.
DacWedges ==
  /\ rails /\ Faulty
  /\ devid' = "wedged"
  /\ UNCHANGED <<lock, pc, rung, rails, broker, dacs, link, timing, canChip,
                 canUnit, image>>

\* Anybody's can.set_mode: the link goes down, or comes back with the sample
\* point the kernel picks when _ip_up names none.
CanSetMode ==
  /\ broker /\ link # "absent" /\ Faulty
  /\ \/ link' = "down" /\ UNCHANGED <<timing, canChip>>
     \/ rails /\ link' = "up" /\ timing' = "kernel" /\ canChip' = "set"
  /\ UNCHANGED <<lock, pc, rung, rails, broker, dacs, devid, canUnit, image>>

BrokerDies ==
  /\ broker /\ Faulty
  /\ broker' = FALSE
  /\ dacs' = "unopened"
  /\ UNCHANGED <<lock, pc, rung, hardwareButDacs, image>>

\* Restart=on-failure.
SystemdRestartsBroker ==
  /\ ~broker
  /\ BrokerStart
  /\ UNCHANGED <<lock, pc, rung, image, faults>>

-----------------------------------------------------------------------------
Watch == WdVerify \/ WdTryLock \/ WdReverify \/ WdCapture \/ WdRecheck
Flash(a) == Energise(a) \/ Discover(a) \/ Erase(a) \/ Write(a)
Run(j) == \/ JobVerify(j) \/ FlockRecover(j) \/ FlockRun(j)
          \/ Flash(j) \/ SuiteEnds(j)

Step(a) == \/ a \in Jobs /\ Run(a)
           \/ a \in Operators /\ FlockRecover(a)
           \/ a \in BareFlashers /\ Flash(a)
           \/ a = Watchdog /\ Watch
           \/ LadderStep(a) \/ Leave(a)

Arrive == \/ \E j \in Jobs : JobStart(j)
          \/ \E o \in Operators : OperatorStart(o)
          \/ \E b \in BareFlashers : BareStart(b)

Environment == \/ \E a \in Actors : Killed(a)
               \/ DacWedges \/ CanSetMode \/ BrokerDies
               \/ SystemdRestartsBroker

Next == (\E a \in Actors : Step(a)) \/ Arrive \/ Environment

Spec == Init /\ [][Next]_vars

\* Processes that run keep running, the timer ticks, systemd restarts its
\* units.  Nobody is obliged to start anything, and no fault has to happen.
\* A blocking flock is served only if the lock is free again and again: the
\* kernel does not let a waiter starve.
Fairness == /\ \A a \in Actors : WF_vars(Step(a)) /\ SF_vars(FlockRecover(a))
            /\ WF_vars(SystemdRestartsBroker)

FairSpec == Spec /\ Fairness

-----------------------------------------------------------------------------
(* Properties.                                                             *)

\* F-077 (bench.py:604-607, 640-645): recovery of one party never takes the
\* power from a carrier another party is writing, whatever dies or fails and
\* whoever waits for the lock.
NeverBricked == image # "bricked"

\* hil-test.yml:483-486: flash and suite share one lock "deliberately", so
\* that what the suite judges is the image this run wrote, and no other run,
\* hand flash or interrupted write has got in between.
SuiteJudgesItsImage ==
  \A j \in Jobs \ BenchOnly : pc[j] = "suite" => image = j

\* bench.py:640-645 and infra/systemd/README.md:108-112: while another party
\* owns the bench the watchdog switches nothing and writes no image, at any
\* rung it may have been on, and never waits for the lock.  Its first verify
\* takes none, and does one thing to the hardware: if no DAC call has been made
\* since the broker started, its own configures the DACs (bus.py:273-278), as
\* any reader's would; DACs that are open it does not write.
WatchdogLeavesBusyBenchAlone ==
  [][lock \notin {Watchdog, NoOne} /\ (WdVerify \/ pc'[Watchdog] # pc[Watchdog])
       => /\ UNCHANGED <<hardwareButDacs, broker, lock, image>>
          /\ dacs # "unopened" => UNCHANGED dacs]_vars

\* bench.py:699-704 and bus.py:154-156: a watchdog that found the bench sick
\* hands it back either still failing its descriptor or with DACs whose
\* registers the broker has initialised since their last power-on reset,
\* never with a `_dacs` older than the reset that the ladder itself caused.
LadderLeavesNoStaleDacs ==
  \A a \in Actors : pc[a] = "leave" /\ rung[a] > 0 /\ broker /\ rails
                      => dacs # "stale"

\* Once the faults are over the unattended bench matches its descriptor again
\* and stays so: no broken rung, missing broker or dead run leaves it dark.
Repaired == <>[]MatchesDescriptor

\* Every dispatched run that starts ends, with a verdict or without.
RunsEnd == \A j \in Jobs : pc[j] = "verify" ~> pc[j] \in Over

-----------------------------------------------------------------------------
(* The lock keeps the promise of BenchLock.                                *)

Bench == INSTANCE BenchLock WITH
  Parties <- Actors, owner <- lock,
  carrier <- IF image = "writing" THEN "writing" ELSE "settled"

KeepsBenchLock == Bench!Spec
=============================================================================

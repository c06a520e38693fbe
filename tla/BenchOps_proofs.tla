---------------------------- MODULE BenchOps_proofs ----------------------------
(***************************************************************************)
(* What BenchOps keeps for every number of runs, operators and faults.     *)
(* The inductive invariant says who may be where: everyone who acts under  *)
(* the lock holds it, so two of them are never the writer of a carrier and *)
(* the one who cuts its power.                                             *)
(***************************************************************************)
EXTENDS BenchOps, TLAPS

\* Whoever stands inside a locked region, and is not a hand run of flash_dut,
\* is the owner of the lock; a hand run of flash_dut never climbs the ladder.
Locked ==
  /\ \A a \in Actors \ BareFlashers :
       pc[a] \in UnderLock \cup Programming => lock = a
  /\ \A b \in BareFlashers : pc[b] \in Programming \cup Over \cup {"queued"}

\* The image under a write has one writer and power, a judged image is the
\* judge's own, and none was lost.
Imaged ==
  /\ image # "bricked"
  /\ image = "writing" => \E a \in Actors : pc[a] = "write"
  /\ \A a \in Actors : pc[a] = "write" => image = "writing" /\ rails
  /\ \A j \in Jobs \ BenchOnly : pc[j] = "suite" => image = j

\* Behind a ladder that ran to its end the broker, if there is one, has begun
\* afresh on powered rails.  A watchdog off the ladder is on no rung of it.
Rebuilt ==
  /\ \A a \in Actors : pc[a] \in {"recheck", "leave"} /\ rung[a] > 0
                         => dacs # "stale" /\ (broker => rails)
  /\ pc[Watchdog] \in {"verify", "tryLock", "reverify"} => rung[Watchdog] = 0

-----------------------------------------------------------------------------
\* Every step of a behaviour is a step of one actor or of the environment.
LEMMA NextSteps ==
  ASSUME Next
  PROVE  \/ \E a \in Actors :
              \/ RestartBroker(a) \/ PsuOff(a) \/ PsuOn(a)
              \/ Unload(a) \/ Reload(a) \/ CanUp(a)
              \/ FlockRecover(a) \/ Leave(a) \/ Killed(a)
         \/ \E j \in Jobs : \/ JobStart(j) \/ JobVerify(j) \/ FlockRun(j)
                            \/ SuiteEnds(j)
         \/ \E a \in Jobs \cup BareFlashers : \/ Energise(a) \/ Discover(a)
                                              \/ Erase(a) \/ Write(a)
         \/ \E o \in Operators : OperatorStart(o)
         \/ \E b \in BareFlashers : BareStart(b)
         \/ WdVerify \/ WdTryLock \/ WdReverify \/ WdCapture \/ WdRecheck
         \/ DacWedges \/ CanSetMode \/ BrokerDies \/ SystemdRestartsBroker
BY DEF Next, Step, Arrive, Environment, Run, Flash, Watch, LadderStep, Actors

\* hil-can-up leaves the four variables it touches with their types,
LEMMA CanUpTyped ==
  ASSUME TypeOK, CanUpEffect
  PROVE  /\ link' \in {"absent", "down", "up"}
         /\ timing' \in {"none", "bench", "kernel"}
         /\ canChip' \in {"set", "por"}
         /\ canUnit' \in BOOLEAN
<1>1. CASE rails /\ link # "absent"
  BY <1>1 DEF CanUpEffect, TypeOK
<1>2. CASE ~(rails /\ link # "absent")
  BY <1>2 DEF CanUpEffect, TypeOK
<1> QED
  BY <1>1, <1>2

\* and so does a starting broker with the seven it touches.
LEMMA BrokerStartTyped ==
  ASSUME TypeOK, BrokerStart
  PROVE  /\ broker' \in BOOLEAN /\ rails' \in BOOLEAN /\ canUnit' \in BOOLEAN
         /\ dacs' \in {"unopened", "configured", "stale"}
         /\ devid' \in {"good", "wedged"}
         /\ link' \in {"absent", "down", "up"}
         /\ timing' \in {"none", "bench", "kernel"}
         /\ canChip' \in {"set", "por"}
<1>1. CASE canUnit
  BY <1>1 DEF BrokerStart, TypeOK
<1>2. CASE ~canUnit
  <2>1. CanUpEffect
    BY <1>2 DEF BrokerStart
  <2> QED
    BY <2>1, CanUpTyped DEF BrokerStart, TypeOK
<1> QED
  BY <1>1, <1>2

\* Every variable keeps its type: the rung of the ladder and the number of
\* faults are the two that could run away.
THEOREM Typing == Spec => []TypeOK
<1> USE ActorsDiffer
<1> USE DEF TypeOK, Places, Ladder, Programming, UnderLock, Waiting, Over
<1>1. Init => TypeOK
  BY DEF Init
<1>2. TypeOK /\ [Next]_vars => TypeOK'
  <2> SUFFICES ASSUME TypeOK, [Next]_vars
               PROVE  TypeOK'
    OBVIOUS
  <2>1. CASE UNCHANGED vars
    BY <2>1 DEF vars, hardwareButDacs
  <2>2. ASSUME NEW a \in Actors, RestartBroker(a)
        PROVE  TypeOK'
    <3>1. pc' \in [Actors -> Places] /\ UNCHANGED <<lock, rung, image>>
      BY <2>2 DEF RestartBroker, Goto
    <3>2. CASE BrokerStart /\ Sound
      BY <3>1, <3>2, BrokerStartTyped DEF Sound
    <3>3. CASE /\ broker' = FALSE /\ dacs' = "unopened" /\ Faulty
               /\ UNCHANGED hardwareButDacs
      <4>1. faults' \in 0..MaxFaults
        BY <3>3 DEF Faulty
      <4>2. broker' \in BOOLEAN /\ dacs' \in {"unopened", "configured", "stale"}
        BY <3>3
      <4>3. UNCHANGED <<rails, devid, link, timing, canChip, canUnit>>
        BY <3>3 DEF hardwareButDacs
      <4> QED
        BY <3>1, <4>1, <4>2, <4>3
    <3> QED
      BY <2>2, <3>2, <3>3 DEF RestartBroker
  <2>3. ASSUME NEW a \in Actors, PsuOff(a)
        PROVE  TypeOK'
    <3>1. pc' \in [Actors -> Places] /\ faults' \in 0..MaxFaults
      BY <2>3 DEF PsuOff, Goto, Sound, Faulty
    <3>2. UNCHANGED <<lock, rung, broker, link, timing, canUnit>>
      BY <2>3 DEF PsuOff
    <3>3. CASE RailsOff
      BY <3>1, <3>2, <3>3 DEF RailsOff
    <3>4. CASE UNCHANGED <<rails, canChip, devid, dacs, image>>
      BY <3>1, <3>2, <3>4
    <3> QED
      BY <2>3, <3>3, <3>4 DEF PsuOff
  <2>4. ASSUME NEW a \in Actors, PsuOn(a) \/ Unload(a) \/ Reload(a)
        PROVE  TypeOK'
    <3>1. pc' \in [Actors -> Places] /\ faults' \in 0..MaxFaults
      BY <2>4 DEF PsuOn, Unload, Reload, Goto, Sound, Faulty
    <3>2. /\ link' \in {"absent", "down", "up"}
          /\ timing' \in {"none", "bench", "kernel"}
      BY <2>4 DEF PsuOn, Unload, Reload
    <3>3. rails' \in BOOLEAN
      BY <2>4 DEF PsuOn, Unload, Reload
    <3>4. UNCHANGED <<lock, rung, broker, dacs, devid, canChip, canUnit, image>>
      BY <2>4 DEF PsuOn, Unload, Reload
    <3> QED
      BY <3>1, <3>2, <3>3, <3>4
  <2>5. ASSUME NEW a \in Actors, CanUp(a)
        PROVE  TypeOK'
    <3>1. pc' \in [Actors -> Places] /\ faults' \in 0..MaxFaults
      BY <2>5 DEF CanUp, Goto, Sound, Faulty
    <3>2. UNCHANGED <<lock, rung, rails, broker, dacs, devid, image>>
      BY <2>5 DEF CanUp
    <3>3. CASE CanUpEffect
      BY <3>1, <3>2, <3>3, CanUpTyped
    <3>4. CASE ~CanUpEffect
      BY <2>5, <3>1, <3>2, <3>4 DEF CanUp
    <3> QED
      BY <3>3, <3>4
  <2>6. ASSUME NEW a \in Actors, FlockRecover(a) \/ Leave(a)
        PROVE  TypeOK'
    BY <2>6 DEF FlockRecover, Leave, RecoverFrom, Acquire, GiveBack, Goto, hardwareButDacs
  <2>7. ASSUME NEW a \in Actors, Killed(a)
        PROVE  TypeOK'
    BY <2>7 DEF Killed, GiveBack, Goto, Faulty, hardwareButDacs
  <2>8. ASSUME NEW j \in Jobs, JobStart(j) \/ JobVerify(j) \/ FlockRun(j) \/ SuiteEnds(j)
        PROVE  TypeOK'
    BY <2>8 DEF JobStart, JobVerify, FlockRun, SuiteEnds, Verdict, OpenDacs, Acquire,
                GiveBack, Goto, Sound, Faulty, hardwareButDacs, Actors
  <2>9. ASSUME NEW a \in Jobs \cup BareFlashers,
               Energise(a) \/ Discover(a) \/ Erase(a) \/ Write(a)
        PROVE  TypeOK'
    BY <2>9 DEF Energise, Discover, Erase, Write, GiveUp, GiveBack, Goto, Sound, Faulty,
                hardwareButDacs, Actors
  <2>10. ASSUME NEW o \in Operators, OperatorStart(o)
         PROVE  TypeOK'
    BY <2>10 DEF OperatorStart, Goto, hardwareButDacs, Actors
  <2>11. ASSUME NEW b \in BareFlashers, BareStart(b)
         PROVE  TypeOK'
    BY <2>11 DEF BareStart, Goto, hardwareButDacs, Actors
  <2>12. CASE WdVerify \/ WdTryLock \/ WdReverify \/ WdCapture \/ WdRecheck
    BY <2>12 DEF WdVerify, WdTryLock, WdReverify, WdCapture, WdRecheck, RecoverFrom,
                 Verdict, OpenDacs, Acquire, Goto, Sound, Faulty, hardwareButDacs, Actors
  <2>13. CASE DacWedges \/ CanSetMode \/ BrokerDies
    <3>1. faults' \in 0..MaxFaults
      BY <2>13 DEF DacWedges, CanSetMode, BrokerDies, Faulty
    <3>2. CASE DacWedges
      BY <3>1, <3>2 DEF DacWedges
    <3>3. CASE CanSetMode
      BY <3>1, <3>3 DEF CanSetMode
    <3>4. CASE BrokerDies
      BY <3>1, <3>4 DEF BrokerDies, hardwareButDacs
    <3> QED
      BY <2>13, <3>2, <3>3, <3>4
  <2>14. CASE SystemdRestartsBroker
    BY <2>14, BrokerStartTyped DEF SystemdRestartsBroker
  <2> QED
    BY <2>1, <2>2, <2>3, <2>4, <2>5, <2>6, <2>7, <2>8, <2>9, <2>10, <2>11, <2>12,
       <2>13, <2>14, NextSteps
<1> QED
  BY <1>1, <1>2, PTL DEF Spec

-----------------------------------------------------------------------------
\* One conjunct at a time, the steps that touch the lock or a place keep
\* Locked; the others do not mention either.
THEOREM Locking == Spec => []Locked
<1> USE ActorsDiffer
<1> USE DEF Locked, Places, Ladder, Programming, UnderLock, Waiting, Over, Actors
<1>1. Init => Locked
  BY DEF Init
<1>2. TypeOK /\ Locked /\ [Next]_vars => Locked'
  <2> SUFFICES ASSUME TypeOK, Locked, [Next]_vars
               PROVE  Locked'
    OBVIOUS
  <2>0. pc \in [Actors -> Places]
    BY DEF TypeOK
  <2>1. CASE UNCHANGED vars
    BY <2>1 DEF vars
  <2>2. ASSUME NEW a \in Actors,
               \/ RestartBroker(a) \/ PsuOff(a) \/ PsuOn(a)
               \/ Unload(a) \/ Reload(a) \/ CanUp(a)
        PROVE  Locked'
    BY <2>0, <2>2 DEF RestartBroker, PsuOff, PsuOn, Unload, Reload, CanUp, Goto
  <2>3. ASSUME NEW a \in Actors, FlockRecover(a)
        PROVE  Locked'
    BY <2>0, <2>3 DEF FlockRecover, Acquire, RecoverFrom, Goto
  <2>4. ASSUME NEW a \in Actors, Leave(a) \/ Killed(a)
        PROVE  Locked'
    BY <2>0, <2>4 DEF Leave, Killed, GiveBack, Goto
  <2>5. ASSUME NEW j \in Jobs, JobStart(j) \/ JobVerify(j) \/ FlockRun(j) \/ SuiteEnds(j)
        PROVE  Locked'
    BY <2>0, <2>5 DEF JobStart, JobVerify, FlockRun, SuiteEnds, Acquire, GiveBack, Goto
  <2>6. ASSUME NEW a \in Jobs \cup BareFlashers,
               Energise(a) \/ Discover(a) \/ Erase(a) \/ Write(a)
        PROVE  Locked'
    BY <2>0, <2>6 DEF Energise, Discover, Erase, Write, GiveUp, GiveBack, Goto
  <2>7. ASSUME NEW o \in Operators, OperatorStart(o)
        PROVE  Locked'
    BY <2>0, <2>7 DEF OperatorStart, Goto
  <2>8. CASE WdVerify \/ WdTryLock \/ WdReverify \/ WdCapture \/ WdRecheck
    BY <2>0, <2>8 DEF WdVerify, WdTryLock, WdReverify, WdCapture, WdRecheck,
                      Acquire, RecoverFrom, Goto
  <2>9. CASE DacWedges \/ CanSetMode \/ BrokerDies \/ SystemdRestartsBroker
    BY <2>9 DEF DacWedges, CanSetMode, BrokerDies, SystemdRestartsBroker
  <2>10. ASSUME NEW b \in BareFlashers, BareStart(b)
         PROVE  Locked'
    BY <2>0, <2>10 DEF BareStart, Goto
  <2> QED
    BY <2>1, <2>2, <2>3, <2>4, <2>5, <2>6, <2>7, <2>8, <2>9, <2>10, NextSteps
<1> QED
  BY <1>1, <1>2, Typing, PTL DEF Spec

-----------------------------------------------------------------------------
\* Without hand flashes outside the lock, an owner of the lock who is not the
\* writer meets no write, so cutting the rails loses none and nobody writes
\* the image a suite is judging.
THEOREM Imaging == ASSUME BareFlashers = {} PROVE Spec => []Imaged
<1> USE ActorsDiffer, BareFlashers = {}
<1> USE DEF Imaged, Actors
<1>1. Init => Imaged
  BY DEF Init
<1>2. TypeOK /\ Locked /\ Imaged /\ [Next]_vars => Imaged'
  <2> SUFFICES ASSUME TypeOK, Locked, Imaged, [Next]_vars
               PROVE  Imaged'
    OBVIOUS
  <2>0. pc \in [Actors -> Places]
    BY DEF TypeOK
  <2>a. \A a \in Actors : pc[a] \in UnderLock \cup Programming => lock = a
    BY DEF Locked
  <2>1. CASE UNCHANGED vars
    BY <2>1 DEF vars
  <2>2. ASSUME NEW a \in Actors, RestartBroker(a)
        PROVE  Imaged'
    BY <2>0, <2>2 DEF RestartBroker, BrokerStart, Goto, hardwareButDacs
  <2>3. ASSUME NEW a \in Actors, PsuOff(a)
        PROVE  Imaged'
    <3>1. lock = a
      BY <2>3, <2>a DEF PsuOff, UnderLock, Ladder
    <3>2. image # "writing"
      BY <2>3, <2>a, <3>1 DEF PsuOff, Programming
    <3>3. \A b \in Actors : pc[b] # "write"
      BY <3>2
    <3>4. UNCHANGED image
      BY <2>3, <3>2 DEF PsuOff, RailsOff
    <3>5. \A b \in Actors : pc'[b] \in {pc[b], "psuOn", "unload"}
      BY <2>0, <2>3 DEF PsuOff, Goto
    <3> QED
      BY <3>2, <3>3, <3>4, <3>5
  <2>4. ASSUME NEW a \in Actors, PsuOn(a) \/ Unload(a) \/ Reload(a) \/ CanUp(a)
        PROVE  Imaged'
    BY <2>0, <2>4 DEF PsuOn, Unload, Reload, CanUp, Goto
  <2>5. ASSUME NEW a \in Actors, FlockRecover(a) \/ Leave(a)
        PROVE  Imaged'
    BY <2>0, <2>5 DEF FlockRecover, Leave, RecoverFrom, Goto, hardwareButDacs
  <2>6. ASSUME NEW a \in Actors, Killed(a)
        PROVE  Imaged'
    BY <2>0, <2>a, <2>6 DEF Killed, Goto, hardwareButDacs, Programming
  <2>7. ASSUME NEW j \in Jobs, JobStart(j) \/ JobVerify(j) \/ SuiteEnds(j)
        PROVE  Imaged'
    BY <2>0, <2>7 DEF JobStart, JobVerify, SuiteEnds, Goto, hardwareButDacs
  <2>8. ASSUME NEW j \in Jobs, FlockRun(j)
        PROVE  Imaged'
    BY <2>0, <2>8 DEF FlockRun, Goto, hardwareButDacs
  <2>9. ASSUME NEW a \in Jobs, Energise(a) \/ Discover(a)
        PROVE  Imaged'
    BY <2>0, <2>9 DEF Energise, Discover, GiveUp, Goto, hardwareButDacs
  <2>10. ASSUME NEW a \in Jobs, Erase(a)
         PROVE  Imaged'
    <3>1. \A b \in Actors : pc[b] \in {"suite", "write"} => b = a
      BY <2>10, <2>a DEF Erase, Programming, UnderLock
    <3>2. pc[a] = "erase"
      BY <2>10 DEF Erase
    <3> QED
      BY <2>0, <2>10, <3>1, <3>2 DEF Erase, Answers, GiveUp, Goto, hardwareButDacs
  <2>11. ASSUME NEW a \in Jobs, Write(a)
         PROVE  Imaged'
    <3>1. \A b \in Actors : pc[b] \in {"suite", "write"} => b = a
      BY <2>11, <2>a DEF Write, Programming, UnderLock
    <3>2. pc[a] = "write" /\ image = "writing"
      BY <2>11 DEF Write
    <3>3. image' \in {a, "none"} /\ UNCHANGED rails
      BY <2>11, <3>2 DEF Write, hardwareButDacs
    <3>4. /\ pc'[a] \in {"suite", "failed"}
          /\ pc'[a] = "suite" => image' = a
          /\ \A b \in Actors \ {a} : pc'[b] = pc[b]
      BY <2>0, <2>11 DEF Write, GiveUp, Goto
    <3> QED
      BY <3>1, <3>3, <3>4
  <2>12. ASSUME NEW o \in Operators, OperatorStart(o)
         PROVE  Imaged'
    BY <2>0, <2>12 DEF OperatorStart, Goto, hardwareButDacs
  <2>13. CASE WdVerify \/ WdTryLock \/ WdReverify \/ WdCapture \/ WdRecheck
    BY <2>0, <2>13 DEF WdVerify, WdTryLock, WdReverify, WdCapture, WdRecheck,
                       RecoverFrom, Goto, hardwareButDacs
  <2>14. CASE DacWedges \/ CanSetMode \/ BrokerDies \/ SystemdRestartsBroker
    BY <2>14 DEF DacWedges, CanSetMode, BrokerDies, SystemdRestartsBroker, BrokerStart,
                 hardwareButDacs
  <2> QED
    BY <2>1, <2>2, <2>3, <2>4, <2>5, <2>6, <2>7, <2>8, <2>9, <2>10, <2>11, <2>12,
       <2>13, <2>14, NextSteps
<1> QED
  BY <1>1, <1>2, Typing, Locking, PTL DEF Spec

\* F-077 does not happen between parties who take the lock (bench.py:604-607,
\* 640-645; hil-test.yml:321-323).
THEOREM NoBrickUnderTheLock ==
  ASSUME BareFlashers = {} PROVE Spec => []NeverBricked
<1>1. Imaged => NeverBricked
  BY DEF Imaged, NeverBricked
<1> QED
  BY <1>1, Imaging, PTL

\* The suite of a run that brought firmware judges that firmware, whatever
\* number of runs share the bench (hil-test.yml:483-486).
THEOREM VerdictOnOwnImage ==
  ASSUME BareFlashers = {} PROVE Spec => []SuiteJudgesItsImage
<1>1. Imaged => SuiteJudgesItsImage
  BY DEF Imaged, SuiteJudgesItsImage
<1> QED
  BY <1>1, Imaging, PTL

-----------------------------------------------------------------------------
\* Behind the ladder only its climber, who holds the lock, could cut the rails
\* again; every DAC object opened meanwhile meets powered chips.
THEOREM Rebuilding == Spec => []Rebuilt
<1> USE ActorsDiffer
<1> USE DEF Rebuilt, Actors
<1>1. Init => Rebuilt
  BY DEF Init
<1>2. TypeOK /\ Locked /\ Rebuilt /\ [Next]_vars => Rebuilt'
  <2> SUFFICES ASSUME TypeOK, Locked, Rebuilt, [Next]_vars
               PROVE  Rebuilt'
    OBVIOUS
  <2>0. pc \in [Actors -> Places] /\ rung \in [Actors -> 0..2]
    BY DEF TypeOK
  <2>a. \A b \in Actors : pc[b] \in {"recheck", "leave"} => lock = b
    BY DEF Locked, UnderLock, Programming, Over
  <2>1. CASE UNCHANGED vars
    BY <2>1 DEF vars
  <2>2. ASSUME NEW a \in Actors, RestartBroker(a)
        PROVE  Rebuilt'
    BY <2>0, <2>2 DEF RestartBroker, BrokerStart, Goto, hardwareButDacs
  <2>3. ASSUME NEW a \in Actors, PsuOff(a) \/ PsuOn(a) \/ Unload(a) \/ Reload(a) \/ CanUp(a)
        PROVE  Rebuilt'
    <3>1. pc[a] \in Ladder
      BY <2>3 DEF PsuOff, PsuOn, Unload, Reload, CanUp, Ladder
    <3>2. lock = a
      BY <3>1 DEF Locked, UnderLock, Ladder, Programming, Over
    <3>3. \A b \in Actors : pc[b] \notin {"recheck", "leave"}
      BY <2>a, <3>1, <3>2 DEF UnderLock, Ladder
    <3>4. \A b \in Actors : pc'[b] \in {pc[b]} \cup Ladder
      BY <2>0, <2>3 DEF PsuOff, PsuOn, Unload, Reload, CanUp, Goto, Ladder
    <3>5. UNCHANGED rung
      BY <2>3 DEF PsuOff, PsuOn, Unload, Reload, CanUp
    <3> QED
      BY <3>3, <3>4, <3>5 DEF Ladder
  <2>4a. ASSUME NEW a \in Actors, FlockRecover(a)
         PROVE  Rebuilt'
    BY <2>0, <2>4a DEF FlockRecover, RecoverFrom, Goto, hardwareButDacs
  <2>4b. ASSUME NEW a \in Actors, Leave(a)
         PROVE  Rebuilt'
    BY <2>0, <2>4b DEF Leave, Goto, hardwareButDacs
  <2>4c. ASSUME NEW a \in Actors, Killed(a)
         PROVE  Rebuilt'
    BY <2>0, <2>4c DEF Killed, Goto, hardwareButDacs
  <2>5. ASSUME NEW j \in Jobs, JobStart(j) \/ FlockRun(j) \/ SuiteEnds(j)
        PROVE  Rebuilt'
    BY <2>0, <2>5 DEF JobStart, FlockRun, SuiteEnds, Goto, hardwareButDacs
  <2>6. ASSUME NEW j \in Jobs, JobVerify(j)
        PROVE  Rebuilt'
    <3>1. \A b \in Actors : pc'[b] \in {"recheck", "leave"} =>
                               pc'[b] = pc[b] /\ rung'[b] = rung[b]
      BY <2>0, <2>6 DEF JobVerify, Goto
    <3>2. OpenDacs /\ UNCHANGED <<broker, rails>>
      BY <2>6 DEF JobVerify, Verdict, hardwareButDacs
    <3>3. UNCHANGED <<pc[Watchdog], rung[Watchdog]>>
      BY <2>0, <2>6 DEF JobVerify, Goto
    <3> QED
      BY <3>1, <3>2, <3>3 DEF OpenDacs
  <2>7. ASSUME NEW a \in Jobs \cup BareFlashers,
               Energise(a) \/ Discover(a) \/ Erase(a) \/ Write(a)
        PROVE  Rebuilt'
    BY <2>0, <2>7 DEF Energise, Discover, Erase, Write, GiveUp, Goto, hardwareButDacs
  <2>8. ASSUME NEW o \in Operators, OperatorStart(o)
        PROVE  Rebuilt'
    BY <2>0, <2>8 DEF OperatorStart, Goto, hardwareButDacs
  <2>9. ASSUME NEW b \in BareFlashers, BareStart(b)
        PROVE  Rebuilt'
    BY <2>0, <2>9 DEF BareStart, Goto, hardwareButDacs
  <2>10. CASE WdVerify \/ WdReverify \/ WdCapture \/ WdRecheck
    <3>1. OpenDacs /\ UNCHANGED <<broker, rails>>
      BY <2>10 DEF WdVerify, WdReverify, WdCapture, WdRecheck, Verdict, hardwareButDacs
    <3>2. ASSUME NEW b \in Actors, pc'[b] \in {"recheck", "leave"}, rung'[b] > 0
          PROVE  pc[b] \in {"recheck", "leave"} /\ rung[b] > 0
      BY <2>0, <2>10, <3>2 DEF WdVerify, WdReverify, WdCapture, WdRecheck, RecoverFrom,
                               Goto
    <3>3. pc'[Watchdog] \in {"verify", "tryLock", "reverify"} => rung'[Watchdog] = 0
      BY <2>0, <2>10 DEF WdVerify, WdReverify, WdCapture, WdRecheck, RecoverFrom, Goto
    <3> QED
      BY <3>1, <3>2, <3>3 DEF OpenDacs
  <2>11. CASE WdTryLock
    BY <2>0, <2>11 DEF WdTryLock, Goto, hardwareButDacs
  <2>12. CASE DacWedges \/ CanSetMode \/ BrokerDies \/ SystemdRestartsBroker
    BY <2>12 DEF DacWedges, CanSetMode, BrokerDies, SystemdRestartsBroker, BrokerStart,
                 hardwareButDacs
  <2> QED
    BY <2>1, <2>2, <2>3, <2>4a, <2>4b, <2>4c, <2>5, <2>6, <2>7, <2>8, <2>9, <2>10,
       <2>11, <2>12, NextSteps
<1> QED
  BY <1>1, <1>2, Typing, Locking, PTL DEF Spec

\* Whoever dies, fails or waits, a ladder that ran to its end leaves no DAC
\* object older than the last reset of its chip (bench.py:699-704).
THEOREM LadderEndsFresh == Spec => []LadderLeavesNoStaleDacs
<1>1. Rebuilt => LadderLeavesNoStaleDacs
  BY DEF Rebuilt, LadderLeavesNoStaleDacs
<1> QED
  BY <1>1, Rebuilding, PTL

\* The watchdog moves on a bench somebody else owns only by looking
\* (bench.py:640-645).  What it looks at stays as it is, but for DACs nobody has
\* accessed since the broker started, which looking configures.
THEOREM WatchdogYields == Spec => WatchdogLeavesBusyBenchAlone
<1> USE ActorsDiffer
<1> DEFINE Only == /\ UNCHANGED <<hardwareButDacs, broker, lock, image>>
                   /\ dacs # "unopened" => UNCHANGED dacs
           Quiet == lock \notin {Watchdog, NoOne} /\ (WdVerify \/ pc'[Watchdog] # pc[Watchdog])
                      => Only
<1>1. TypeOK /\ Locked /\ [Next]_vars => Quiet
  <2>v. WdVerify => Only
    BY DEF WdVerify, Verdict, OpenDacs
  <2> SUFFICES ASSUME TypeOK, Locked, [Next]_vars,
                      lock \notin {Watchdog, NoOne}, pc'[Watchdog] # pc[Watchdog]
               PROVE  Only
    BY <2>v
  <2>0. pc \in [Actors -> Places] /\ Watchdog \in Actors
    BY DEF TypeOK, Actors
  <2>1. pc[Watchdog] \notin UnderLock \cup Programming
    BY <2>0 DEF Locked
  <2>2. ASSUME NEW a \in Actors,
               \/ RestartBroker(a) \/ PsuOff(a) \/ PsuOn(a)
               \/ Unload(a) \/ Reload(a) \/ CanUp(a)
        PROVE  FALSE
    <3>1. a = Watchdog
      BY <2>0, <2>2 DEF RestartBroker, PsuOff, PsuOn, Unload, Reload, CanUp, Goto
    <3> QED
      BY <2>1, <2>2, <3>1 DEF RestartBroker, PsuOff, PsuOn, Unload, Reload, CanUp,
                              UnderLock, Ladder
  <2>3. ASSUME NEW a \in Actors, FlockRecover(a)
        PROVE  FALSE
    BY <2>3 DEF FlockRecover, Acquire
  <2>4. ASSUME NEW a \in Actors, Leave(a)
        PROVE  FALSE
    BY <2>0, <2>1, <2>4 DEF Leave, Goto, UnderLock
  <2>5. ASSUME NEW a \in Actors, Killed(a)
        PROVE  Only
    BY <2>0, <2>1, <2>5 DEF Killed, GiveBack, Goto, Programming
  <2>6. ASSUME NEW a \in Actors, a # Watchdog,
               \/ JobStart(a) \/ JobVerify(a) \/ FlockRun(a) \/ SuiteEnds(a)
               \/ Energise(a) \/ Discover(a) \/ Erase(a) \/ Write(a)
               \/ OperatorStart(a) \/ BareStart(a)
        PROVE  FALSE
    BY <2>0, <2>6 DEF JobStart, JobVerify, FlockRun, SuiteEnds, Energise, Discover,
                      Erase, Write, OperatorStart, BareStart, GiveUp, Goto
  <2>7. CASE WdVerify
    BY <2>7, <2>v
  <2>7a. CASE WdTryLock \/ WdReverify \/ WdCapture \/ WdRecheck
    BY <2>1, <2>7a DEF WdTryLock, WdReverify, WdCapture, WdRecheck, Acquire,
                      UnderLock
  <2>8. CASE DacWedges \/ CanSetMode \/ BrokerDies \/ SystemdRestartsBroker
    BY <2>8 DEF DacWedges, CanSetMode, BrokerDies, SystemdRestartsBroker
  <2>9. CASE UNCHANGED vars
    BY <2>9 DEF vars
  <2>10. Jobs \cup Operators \cup BareFlashers \subseteq Actors \ {Watchdog}
    BY DEF Actors
  <2> QED
    BY <2>2, <2>3, <2>4, <2>5, <2>6, <2>7, <2>7a, <2>8, <2>9, <2>10, NextSteps
<1> QED
  BY <1>1, Typing, Locking, PTL DEF Spec, WatchdogLeavesBusyBenchAlone

-----------------------------------------------------------------------------
\* With everybody inside the lock, what the parties of a bench do is what
\* BenchLock lets its owners do: the flock is enough.
THEOREM FlockImplementsBenchLock ==
  ASSUME BareFlashers = {} PROVE Spec => KeepsBenchLock
<1> USE ActorsDiffer, BareFlashers = {}
<1> DEFINE Allowed == [Bench!Next]_(Bench!vars)
<1>1. Init => Bench!Init
  BY DEF Init, Bench!Init
<1>2. TypeOK /\ Locked /\ Imaged /\ Imaged' /\ [Next]_vars => Allowed
  <2> SUFFICES ASSUME TypeOK, Locked, Imaged, Imaged', [Next]_vars
               PROVE  Allowed
    OBVIOUS
  <2> HIDE DEF Allowed
  <2>a. pc \in [Actors -> Places] /\ Jobs \subseteq Actors /\ Watchdog \in Actors
        /\ Operators \subseteq Actors
    BY DEF TypeOK, Actors
  <2>b. \A a \in Actors : pc[a] \in UnderLock \cup Programming => lock = a
    BY DEF Locked
  <2>c. \A a \in Actors : lock = a /\ pc[a] # "write" => image # "writing"
    BY <2>b DEF Imaged, Programming
  <2>d. (UNCHANGED <<lock, rails>> /\ (image' = "writing" <=> image = "writing")) => Allowed
    BY DEF Allowed, Bench!vars
  <2>e. (UNCHANGED <<lock, image>> /\ rails' = TRUE) => Allowed
    BY DEF Allowed, Bench!Next, Bench!PowerUp
  <2>f. \A a \in Actors : lock = NoOne /\ lock' = a /\ UNCHANGED <<rails, image>> => Allowed
    BY DEF Allowed, Bench!Next, Bench!Take
  <2>g. \A a \in Actors :
          lock = a /\ lock' = NoOne /\ UNCHANGED rails /\ image' # "writing" => Allowed
    BY DEF Allowed, Bench!Next, Bench!Leave
  <2>1. CASE UNCHANGED vars
    BY <2>1, <2>d DEF vars
  <2>2. ASSUME NEW a \in Actors, RestartBroker(a) \/ PsuOn(a)
        PROVE  Allowed
    BY <2>2, <2>d, <2>e DEF RestartBroker, BrokerStart, PsuOn, hardwareButDacs
  <2>3. ASSUME NEW a \in Actors, PsuOff(a)
        PROVE  Allowed
    <3>1. lock = a /\ image # "writing" /\ UNCHANGED lock
      BY <2>3, <2>b, <2>c DEF PsuOff, UnderLock, Ladder
    <3>2. UNCHANGED image
      BY <2>3, <3>1 DEF PsuOff, RailsOff
    <3>3. CASE rails' = FALSE
      BY <3>1, <3>2, <3>3 DEF Allowed, Bench!Next, Bench!CutRails
    <3>4. CASE UNCHANGED rails
      BY <3>1, <3>2, <3>4, <2>d
    <3> QED
      BY <2>3, <3>3, <3>4 DEF PsuOff, RailsOff
  <2>4. ASSUME NEW a \in Actors, Unload(a) \/ Reload(a) \/ CanUp(a)
        PROVE  Allowed
    BY <2>4, <2>d DEF Unload, Reload, CanUp
  <2>5. ASSUME NEW a \in Actors, FlockRecover(a) \/ FlockRun(a)
        PROVE  Allowed
    BY <2>5, <2>d, <2>f DEF FlockRecover, FlockRun, Acquire, hardwareButDacs
  <2>6. ASSUME NEW a \in Actors, Leave(a) \/ SuiteEnds(a)
        PROVE  Allowed
    <3>1. lock = a /\ pc[a] # "write"
      BY <2>6, <2>b DEF Leave, SuiteEnds, UnderLock
    <3> QED
      BY <2>6, <2>c, <2>g, <3>1 DEF Leave, SuiteEnds, GiveBack, hardwareButDacs
  <2>7. ASSUME NEW a \in Actors, Killed(a)
        PROVE  Allowed
    <3>1. CASE lock = a
      BY <2>7, <2>c, <2>g, <3>1 DEF Killed, GiveBack, hardwareButDacs
    <3>2. CASE lock # a
      BY <2>7, <2>b, <2>d, <3>2 DEF Killed, GiveBack, hardwareButDacs, Programming
    <3> QED
      BY <3>1, <3>2
  <2>8. ASSUME NEW j \in Jobs, JobStart(j) \/ JobVerify(j)
        PROVE  Allowed
    BY <2>8, <2>d DEF JobStart, JobVerify, hardwareButDacs
  <2>9. ASSUME NEW a \in Jobs, Energise(a) \/ Discover(a)
        PROVE  Allowed
    <3>1. lock = a /\ image # "writing"
      BY <2>9, <2>a, <2>b, <2>c DEF Energise, Discover, Programming
    <3> QED
      BY <2>9, <2>a, <2>d, <2>g, <3>1 DEF Energise, Discover, GiveUp, GiveBack, hardwareButDacs
  <2>10. ASSUME NEW a \in Jobs, Erase(a)
         PROVE  Allowed
    <3>1. lock = a /\ image # "writing"
      BY <2>10, <2>a, <2>b, <2>c DEF Erase, Programming
    <3>2. CASE Answers
      <4>1. /\ lock = a /\ rails /\ image' = "writing"
            /\ UNCHANGED <<lock, rails>>
        BY <2>10, <3>1, <3>2 DEF Erase, Answers, hardwareButDacs
      <4> QED
        BY <2>a, <4>1 DEF Allowed, Bench!Next, Bench!BeginWrite
    <3>3. CASE ~Answers
      BY <2>10, <2>a, <2>g, <3>1, <3>3 DEF Erase, GiveUp, GiveBack, hardwareButDacs
    <3> QED
      BY <3>2, <3>3
  <2>11. ASSUME NEW a \in Jobs, Write(a)
         PROVE  Allowed
    <3>1. lock = a /\ image = "writing" /\ rails' = rails
      BY <2>11, <2>a, <2>b DEF Write, Programming, Imaged, hardwareButDacs
    <3>2. image' \in {a, "none"} /\ image' # "writing"
      BY <2>11, <2>a, <3>1 DEF Write
    <3>3. CASE lock' = lock
      BY <2>a, <3>1, <3>2, <3>3 DEF Allowed, Bench!Next, Bench!EndWrite
    <3>4. CASE lock' = NoOne
      BY <2>a, <2>g, <3>1, <3>2, <3>4
    <3> QED
      BY <2>11, <3>1, <3>3, <3>4 DEF Write, GiveUp, GiveBack
  <2>12. ASSUME NEW o \in Operators, OperatorStart(o)
         PROVE  Allowed
    BY <2>12, <2>d DEF OperatorStart, hardwareButDacs
  <2>13. CASE WdVerify \/ WdTryLock \/ WdReverify \/ WdCapture \/ WdRecheck
    BY <2>13, <2>a, <2>d, <2>f DEF WdVerify, WdTryLock, WdReverify, WdCapture, WdRecheck,
                                   Acquire, hardwareButDacs
  <2>14. CASE DacWedges \/ CanSetMode \/ BrokerDies \/ SystemdRestartsBroker
    BY <2>14, <2>d, <2>e DEF DacWedges, CanSetMode, BrokerDies, SystemdRestartsBroker,
                             BrokerStart, hardwareButDacs
  <2> QED
    BY <2>a, <2>1, <2>2, <2>3, <2>4, <2>5, <2>6, <2>7, <2>8, <2>9, <2>10, <2>11, <2>12,
       <2>13, <2>14, NextSteps
<1> QED
  BY <1>1, <1>2, Typing, Locking, Imaging, PTL DEF Spec, KeepsBenchLock, Bench!Spec
=============================================================================

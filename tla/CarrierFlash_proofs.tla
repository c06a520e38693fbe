------------------------- MODULE CarrierFlash_proofs -------------------------
(***************************************************************************)
(* That flash_dut writes the board it was told to, for every number of     *)
(* slots, kinds of DUT, node ids and page threads of the dashboard: what   *)
(* has power while a run is past its isolation, which bootloaders may be   *)
(* waiting then, and what the run has noted of the relays.                 *)
(***************************************************************************)
EXTENDS CarrierFlash, TLAPS

Late == {"isolate", "energise", "measure", "trigger", "discover", "erase", "write"}

\* What is still to be switched off is not the target.
LitShrinks ==
  /\ pc \in Late => target \notin lit
  /\ pc \in Late \ {"isolate"} => lit = {}

\* Without the dashboard only what is still to be isolated has power.
Isolated == alone /\ pc \in Late => Live \cap Seated \subseteq {target} \cup lit

\* A bootloader that waits behind the isolation has no app, or was sent there
\* by the trigger of this run.
Waiting ==
  pc \in Late =>
    \A s \in Seated \ (lit \cup {target}) :
      board[s] = "loader" => image[s] \in {"none", Dut}

\* What the run will put back is what it has found.
Noted ==
  alone =>
    /\ pc = "snapshot" => found = Live
    /\ pc \notin {"idle", "snapshot"} => /\ found = Powered(rails, TRUE, before)
                                         /\ ~driven => before = {}

FlashInv == TypeOK /\ LitShrinks /\ Isolated /\ Waiting /\ Noted

-----------------------------------------------------------------------------
\* A DUT sits in one slot.
LEMMA OneSlot == \A s, t \in Seated : Declares[s] = Declares[t] => s = t
BY CarrierConstants DEF Seated

\* The relays change: boards are dark exactly where there is no power, and none
\* that is waiting in its bootloader was not waiting before.
LEMMA SwitchShape ==
  ASSUME TypeOK, NEW r \in BOOLEAN, NEW d \in BOOLEAN, NEW l \in SUBSET Slots, Switch(r, d, l)
  PROVE  /\ rails' = r /\ driven' = d /\ latch' = l
         /\ Live' = Powered(r, d, l)
         /\ board' \in [Seated -> {"dark", "booting", "app", "loader"}]
         /\ \A s \in Seated : /\ board'[s] = "dark" <=> s \notin Live'
                              /\ board'[s] = "loader" => board[s] = "loader"
<1>1. rails' = r /\ driven' = d /\ latch' = l /\ Live' = Powered(r, d, l)
  BY DEF Switch, Live
<1> QED
  BY <1>1 DEF Switch, TypeOK

\* Every carrier is dark and no run has started.
LEMMA FlashInit == Init => FlashInv
<1> SUFFICES ASSUME Init PROVE FlashInv
  OBVIOUS
<1>1. (CHOOSE s \in Slots : TRUE) \in Slots /\ (CHOOSE s \in Seated : TRUE) \in Seated
  BY CarrierConstants DEF Seated
<1>2. Live = {}
  BY DEF Init, Live, Powered
<1>3. TypeOK
  <2>1. /\ rails \in BOOLEAN /\ driven \in BOOLEAN /\ latch \subseteq Slots
        /\ runs \in 0..MaxRuns /\ clicks \in 0..MaxClicks
    BY CarrierConstants DEF Init
  <2>2. /\ board \in [Seated -> {"dark", "booting", "app", "loader"}]
        /\ \A s \in Seated : board[s] = "dark" <=> s \notin Live
    BY <1>2 DEF Init
  <2>3. /\ page \in [Pages -> {"down", "idle", "direction", "pin"}]
        /\ asked \in [Pages -> [slot : Slots, on : BOOLEAN]]
    BY <1>1 DEF Init, Nothing
  <2>4. /\ image \in [Seated -> Duts \cup {"none"}] /\ id \in [Seated -> Ids]
        /\ pc = "idle" /\ target \in Seated /\ {restore, flashed, alone} \subseteq BOOLEAN
        /\ before \subseteq Slots /\ found \subseteq Slots /\ lit \subseteq Seated
    BY <1>1 DEF Init
  <2> QED
    BY <2>1, <2>2, <2>3, <2>4 DEF TypeOK
<1>4. LitShrinks /\ Isolated /\ Waiting /\ Noted
  BY DEF Init, LitShrinks, Isolated, Waiting, Noted, Late
<1> QED
  BY <1>3, <1>4 DEF FlashInv

\* Whatever somebody at the dashboard does to the relays, boards that wait in
\* their bootloader have waited there before.
LEMMA MeddlingKept ==
  ASSUME FlashInv, Meddles, NEW r \in BOOLEAN, NEW d \in BOOLEAN, NEW l \in SUBSET Slots,
         Switch(r, d, l),
         page' \in [Pages -> {"down", "idle", "direction", "pin"}],
         asked' \in [Pages -> [slot : Slots, on : BOOLEAN]], clicks' \in 0..MaxClicks
  PROVE  FlashInv'
<1>1. /\ rails' = r /\ driven' = d /\ latch' = l
      /\ board' \in [Seated -> {"dark", "booting", "app", "loader"}]
      /\ \A s \in Seated : /\ board'[s] = "dark" <=> s \notin Live'
                           /\ board'[s] = "loader" => board[s] = "loader"
  BY SwitchShape DEF FlashInv
<1>2. TypeOK'
  BY <1>1 DEF FlashInv, TypeOK, Meddles
<1>3. LitShrinks' /\ Isolated' /\ Noted'
  BY DEF FlashInv, LitShrinks, Isolated, Noted, Meddles
<1>4. Waiting'
  BY <1>1 DEF FlashInv, Waiting, Meddles, Dut
<1> QED
  BY <1>2, <1>3, <1>4 DEF FlashInv

\* Every step of a run, of a board and of the dashboard keeps the invariant.
LEMMA FlashKept == FlashInv /\ [Next]_vars => FlashInv'
<1> SUFFICES ASSUME FlashInv, [Next]_vars PROVE FlashInv'
  OBVIOUS
<1>0. TypeOK /\ LitShrinks /\ Isolated /\ Waiting /\ Noted
  BY DEF FlashInv
<1> USE <1>0
<1> USE DEF Keeps, Goto
<1>1. ASSUME NEW s \in Seated, Boot(s) PROVE FlashInv'
  <2>1. Live' = Live
    BY <1>1 DEF Boot, Live, expander
  <2>2. TypeOK'
    BY <1>1, <2>1 DEF Boot, TypeOK, expander, flasher, dashboard
  <2>3. LitShrinks' /\ Isolated' /\ Noted'
    BY <1>1, <2>1 DEF Boot, expander, flasher, LitShrinks, Isolated, Noted
  <2>4. Waiting'
    BY <1>1 DEF Boot, flasher, Waiting, Dut, TypeOK
  <2> QED BY <2>2, <2>3, <2>4 DEF FlashInv
<1>2. ASSUME NEW s \in Seated, NEW r \in BOOLEAN, Start(s, r) PROVE FlashInv'
  <2>1. Live' = Live /\ Live \subseteq Slots
    BY <1>2 DEF Start, Live, expander, Powered, TypeOK
  <2>2. TypeOK'
    <3>1. runs' \in 0..MaxRuns
      BY <1>2, CarrierConstants DEF Start, TypeOK
    <3> QED
      BY <1>2, <2>1, <3>1 DEF Start, TypeOK, expander, dashboard
  <2>3. LitShrinks' /\ Isolated' /\ Waiting' /\ Noted'
    BY <1>2, <2>1 DEF Start, LitShrinks, Isolated, Waiting, Noted, Late
  <2> QED BY <2>2, <2>3 DEF FlashInv
<1>3. ASSUME Snapshot PROVE FlashInv'
  <2>1. Live' = Live
    BY <1>3 DEF Snapshot, Live, expander
  <2>2. TypeOK'
    BY <1>3, <2>1 DEF Snapshot, TypeOK, expander, dashboard
  <2>3. LitShrinks' /\ Isolated' /\ Waiting'
    BY <1>3, <2>1 DEF Snapshot, LitShrinks, Isolated, Waiting, Late
  <2>4. Noted'
    BY <1>3, <2>1 DEF Snapshot, Noted, Live, Powered, expander
  <2> QED BY <2>2, <2>3, <2>4 DEF FlashInv
<1>4. ASSUME Direction PROVE FlashInv'
  <2>1. Switch(rails, TRUE, latch)
    BY <1>4 DEF Direction
  <2>2. /\ rails' = rails /\ driven' = TRUE /\ latch' = latch
        /\ board' \in [Seated -> {"dark", "booting", "app", "loader"}]
        /\ \A s \in Seated : board'[s] = "dark" <=> s \notin Live'
    BY <2>1, SwitchShape DEF TypeOK
  <2>3. TypeOK'
    BY <1>4, <2>2 DEF Direction, TypeOK, dashboard, OthersThan
  <2>4. LitShrinks' /\ Isolated' /\ Waiting' /\ Noted'
    BY <1>4, <2>2 DEF Direction, LitShrinks, Isolated, Waiting, Noted, Late, OthersThan
  <2> QED BY <2>3, <2>4 DEF FlashInv
<1>5. ASSUME Isolate PROVE FlashInv'
  <2>1. CASE lit = {}
    <3>1. Live' = Live
      BY <1>5, <2>1 DEF Isolate, Live, expander
    <3>2. TypeOK'
      BY <1>5, <2>1, <3>1 DEF Isolate, TypeOK, expander, dashboard
    <3>3. LitShrinks' /\ Isolated' /\ Waiting' /\ Noted'
      BY <1>5, <2>1, <3>1 DEF Isolate, LitShrinks, Isolated, Waiting, Noted, Late, Dut, expander
    <3> QED BY <3>2, <3>3 DEF FlashInv
  <2>2. CASE lit # {}
    <3>1. PICK s \in lit : Switch(rails, driven, latch \ {s}) /\ lit' = lit \ {s} /\ UNCHANGED pc
      BY <1>5, <2>2 DEF Isolate
    <3>2. /\ rails' = rails /\ driven' = driven /\ latch' = latch \ {s}
          /\ Live' = Powered(rails, driven, latch \ {s})
          /\ board' \in [Seated -> {"dark", "booting", "app", "loader"}]
          /\ \A b \in Seated : /\ board'[b] = "dark" <=> b \notin Live'
                               /\ board'[b] = "loader" => board[b] = "loader"
      BY <3>1, SwitchShape DEF TypeOK
    <3>3. Live' = Live \ {s}
      BY <3>2 DEF Live, Powered
    <3>4. TypeOK'
      BY <1>5, <3>1, <3>2 DEF Isolate, TypeOK, dashboard
    <3>5. LitShrinks' /\ Isolated' /\ Noted'
      BY <1>5, <3>1, <3>2, <3>3 DEF Isolate, LitShrinks, Isolated, Noted, Late, TypeOK
    <3>6. Waiting'
      <4> SUFFICES ASSUME NEW b \in Seated \ (lit' \cup {target'}), board'[b] = "loader"
                   PROVE image'[b] \in {"none", Dut'}
        BY DEF Waiting
      <4>1. b # s
        BY <3>2, <3>3
      <4> QED
        BY <4>1, <1>5, <3>1, <3>2 DEF Isolate, Waiting, Dut, Late
    <3> QED BY <3>4, <3>5, <3>6 DEF FlashInv
  <2> QED BY <2>1, <2>2
<1>6. ASSUME Energise PROVE FlashInv'
  <2>1. Switch(rails, driven, latch \cup {target}) /\ latch \cup {target} \subseteq Slots
    BY <1>6 DEF Energise, TypeOK, Seated
  <2>2. /\ rails' = rails /\ driven' = driven /\ latch' = latch \cup {target}
        /\ Live' = Powered(rails, driven, latch \cup {target})
        /\ board' \in [Seated -> {"dark", "booting", "app", "loader"}]
        /\ \A b \in Seated : /\ board'[b] = "dark" <=> b \notin Live'
                             /\ board'[b] = "loader" => board[b] = "loader"
    BY <2>1, SwitchShape DEF TypeOK
  <2>3. Live' \subseteq Live \cup {target}
    BY <2>2 DEF Live, Powered
  <2>4. TypeOK'
    BY <1>6, <2>1, <2>2 DEF Energise, TypeOK, dashboard
  <2>5. LitShrinks' /\ Isolated' /\ Noted'
    BY <1>6, <2>2, <2>3 DEF Energise, LitShrinks, Isolated, Noted, Late, TypeOK
  <2>6. Waiting'
    BY <1>6, <2>2 DEF Energise, Waiting, Late, Dut
  <2> QED BY <2>4, <2>5, <2>6 DEF FlashInv
<1>7. ASSUME Measure PROVE FlashInv'
  <2>1. Live' = Live
    BY <1>7 DEF Measure, Live, expander
  <2>2. TypeOK'
    BY <1>7, <2>1 DEF Measure, TypeOK, expander, dashboard
  <2>3. LitShrinks' /\ Isolated' /\ Waiting' /\ Noted'
    BY <1>7, <2>1 DEF Measure, LitShrinks, Isolated, Waiting, Noted, Late, Dut, expander
  <2> QED BY <2>2, <2>3 DEF FlashInv
<1>8. ASSUME Trigger PROVE FlashInv'
  <2>1. Live' = Live
    BY <1>8 DEF Trigger, Live, expander
  <2>2. PICK heard \in SUBSET {s \in Seated : board[s] = "app" /\ image[s] = Dut} :
          board' = [s \in Seated |-> IF s \in heard THEN "loader" ELSE board[s]]
    BY <1>8 DEF Trigger
  <2>3. TypeOK'
    BY <1>8, <2>1, <2>2 DEF Trigger, TypeOK, expander, dashboard
  <2>4. LitShrinks' /\ Isolated' /\ Noted'
    BY <1>8, <2>1 DEF Trigger, LitShrinks, Isolated, Noted, Late, expander
  <2>5. Waiting'
    BY <1>8, <2>2 DEF Trigger, Waiting, Late, Dut
  <2> QED BY <2>3, <2>4, <2>5 DEF FlashInv
<1>9. ASSUME Discover PROVE FlashInv'
  <2>1. Live' = Live
    BY <1>9 DEF Discover, Live, expander
  <2>2. pc' \in {"erase", "finally"}
    BY <1>9 DEF Discover
  <2>3. TypeOK'
    BY <1>9, <2>1, <2>2 DEF Discover, TypeOK, expander, dashboard
  <2>4. LitShrinks' /\ Isolated' /\ Waiting' /\ Noted'
    BY <1>9, <2>1, <2>2 DEF Discover, LitShrinks, Isolated, Waiting, Noted, Late, Dut, expander
  <2> QED BY <2>3, <2>4 DEF FlashInv
<1>10. ASSUME Erase PROVE FlashInv'
  <2>1. Live' = Live
    BY <1>10 DEF Erase, Live, expander
  <2>2. /\ pc' \in {"write", "finally"} /\ image' \in [Seated -> Duts \cup {"none"}]
        /\ \A s \in Seated : image'[s] \in {image[s], "none"}
    BY <1>10 DEF Erase, TypeOK
  <2>3. TypeOK'
    BY <1>10, <2>1, <2>2 DEF Erase, TypeOK, expander, dashboard
  <2>4. LitShrinks' /\ Isolated' /\ Waiting' /\ Noted'
    BY <1>10, <2>1, <2>2 DEF Erase, LitShrinks, Isolated, Waiting, Noted, Late, Dut, expander
  <2> QED BY <2>3, <2>4 DEF FlashInv
<1>11. ASSUME Write PROVE FlashInv'
  <2>1. Live' = Live /\ Dut \in Duts
    BY <1>11, CarrierConstants DEF Write, Live, expander, Dut, TypeOK, Seated
  <2>2. /\ pc' = "finally" /\ image' \in [Seated -> Duts \cup {"none"}] /\ flashed' \in BOOLEAN
        /\ board' \in [Seated -> {"dark", "booting", "app", "loader"}]
        /\ \A s \in Seated : board'[s] = "dark" <=> board[s] = "dark"
    <3>1. Addressed \subseteq {s \in Seated : board[s] = "loader"}
      BY DEF Addressed, Loaders
    <3>2. CASE /\ image' = [s \in Seated |-> IF s \in Addressed THEN Dut ELSE image[s]]
               /\ board' = [s \in Seated |-> IF s \in Addressed THEN "booting" ELSE board[s]]
               /\ flashed' = TRUE
      BY <1>11, <2>1, <3>1, <3>2 DEF Write, TypeOK
    <3>3. CASE UNCHANGED <<image, board, flashed>>
      BY <1>11, <3>3 DEF Write, TypeOK
    <3> QED
      BY <1>11, <3>2, <3>3 DEF Write
  <2>3. TypeOK'
    BY <1>11, <2>1, <2>2 DEF Write, TypeOK, expander, dashboard
  <2>4. LitShrinks' /\ Isolated' /\ Waiting' /\ Noted'
    BY <1>11, <2>1, <2>2 DEF Write, LitShrinks, Isolated, Waiting, Noted, Late, expander
  <2> QED BY <2>3, <2>4 DEF FlashInv
<1>12. ASSUME Finally PROVE FlashInv'
  <2>1. /\ rails' \in BOOLEAN /\ driven' \in BOOLEAN /\ latch' \subseteq Slots
        /\ board' \in [Seated -> {"dark", "booting", "app", "loader"}]
        /\ \A s \in Seated : board'[s] = "dark" <=> s \notin Live'
    BY <1>12, SwitchShape DEF Finally, TypeOK, Live, expander
  <2>2. TypeOK'
    BY <1>12, <2>1 DEF Finally, Ends, TypeOK, dashboard
  <2>3. LitShrinks' /\ Isolated' /\ Waiting' /\ Noted'
    BY <1>12 DEF Finally, Ends, LitShrinks, Isolated, Waiting, Noted, Late
  <2> QED BY <2>2, <2>3 DEF FlashInv
<1>13. ASSUME BrokerFails PROVE FlashInv'
  <2>1. Live' = Live
    BY <1>13 DEF BrokerFails, Live, expander
  <2>2. TypeOK'
    BY <1>13, <2>1 DEF BrokerFails, Ends, TypeOK, expander, dashboard
  <2>3. LitShrinks' /\ Isolated' /\ Waiting' /\ Noted'
    BY <1>13, <2>1 DEF BrokerFails, Ends, LitShrinks, Isolated, Waiting, Noted, Late, expander
  <2> QED BY <2>2, <2>3 DEF FlashInv
<1>14. ASSUME Killed PROVE FlashInv'
  <2>1. Live' = Live
    BY <1>14 DEF Killed, Live, expander
  <2>2. TypeOK'
    BY <1>14, <2>1 DEF Killed, Ends, TypeOK, expander, dashboard
  <2>3. LitShrinks' /\ Isolated' /\ Waiting' /\ Noted'
    BY <1>14, <2>1 DEF Killed, Ends, LitShrinks, Isolated, Waiting, Noted, Late
  <2> QED BY <2>2, <2>3 DEF FlashInv
<1>15. ASSUME NEW p \in Pages, NEW s \in Slots, NEW o \in BOOLEAN, AskCarrier(p, s, o) PROVE FlashInv'
  <2>1. Live' = Live
    BY <1>15 DEF AskCarrier, Live, expander
  <2>2. /\ page' \in [Pages -> {"down", "idle", "direction", "pin"}]
        /\ asked' \in [Pages -> [slot : Slots, on : BOOLEAN]] /\ clicks' \in 0..MaxClicks
    BY <1>15, CarrierConstants DEF AskCarrier, Click, At, TypeOK
  <2>3. TypeOK'
    BY <1>15, <2>1, <2>2 DEF AskCarrier, TypeOK, expander, flasher
  <2>4. LitShrinks' /\ Isolated' /\ Waiting' /\ Noted'
    BY <1>15, <2>1 DEF AskCarrier, LitShrinks, Isolated, Waiting, Noted, Dut, expander, flasher
  <2> QED BY <2>3, <2>4 DEF FlashInv
<1>16. ASSUME NEW p \in Pages, CarrierDirection(p) PROVE FlashInv'
  <2>1. /\ page' \in [Pages -> {"down", "idle", "direction", "pin"}]
        /\ asked' \in [Pages -> [slot : Slots, on : BOOLEAN]] /\ clicks' \in 0..MaxClicks
    BY <1>16 DEF CarrierDirection, At, TypeOK
  <2>2. Meddles /\ Switch(rails, TRUE, latch)
    BY <1>16 DEF CarrierDirection
  <2> QED BY <2>1, <2>2, MeddlingKept DEF TypeOK
<1>17. ASSUME NEW p \in Pages, CarrierPin(p) PROVE FlashInv'
  <2> DEFINE l == IF asked[p].on THEN latch \cup {asked[p].slot} ELSE latch \ {asked[p].slot}
  <2>1. /\ page' \in [Pages -> {"down", "idle", "direction", "pin"}]
        /\ asked' \in [Pages -> [slot : Slots, on : BOOLEAN]] /\ clicks' \in 0..MaxClicks
    <3>1. Nothing \in [slot : Slots, on : BOOLEAN]
      BY CarrierConstants DEF Nothing
    <3> QED BY <1>17, <3>1 DEF CarrierPin, Answered, At, TypeOK
  <2>2. Meddles /\ Switch(rails, driven, l) /\ l \in SUBSET Slots
    BY <1>17 DEF CarrierPin, TypeOK
  <2> HIDE DEF l
  <2> QED BY <2>1, <2>2, MeddlingKept DEF TypeOK
<1>18. ASSUME NEW p \in Pages, NEW o \in BOOLEAN, Psu(p, o) PROVE FlashInv'
  <2>1. /\ page' \in [Pages -> {"down", "idle", "direction", "pin"}]
        /\ asked' \in [Pages -> [slot : Slots, on : BOOLEAN]] /\ clicks' \in 0..MaxClicks
    BY <1>18, CarrierConstants DEF Psu, Click, TypeOK
  <2>2. Meddles /\ Switch(o, driven, latch)
    BY <1>18 DEF Psu
  <2> QED BY <2>1, <2>2, MeddlingKept DEF TypeOK
<1>19. ASSUME DashboardRestarts PROVE FlashInv'
  <2>1. /\ page' \in [Pages -> {"down", "idle", "direction", "pin"}]
        /\ asked' \in [Pages -> [slot : Slots, on : BOOLEAN]] /\ clicks' \in 0..MaxClicks
    <3>1. Nothing \in [slot : Slots, on : BOOLEAN]
      BY CarrierConstants DEF Nothing
    <3> QED BY <1>19, <3>1, CarrierConstants DEF DashboardRestarts, TypeOK
  <2>2. Meddles /\ Switch(rails, TRUE, {})
    BY <1>19 DEF DashboardRestarts
  <2> QED BY <2>1, <2>2, MeddlingKept DEF TypeOK
<1>20. CASE UNCHANGED vars
  <2>1. Live' = Live
    BY <1>20 DEF vars, Live
  <2>2. TypeOK'
    BY <1>20, <2>1 DEF vars, TypeOK
  <2>3. LitShrinks' /\ Isolated' /\ Waiting' /\ Noted'
    BY <1>20, <2>1 DEF vars, LitShrinks, Isolated, Waiting, Noted, Dut
  <2> QED BY <2>2, <2>3 DEF FlashInv
<1> QED
  BY <1>1, <1>2, <1>3, <1>4, <1>5, <1>6, <1>7, <1>8, <1>9, <1>10, <1>11, <1>12, <1>13,
     <1>14, <1>15, <1>16, <1>17, <1>18, <1>19, <1>20 DEF Next

\* flash_dut.py:217-335: between its isolation and its write a run without the
\* dashboard has nothing but the target under power, only boards without an app
\* or with the target's wait in a bootloader, and its note of the relays is true.
THEOREM Isolating == Spec => []FlashInv
<1> QED BY FlashInit, FlashKept, PTL DEF Spec

\* Every variable of CarrierFlash keeps its type, and boards are dark exactly
\* where there is no power.
THEOREM Typing == Spec => []TypeOK
<1>1. FlashInv => TypeOK
  BY DEF FlashInv
<1> QED BY <1>1, Isolating, PTL

\* flash_dut.py:23: from the boot trigger to the end of the write no carrier but
\* the target has power, as long as the dashboard leaves the relays alone.
THEOREM TargetAlone == Spec => []OnlyTargetPowered
<1>1. FlashInv => OnlyTargetPowered
  BY DEF FlashInv, OnlyTargetPowered, Isolated, LitShrinks, Late
<1> QED BY <1>1, Isolating, PTL

-----------------------------------------------------------------------------
\* Who answers to the node id of the target while it is erased or written has
\* no app of its own, and is the target when the dashboard keeps away.
LEMMA WhoAnswers ==
  ASSUME FlashInv, pc \in {"erase", "write"}, NEW s \in Addressed
  PROVE  s = target \/ (~alone /\ image[s] # Declares[s])
<1>1. s \in Seated /\ board[s] = "loader" /\ target \in Seated /\ lit = {}
  BY DEF Addressed, Loaders, FlashInv, TypeOK, LitShrinks, Late
<1>2. s # target => image[s] \in {"none", Dut}
  BY <1>1 DEF FlashInv, Waiting, Late
<1>3. s # target => Declares[s] # "none" /\ Declares[s] # Dut
  BY <1>1, OneSlot DEF Dut, Seated
<1>4. alone => s = target
  <2>1. s \in Live
    BY <1>1 DEF FlashInv, TypeOK
  <2> QED
    BY <1>1, <2>1 DEF FlashInv, Isolated, Late
<1> QED
  BY <1>2, <1>3, <1>4

\* flash_dut.py:27-33: no board but the target is erased or written, whatever
\* the node ids are and whoever answers; with the dashboard meddling at least
\* none that runs its own app.
THEOREM OthersKeepTheirApps == Spec => OnlyTargetRewritten
<1> DEFINE A == \A s \in Seated : image'[s] # image[s] =>
                  s = target \/ (~alone /\ image[s] # Declares[s])
<1>1. FlashInv /\ [Next]_vars => [A]_vars
  <2> SUFFICES ASSUME FlashInv, Next, NEW s \in Seated, image'[s] # image[s]
               PROVE  s = target \/ (~alone /\ image[s] # Declares[s])
    OBVIOUS
  <2>1. (Erase \/ Write) /\ s \in Addressed
    BY DEF Next, Boot, Start, Snapshot, Direction, Isolate, Energise, Measure, Trigger,
           Discover, Erase, Write, Finally, BrokerFails, Killed, AskCarrier, Psu,
           CarrierDirection, CarrierPin, DashboardRestarts, Meddles, FlashInv, TypeOK
  <2>2. pc \in {"erase", "write"}
    BY <2>1 DEF Erase, Write
  <2> QED
    BY <2>1, <2>2, WhoAnswers
<1>2. (Spec => [][A]_vars)
  BY <1>1, Isolating, PTL DEF Spec
<1> QED
  BY <1>2 DEF OnlyTargetRewritten

\* flash_dut.py:347-370: a run that ends by itself with --restore-relays leaves
\* the power of the carriers as it found it, at whichever step it failed, if
\* nobody has clicked at the dashboard since it began.
THEOREM RelaysPutBack == Spec => RelaysAsBefore
<1> DEFINE A == Finally /\ restore /\ alone => Powered(rails', driven', latch') = found
<1>1. FlashInv /\ [Next]_vars => [A]_vars
  <2> SUFFICES ASSUME FlashInv, Finally, restore, alone
               PROVE  Powered(rails', driven', latch') = found
    OBVIOUS
  <2>1. /\ rails' = rails /\ driven' = driven /\ latch' = before /\ pc = "finally"
    BY DEF Finally, Switch
  <2> QED
    BY <2>1 DEF FlashInv, Noted, Powered, TypeOK
<1>2. (Spec => [][A]_vars)
  BY <1>1, Isolating, PTL DEF Spec
<1> QED
  BY <1>2 DEF RelaysAsBefore
=============================================================================

---------------------------- MODULE CarrierFlash ----------------------------
(***************************************************************************)
(* tools/flash_dut.py and the carriers it powers: the relays K1-K4 behind  *)
(* a TCA9555, the boards in the slots with their bootloaders on one CAN    *)
(* bus, and the dashboard (dashboard/app.py), which switches the same      *)
(* relays and the rails behind them without asking anybody.                *)
(***************************************************************************)
EXTENDS Naturals

CONSTANTS Slots,
          Duts,
          Declares,   \* the descriptor: what each slot seats
          Ids,        \* node ids a bootloader may answer to
          ProfileId,  \* the one each DUT profile expects
          Pages,      \* request threads of the dashboard
          MaxRuns,    \* bound: runs of flash_dut
          MaxClicks   \* bound: requests to the dashboard and its restarts

ASSUME CarrierConstants ==
  /\ "none" \notin Duts
  /\ Declares \in [Slots -> Duts \cup {"none"}] /\ ProfileId \in [Duts -> Ids]
  /\ \A s, t \in Slots : Declares[s] = Declares[t] /\ Declares[s] # "none" => s = t
  /\ \E s \in Slots : Declares[s] # "none"
  /\ MaxRuns \in Nat /\ MaxClicks \in Nat

VARIABLES
  rails,   \* +12 V behind the relays
  driven,  \* port 0 of the expander is all outputs
  latch,   \* slots whose bit is set in its output register
  board,   \* "dark", "booting", "app" or "loader"
  image,   \* the DUT whose app a board holds, "none" without an app
  id,      \* the node id in the NVM of its bootloader
  pc, target, restore, before, lit, flashed,   \* a run of flash_dut
  found,   \* the carriers that had power when it started
  alone,   \* since then, nobody at the dashboard has touched the relays
  page, asked,  \* a request thread of the dashboard, and what it was asked
  runs, clicks  \* what is left of the bounds

expander == <<rails, driven, latch>>
flasher == <<pc, target, restore, before, lit, flashed, found, alone, runs>>
dashboard == <<page, asked, clicks>>
vars == <<rails, driven, latch, board, image, id, pc, target, restore, before,
          lit, flashed, found, alone, runs, page, asked, clicks>>

Seated == {s \in Slots : Declares[s] # "none"}
Dut == Declares[target]
Powered(r, d, l) == IF r /\ d THEN l ELSE {}
Live == Powered(rails, driven, latch)

TypeOK ==
  /\ rails \in BOOLEAN /\ driven \in BOOLEAN /\ latch \subseteq Slots
  /\ board \in [Seated -> {"dark", "booting", "app", "loader"}]
  /\ \A s \in Seated : board[s] = "dark" <=> s \notin Live
  /\ image \in [Seated -> Duts \cup {"none"}] /\ id \in [Seated -> Ids]
  /\ pc \in {"idle", "snapshot", "direction", "isolate", "energise", "measure",
             "trigger", "discover", "erase", "write", "finally"}
  /\ target \in Seated /\ {restore, flashed, alone} \subseteq BOOLEAN
  /\ before \subseteq Slots /\ found \subseteq Slots /\ lit \subseteq Seated
  /\ page \in [Pages -> {"down", "idle", "direction", "pin"}]
  /\ asked \in [Pages -> [slot : Slots, on : BOOLEAN]]
  /\ runs \in 0..MaxRuns /\ clicks \in 0..MaxClicks

Nothing == [slot |-> CHOOSE s \in Slots : TRUE, on |-> FALSE]

\* Every carrier is dark: the dashboard has started, or the expander is fresh
\* from its reset and the dashboard is down.  Node ids drift, and a board may
\* hold no app, or an app of the other kind.
Init ==
  /\ rails = TRUE
  /\ driven \in BOOLEAN /\ latch = IF driven THEN {} ELSE Slots
  /\ board = [s \in Seated |-> "dark"]
  /\ image \in [Seated -> Duts \cup {"none"}] /\ id \in [Seated -> Ids]
  /\ pc = "idle" /\ target = (CHOOSE s \in Seated : TRUE) /\ restore = FALSE /\ flashed = FALSE
  /\ alone = TRUE
  /\ before = {} /\ found = {} /\ lit = {}
  /\ page = [p \in Pages |-> IF driven THEN "idle" ELSE "down"]
  /\ asked = [p \in Pages |-> Nothing]
  /\ runs = MaxRuns /\ clicks = MaxClicks

-----------------------------------------------------------------------------
(* The boards.                                                             *)

\* The relays change; a board that gets power boots, one that loses it stops.
Switch(r, d, l) ==
  /\ rails' = r /\ driven' = d /\ latch' = l
  /\ board' = [s \in Seated |-> IF s \notin Powered(r, d, l) THEN "dark"
                                ELSE IF board[s] = "dark" THEN "booting"
                                ELSE board[s]]

\* A bootloader starts the app it finds, and stays if there is none.
Boot(s) ==
  /\ board[s] = "booting"
  /\ board' = [board EXCEPT ![s] = IF image[s] = "none" THEN "loader" ELSE "app"]
  /\ UNCHANGED <<expander, image, id, flasher, dashboard>>

-----------------------------------------------------------------------------
(* flash().                                                                *)

Goto(l) == pc' = l
Keeps == UNCHANGED <<target, restore, found, alone, runs>>

\* The locals of a run end with it.
Ends == /\ pc' = "idle"
        /\ before' = {} /\ lit' = {} /\ found' = {} /\ restore' = FALSE
        /\ flashed' = FALSE /\ alone' = TRUE
        /\ UNCHANGED <<target, runs>>

\* Image, capability and flasher version are checked before this.
Start(s, r) ==
  /\ pc = "idle" /\ runs > 0
  /\ runs' = runs - 1
  /\ target' = s /\ restore' = r /\ found' = Live /\ alone' = TRUE
  /\ Goto("snapshot")
  /\ UNCHANGED <<before, lit, flashed, expander, board, image, id, dashboard>>

\* tca.read_port reads the pins: those of a port of inputs are low.
Snapshot ==
  /\ pc = "snapshot"
  /\ before' = IF driven THEN latch ELSE {}
  /\ Goto("direction") /\ Keeps
  /\ UNCHANGED <<lit, flashed, expander, board, image, id, dashboard>>

\* other_dut_slots: by slot, never by node id.
OthersThan(s) == Seated \ {s}

\* Mutant: only a carrier whose profile declares the same node id is a danger.
DirectionByNodeId ==
  /\ pc = "direction"
  /\ Switch(rails, TRUE, latch)
  /\ lit' = {s \in OthersThan(target) : ProfileId[Declares[s]] = ProfileId[Dut]}
  /\ Goto("isolate") /\ Keeps
  /\ UNCHANGED <<before, flashed, image, id, dashboard>>

\* Mutant: the slots without a DUT are cycled too.
DirectionAllSlots ==
  /\ pc = "direction"
  /\ Switch(rails, TRUE, latch)
  /\ lit' = Slots \ {target}
  /\ Goto("isolate") /\ Keeps
  /\ UNCHANGED <<before, flashed, image, id, dashboard>>

\* set_direction first: the output register of a fresh expander then drives
\* every relay until the writes that follow.
Direction ==
  /\ pc = "direction"
  /\ Switch(rails, TRUE, latch)
  /\ lit' = OthersThan(target)
  /\ Goto("isolate") /\ Keeps
  /\ UNCHANGED <<before, flashed, image, id, dashboard>>

Isolate ==
  /\ pc = "isolate"
  /\ IF lit = {}
     THEN Goto("energise") /\ UNCHANGED <<lit, expander, board>>
     ELSE \E s \in lit : /\ Switch(rails, driven, latch \ {s})
                         /\ lit' = lit \ {s}
                         /\ UNCHANGED pc
  /\ Keeps /\ UNCHANGED <<before, flashed, image, id, dashboard>>

Energise ==
  /\ pc = "energise"
  /\ Switch(rails, driven, latch \cup {target})
  /\ Goto("measure") /\ Keeps
  /\ UNCHANGED <<before, lit, flashed, image, id, dashboard>>

\* The current tells a powered carrier, unless its fuse has blown.
Measure ==
  /\ pc = "measure"
  /\ \/ target \in Live /\ Goto("trigger")
     \/ Goto("finally")
  /\ Keeps /\ UNCHANGED <<before, lit, flashed, expander, board, image, id, dashboard>>

\* After the wait for a first frame, which gives up and goes on.  An app hears
\* the trigger of its own DUT, if it listens at all.
Trigger ==
  /\ pc = "trigger"
  /\ \E heard \in SUBSET {s \in Seated : board[s] = "app" /\ image[s] = Dut} :
       board' = [s \in Seated |-> IF s \in heard THEN "loader" ELSE board[s]]
  /\ Goto("discover") /\ Keeps
  /\ UNCHANGED <<before, lit, flashed, expander, image, id, dashboard>>

Loaders == {s \in Seated : board[s] = "loader"}

\* A broadcast; a row names the app's product, if there is an app.
Discover ==
  /\ pc = "discover"
  /\ \E rows \in SUBSET Loaders :
       Goto(IF \E s \in Slots : rows = {s} /\ image[s] \in {Dut, "none"}
            THEN "erase" ELSE "finally")
  /\ Keeps /\ UNCHANGED <<before, lit, flashed, expander, board, image, id, dashboard>>

Addressed == {s \in Loaders : id[s] = ProfileId[Dut]}

\* can-flasher connects to the id of the profile and erases.
Erase ==
  /\ pc = "erase"
  /\ IF Addressed = {} THEN Goto("finally") /\ UNCHANGED image
     ELSE /\ Goto("write")
          /\ image' = [s \in Seated |-> IF s \in Addressed THEN "none" ELSE image[s]]
  /\ Keeps /\ UNCHANGED <<before, lit, flashed, expander, board, id, dashboard>>

\* Written, verified and started; or a NACK, and no app.
Write ==
  /\ pc = "write"
  /\ Goto("finally") /\ Keeps
  /\ \/ /\ Addressed # {}
        /\ image' = [s \in Seated |-> IF s \in Addressed THEN Dut ELSE image[s]]
        /\ board' = [s \in Seated |-> IF s \in Addressed THEN "booting" ELSE board[s]]
        /\ flashed' = TRUE
     \/ UNCHANGED <<image, board, flashed>>
  /\ UNCHANGED <<before, lit, expander, id, dashboard>>

\* Mutant: relays are put back only after a flash that worked.
FinallyIfFlashed ==
  /\ pc = "finally"
  /\ IF restore /\ flashed THEN Switch(rails, driven, before)
                           ELSE UNCHANGED <<expander, board>>
  /\ Ends
  /\ UNCHANGED <<image, id, dashboard>>

\* The bench stays isolated unless --restore-relays.
Finally ==
  /\ pc = "finally"
  /\ IF restore THEN Switch(rails, driven, before) ELSE UNCHANGED <<expander, board>>
  /\ Ends
  /\ UNCHANGED <<image, id, dashboard>>

\* A call of the broker raises.  Before the snapshot there is nothing to undo.
BrokerFails ==
  /\ pc \in {"snapshot", "direction", "isolate", "energise", "measure"}
  /\ IF pc = "snapshot" THEN Ends
     ELSE Goto("finally") /\ Keeps /\ UNCHANGED <<before, lit, flashed>>
  /\ UNCHANGED <<expander, board, image, id, dashboard>>

\* A killed runner runs no finally clause, and one without a broker by then
\* puts nothing back.
Killed ==
  /\ pc # "idle"
  /\ Ends
  /\ UNCHANGED <<expander, board, image, id, dashboard>>

-----------------------------------------------------------------------------
(* The dashboard.                                                          *)

Click(p) == /\ page[p] = "idle" /\ clicks > 0
            /\ clicks' = clicks - 1
At(p, l) == page' = [page EXCEPT ![p] = l]
Answered(p) == At(p, "idle") /\ asked' = [asked EXCEPT ![p] = Nothing]
Meddles == /\ alone' = FALSE
           /\ UNCHANGED <<image, id, pc, target, restore, before, lit, flashed, found, runs>>

AskCarrier(p, s, on) ==
  /\ Click(p)
  /\ asked' = [asked EXCEPT ![p] = [slot |-> s, on |-> on]]
  /\ At(p, "direction")
  /\ UNCHANGED <<expander, board, image, id, flasher>>

CarrierDirection(p) ==
  /\ page[p] = "direction"
  /\ Switch(rails, TRUE, latch)
  /\ At(p, "pin")
  /\ Meddles /\ UNCHANGED <<asked, clicks>>

CarrierPin(p) ==
  /\ page[p] = "pin"
  /\ Switch(rails, driven, IF asked[p].on THEN latch \cup {asked[p].slot}
                                          ELSE latch \ {asked[p].slot})
  /\ Answered(p)
  /\ Meddles /\ UNCHANGED clicks

\* psu_power.  What the dashboard remembers of it is in Dashboard.
Psu(p, on) ==
  /\ Click(p)
  /\ Switch(on, driven, latch)
  /\ Meddles /\ UNCHANGED <<page, asked>>

\* _init_relays of a dashboard that starts again.
DashboardRestarts ==
  /\ clicks > 0 /\ Pages # {}
  /\ clicks' = clicks - 1
  /\ page' = [p \in Pages |-> "idle"]
  /\ Switch(rails, TRUE, {})
  /\ asked' = [p \in Pages |-> Nothing]
  /\ Meddles

-----------------------------------------------------------------------------
Next ==
  \/ \E s \in Seated : Boot(s) \/ \E r \in BOOLEAN : Start(s, r)
  \/ Snapshot \/ Direction \/ Isolate \/ Energise \/ Measure \/ Trigger
  \/ Discover \/ Erase \/ Write \/ Finally
  \/ BrokerFails \/ Killed
  \/ \E p \in Pages : \/ \E s \in Slots, on \in BOOLEAN : AskCarrier(p, s, on)
                      \/ \E on \in BOOLEAN : Psu(p, on)
                      \/ CarrierDirection(p) \/ CarrierPin(p)
  \/ DashboardRestarts

Spec == Init /\ [][Next]_vars

-----------------------------------------------------------------------------
(* Properties.                                                             *)

\* flash_dut.py:23: "only the carrier being flashed is powered", from the
\* moment the boot trigger is sent until the image is written, as long as
\* nobody at the dashboard touches the relays meanwhile.
OnlyTargetPowered ==
  alone /\ pc \in {"trigger", "discover", "erase", "write"} => Live \cap Seated \subseteq {target}

\* flash_dut.py:27-33: whatever ids the bootloaders answer to and whichever of
\* them answer, no board but the target is erased or written; and when the
\* dashboard meddles, at least none that runs its own app.
OnlyTargetRewritten ==
  [][\A s \in Seated : image'[s] # image[s] =>
       s = target \/ (~alone /\ image[s] # Declares[s])]_vars

\* flash_dut.py:347-370: a run with --restore-relays that gets to its end
\* leaves the relays as it found them, at whichever step it failed, if nobody
\* has clicked at the dashboard since it began.
RelaysAsBefore == [][Finally /\ restore /\ alone => Powered(rails', driven', latch') = found]_vars
=============================================================================

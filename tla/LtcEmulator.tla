----------------------------- MODULE LtcEmulator -----------------------------
(***************************************************************************)
(* The Pico that stands in for the LTC6811 chain                           *)
(* (tools/pico_ltc_emulator/firmware/src): an SPI slave whose FIFOs are    *)
(* fed by a polled main loop, which also serves a USB console.  The AMS    *)
(* clocks transactions whenever it likes; while the loop is inside         *)
(* usb_cmd_service nobody feeds the FIFOs or sees an edge of CS.           *)
(*                                                                         *)
(* The bus is modelled in words of two bytes: a command is two words (its  *)
(* opcode and its PEC), the answer of one chip four (the last is a PEC).   *)
(***************************************************************************)
EXTENDS Naturals, Sequences

CONSTANTS
  NChips,      \* LTC_CHAIN_LEN
  PerModule,   \* chips of one AMS module
  Groups,      \* the reads of cell voltages, RDCVA to RDCVD
  Channels,    \* of the ADG731
  Channel0,    \* the one selected after boot
  Levels,      \* what a cell or a sensor may be set to
  Seed,        \* DEFAULT_CELL_MV and DEFAULT_TEMP_DC
  FirstRead,   \* RDCVA
  UsbWords,    \* bound: words the AMS clocks during one call of usb_cmd_service
  MaxXacts,    \* bound: transactions of the AMS
  MaxConsole,  \* bound: commands of the console
  MaxAborts    \* bound: transactions cut short by a loss of power

ASSUME LtcBounds == /\ NChips \in Nat \ {0} /\ PerModule \in Nat \ {0}
                    /\ Channel0 \in Channels /\ Seed \in Levels
                    /\ FirstRead \in Groups
                    /\ UsbWords \in Nat
                    /\ MaxXacts \in Nat /\ MaxConsole \in Nat /\ MaxAborts \in Nat

Chips == 0..(NChips - 1)
Module(chip) == chip \div PerModule
Modules == {Module(chip) : chip \in Chips}
Reads == Groups \cup {"RDAUXA"}

\* ADCV stands for the commands without data, RDSTATA for those with data that
\* the emulator neither answers nor looks at: WRCFGA, RDCFGA, RDSTATA, RDSID...
Commands == Reads \cup {"ADCV", "RDSTATA", "WRCOMM"}

\* A word of one kind is none of another.
ASSUME LtcWords == /\ Groups \cap {"RDAUXA", "ADCV", "RDSTATA", "WRCOMM"} = {}
                   /\ Channels \cap (Commands \cup {"fill", "none"}) = {}

CommandWords == 2
ChunkWords == 4
DataWords == NChips * ChunkWords
Words(c) == IF c = "ADCV" THEN CommandWords ELSE CommandWords + DataWords
FifoWords == 4   \* both FIFOs are joined: eight bytes

VARIABLES
  cells, temps,       \* g_state
  pool,               \* response_pool
  current,            \* current_response
  stopMask,           \* g_stop_module_mask
  mux,                \* g_adg731_ch
  txIdx,              \* tx_data_idx
  rxCount,            \* rx_snap_idx
  parsed,             \* cmd_parsed_this_xact
  snooping,           \* is_wrcomm_xact
  wasLow,             \* cs_was_low
  cpu,                \* where the main loop is
  console,            \* commands of the console so far
  busy,               \* words clocked since usb_cmd_service was entered
  tx, rx,             \* the FIFOs of the two state machines
  skewed,             \* the transmitter is off by a part of a word
  cs, cmd, sel,       \* the transaction of the AMS, and a selector it carries
  clocked,            \* words of it so far
  line,               \* the words of one chip's answer as the AMS has them
  xacts, aborts,      \* transactions so far, and those cut short
  usbNow, usbBefore,  \* this and the previous one met a call of usb_cmd_service
  before,             \* what the register read had when the transaction began
  chosen, heard       \* the channel last selected, and whether it had to work

setting == <<cells, temps, pool, stopMask>>
framing == <<current, mux, txIdx, rxCount, parsed, snooping, wasLow>>
usb == <<cpu, console, busy>>
wires == <<tx, rx, skewed>>
ams == <<cs, cmd, sel, clocked, line, xacts, aborts, usbNow, usbBefore, before,
         chosen, heard>>
vars == <<cells, temps, pool, stopMask, current, mux, txIdx, rxCount, parsed, snooping,
          wasLow, cpu, console, busy, tx, rx, skewed, cs, cmd, sel, clocked, line,
          xacts, aborts, usbNow, usbBefore, before, chosen, heard>>

\* A word of an answer: whose it is, of which register group, with what in it,
\* and which of the four.  A PEC fits the other words if all agree.
Word(r, chip, level, part) == <<r, chip, level, part>>
Filler == Word("FF", 0, Seed, 0)
Pads == <<Filler, Filler>>
Fits(ws) == /\ Len(ws) = ChunkWords
            /\ \A i \in 1..ChunkWords :
                 ws[i] = Word(ws[1][1], ws[1][2], ws[1][3], i)

\* build_one_response for one register group.
Response(r, cs_, ts, ch) == [chip \in Chips |-> IF r = "RDAUXA" THEN ts[chip][ch]
                                                ELSE cs_[chip][r]]
AllResponses(cs_, ts, ch) == [r \in Reads |-> Response(r, cs_, ts, ch)]

Default(S) == [chip \in Chips |-> [x \in S |-> Seed]]

\* What is under way in either direction.
Answers == (Reads \cup {"FF"}) \X Chips \X Levels \X (0..ChunkWords)
Orders == Commands \cup Channels \cup {"fill", "none"}

TypeOK ==
  /\ cells \in [Chips -> [Groups -> Levels]] /\ temps \in [Chips -> [Channels -> Levels]]
  /\ pool \in [Reads -> [Chips -> Levels]] /\ current \in Reads
  /\ stopMask \subseteq Modules /\ mux \in Channels
  /\ txIdx \in 0..DataWords /\ rxCount \in 0..(CommandWords + DataWords)
  /\ parsed \in BOOLEAN /\ snooping \in BOOLEAN /\ wasLow \in BOOLEAN
  /\ cpu \in {"loop", "usb", "replying"} /\ console \in 0..MaxConsole
  /\ busy \in 0..UsbWords
  /\ tx \in Seq(Answers) /\ Len(tx) <= FifoWords
  /\ rx \in Seq(Orders) /\ Len(rx) <= FifoWords /\ skewed \in BOOLEAN
  /\ cs \in {"high", "low"} /\ cmd \in Commands /\ sel \in Channels \cup {"none"}
  /\ clocked \in 0..Words(cmd) /\ line \in Seq(Answers) /\ Len(line) <= ChunkWords
  /\ xacts \in 0..MaxXacts
  /\ aborts \in 0..MaxAborts
  /\ usbNow \in BOOLEAN /\ usbBefore \in BOOLEAN
  /\ before \in [Chips -> Levels]
  /\ chosen \in Channels /\ heard \in BOOLEAN

Init ==
  /\ cells = Default(Groups) /\ temps = Default(Channels)
  /\ pool = AllResponses(cells, temps, Channel0)
  /\ current = FirstRead /\ stopMask = {} /\ mux = Channel0
  /\ txIdx = 0 /\ rxCount = 0
  /\ parsed = FALSE /\ snooping = FALSE /\ wasLow = FALSE
  /\ cpu = "loop" /\ console = 0 /\ busy = 0
  /\ tx = Pads /\ rx = <<>> /\ skewed = FALSE
  /\ cs = "high" /\ cmd = "ADCV" /\ sel = "none" /\ clocked = 0 /\ line = <<>>
  /\ xacts = 0 /\ aborts = 0 /\ usbNow = FALSE /\ usbBefore = FALSE
  /\ before = [chip \in Chips |-> Seed]
  /\ chosen = Channel0 /\ heard = TRUE

-----------------------------------------------------------------------------
(* ltc6811_emu_service.                                                    *)

\* What is pushed at index i of the data: maybe_suppress_data of the byte.
Data(i) == LET chip == i \div ChunkWords
           IN  IF Module(chip) \in stopMask THEN Filler
               ELSE Word(current, chip, pool[current][chip], (i % ChunkWords) + 1)

\* Mutant: the answer of chip 0 is loaded ahead, as before issue 116.
RiseLoadsAhead ==
  /\ cpu = "loop" /\ wasLow /\ cs = "high"
  /\ tx' = Pads \o <<Data(0), Data(1)>> /\ rx' = <<>> /\ skewed' = FALSE
  /\ txIdx' = 2 /\ rxCount' = 0 /\ parsed' = FALSE /\ snooping' = FALSE
  /\ wasLow' = FALSE
  /\ UNCHANGED <<current, mux, setting, usb, ams>>

\* Mutant: the flag of the decoded command outlives its transaction.
RiseKeepsParsed ==
  /\ cpu = "loop" /\ wasLow /\ cs = "high"
  /\ tx' = Pads /\ rx' = <<>> /\ skewed' = FALSE
  /\ txIdx' = 0 /\ rxCount' = 0 /\ snooping' = FALSE /\ wasLow' = FALSE
  /\ UNCHANGED <<current, mux, parsed, setting, usb, ams>>

\* CS has risen since the last look: the tail of the reception is dropped, the
\* FIFOs and the state machines are reset and the pad is loaded.
Rise ==
  /\ cpu = "loop" /\ wasLow /\ cs = "high"
  /\ tx' = Pads /\ rx' = <<>> /\ skewed' = FALSE
  /\ txIdx' = 0 /\ rxCount' = 0 /\ parsed' = FALSE /\ snooping' = FALSE
  /\ wasLow' = FALSE
  /\ UNCHANGED <<current, mux, setting, usb, ams>>

Least(a, b) == IF a <= b THEN a ELSE b
\* Mutant: the room in the FIFO is not asked for.
RoomUnchecked == IF cs = "low" /\ parsed THEN DataWords - txIdx ELSE 0

Room == IF cs = "low" /\ parsed THEN Least(FifoWords - Len(tx), DataWords - txIdx) ELSE 0

\* The opcode is decoded where it ends, once per transaction: parse_ltc_cmd.
\* A switch without a break makes a WRCOMM of every command it lists so, and
\* a command without an answer leaves current as it is.
Decoded == IF ~parsed /\ rx # <<>> /\ rx[1] \in Reads THEN rx[1] ELSE current
Snooped == \/ snooping
           \/ ~parsed /\ rx # <<>> /\ rx[1] \in {"RDSTATA", "WRCOMM"}

\* The selector is looked for in bytes 5 and 6 of the reception.  The null
\* write of the AMS (icom 0xF) and the fill of a read are none.
Selected ==
  LET i == CommandWords + 1 - rxCount
  IN  IF i \in DOMAIN rx /\ Snooped /\ rx[i] \in Channels THEN rx[i] ELSE mux

\* No edge of CS: feed the transmitter, then drain and decode the reception.
Serve ==
  /\ cpu = "loop" /\ ~(wasLow /\ cs = "high")
  /\ wasLow' = (cs = "low")
  /\ tx' = tx \o [k \in 1..Room |-> Data(txIdx + k - 1)]
  /\ txIdx' = txIdx + Room
  /\ current' = Decoded /\ parsed' = (parsed \/ rx # <<>>)
  /\ snooping' = Snooped
  /\ mux' = Selected
  /\ pool' = [pool EXCEPT !["RDAUXA"] =
                IF Selected = mux THEN @ ELSE Response("RDAUXA", cells, temps, Selected)]
  /\ rxCount' = Least(rxCount + Len(rx), CommandWords + DataWords) /\ rx' = <<>>
  /\ UNCHANGED <<cells, temps, stopMask, skewed, usb, ams>>

\* A further call would change nothing.
Settled == wasLow = (cs = "low") /\ rx = <<>> /\ Room = 0

Service == ~Settled /\ (Rise \/ Serve)

-----------------------------------------------------------------------------
(* usb_cmd_service: entered while CS is high, left when it is done.  One   *)
(* byte is taken per call, and the last byte of a line runs its command.   *)

EnterUsb == /\ cpu = "loop" /\ Settled /\ cs = "high"
            /\ cpu' = "usb"
            /\ UNCHANGED <<console, busy, setting, framing, wires, ams>>

LeaveUsb == /\ cpu # "loop"
            /\ cpu' = "loop" /\ busy' = 0
            /\ UNCHANGED <<console, setting, framing, wires, ams>>

Console == /\ cpu = "usb" /\ console < MaxConsole
           /\ cpu' = "replying" /\ console' = console + 1
           /\ UNCHANGED busy

\* SET_CELL and SET_TEMP; the bulk writes do the same to every chip.
SetCell(chip, r, level) ==
  /\ Console
  /\ cells' = [cells EXCEPT ![chip][r] = level]
  /\ pool' = AllResponses(cells', temps, mux)
  /\ UNCHANGED <<temps, stopMask, framing, wires, ams>>

\* Mutant: the prebuilt answers are not refreshed.
SetTempOnly(chip, ch, level) ==
  /\ Console
  /\ temps' = [temps EXCEPT ![chip][ch] = level]
  /\ UNCHANGED <<cells, pool, stopMask, framing, wires, ams>>

SetTemp(chip, ch, level) ==
  /\ Console
  /\ temps' = [temps EXCEPT ![chip][ch] = level]
  /\ pool' = AllResponses(cells, temps', mux)
  /\ UNCHANGED <<cells, stopMask, framing, wires, ams>>

StopReply(mask) ==
  /\ Console
  /\ stopMask' = mask
  /\ UNCHANGED <<cells, temps, pool, framing, wires, ams>>

\* Mutant: RESET_STATE also forgets the channel.
ResetForgetsChannel ==
  /\ Console
  /\ cells' = Default(Groups) /\ temps' = Default(Channels) /\ stopMask' = {}
  /\ mux' = Channel0
  /\ pool' = AllResponses(cells', temps', Channel0)
  /\ UNCHANGED <<current, txIdx, rxCount, parsed, snooping, wasLow, wires, ams>>

\* RESET_STATE: cells, temperatures and mask, and not the channel.
ResetState ==
  /\ Console
  /\ cells' = Default(Groups) /\ temps' = Default(Channels) /\ stopMask' = {}
  /\ pool' = AllResponses(cells', temps', mux)
  /\ UNCHANGED <<framing, wires, ams>>

-----------------------------------------------------------------------------
(* The AMS and the state machines.  A word takes 20 us and a turn of the   *)
(* loop far less, so the loop settles between two of them.                 *)

Tick == cpu = "loop" => Settled

CsFall(c, s) ==
  /\ Tick /\ cs = "high" /\ xacts < MaxXacts
  /\ xacts' = xacts + 1
  /\ cs' = "low" /\ cmd' = c /\ sel' = s /\ clocked' = 0 /\ line' = <<>>
  /\ usbBefore' = usbNow /\ usbNow' = (cpu # "loop")
  /\ before' = IF c \in Reads THEN Response(c, cells, temps, mux) ELSE before
  /\ UNCHANGED <<aborts, chosen, heard, setting, framing, usb, wires>>

\* What the AMS shifts out as its n-th word.
Sent(n) == IF n = 1 THEN cmd
           ELSE IF n = CommandWords + 1 /\ cmd = "WRCOMM" THEN sel ELSE "fill"

\* One word each way.  An empty FIFO stalls the transmitter, which goes on in
\* the middle of a word or, with luck, at the start of one; what does not fit
\* the receiver is lost.
Clock ==
  /\ Tick /\ cs = "low" /\ clocked < Words(cmd)
  /\ clocked' = clocked + 1
  /\ IF cpu = "loop" THEN UNCHANGED busy ELSE busy < UsbWords /\ busy' = busy + 1
  /\ tx' = IF tx = <<>> THEN tx ELSE Tail(tx)
  /\ skewed' \in IF tx = <<>> THEN {skewed, TRUE} ELSE {skewed}
  /\ rx' = IF Len(rx) < FifoWords THEN Append(rx, Sent(clocked')) ELSE rx
  /\ line' = IF cmd \in Reads /\ clocked >= CommandWords
             THEN Append(IF Len(line) = ChunkWords THEN <<>> ELSE line,
                         IF tx = <<>> \/ skewed THEN Filler ELSE Head(tx))
             ELSE line
  /\ IF Sent(clocked') \in Channels THEN chosen' = sel /\ heard' = ~usbBefore
                                    ELSE UNCHANGED <<chosen, heard>>
  /\ UNCHANGED <<cs, cmd, sel, xacts, aborts, usbNow, usbBefore, before,
                 setting, framing, cpu, console>>

\* At its end, or early because the carrier loses its power.
CsRise ==
  /\ Tick /\ cs = "low"
  /\ \/ clocked = Words(cmd) /\ UNCHANGED aborts
     \/ clocked < Words(cmd) /\ aborts < MaxAborts /\ aborts' = aborts + 1
  /\ cs' = "high" /\ cmd' = "ADCV" /\ sel' = "none" /\ clocked' = 0 /\ line' = <<>>
  /\ before' = [chip \in Chips |-> Seed]
  /\ UNCHANGED <<xacts, usbNow, usbBefore, chosen, heard,
                 setting, framing, usb, wires>>

Next ==
  \/ Service
  \/ EnterUsb \/ LeaveUsb
  \/ \E chip \in Chips, level \in Levels :
       \/ \E r \in Groups : SetCell(chip, r, level)
       \/ \E ch \in Channels : SetTemp(chip, ch, level)
  \/ \E mask \in SUBSET Modules : StopReply(mask)
  \/ ResetState
  \/ \E c \in Commands \ {"WRCOMM"} : CsFall(c, "none")
  \/ \E s \in Channels \cup {"none"} : CsFall("WRCOMM", s)
  \/ Clock \/ CsRise

Spec == Init /\ [][Next]_vars

-----------------------------------------------------------------------------
(* Properties.                                                             *)

Complete == cs = "low" /\ Len(line) = ChunkWords
Position == (clocked - CommandWords - 1) \div ChunkWords

\* ltc6811_emu.c:68-75, issue 116: an answer whose PEC fits is of the register
\* that was asked for and not of the command before, whatever the console was
\* doing; a late feed may shift it down the chain.  Only a transaction that
\* follows one which met the console is excepted.
AnswersItsCommand ==
  Complete /\ Fits(line) /\ ~usbBefore =>
    LET chip == line[1][2]
    IN  /\ line[1][1] = cmd /\ chip <= Position
        /\ line[1][3] \in {before[chip], Response(cmd, cells, temps, mux)[chip]}

\* One transaction without the console in it puts everything right: in the
\* next one every chip answers, with what was set for it and for the selected
\* channel, except those of the stopped modules, whose PEC never fits.
NextOneIsRight ==
  Complete /\ ~usbBefore /\ ~usbNow =>
    IF Module(Position) \in stopMask THEN ~Fits(line)
    ELSE Fits(line) /\ line[1] = Word(cmd, Position, Response(cmd, cells, temps, mux)[Position], 1)

\* A selector written after such a transaction is followed, even one that the
\* console overlaps, and nothing but a selector changes the channel.
SelectorIsKept == cpu = "loop" /\ Settled /\ heard => mux = chosen

\* docs/pico_ltc_emulator.md:96-98: "when the first chip's payload is a real
\* mux write", RDAUXA "switches to the temperature stored for that channel".
SelectorIsFollowed == cpu = "loop" /\ Settled /\ cs = "high" => mux = chosen
=============================================================================

------------------------------ MODULE Dashboard ------------------------------
(***************************************************************************)
(* The dashboard (dashboard/app.py) on the drivers of the broker           *)
(* (broker/bus.py, tools/tca9555.py, tools/dac80504.py): request threads,  *)
(* the thread that polls the hardware, and a tool that calls the broker    *)
(* beside them.  What a page shows of the bench is what the poll has last  *)
(* stored, and half of that is what the dashboard remembers having done.   *)
(***************************************************************************)
EXTENDS Naturals, Sequences, FiniteSets

CONSTANTS Threads,    \* request threads that are busy at once
          Poller,     \* hw-poller
          Tool,       \* flash_dut, bench, a test, or a thread of /api/tca
          Slots, Channels, Volts,
          NoCall,
          MaxClicks,  \* bound: requests, and calls of the tool
          MaxFaults   \* bound: drivers that raise, timeouts, restarts of the broker

Pages == 1..Threads
Callers == Pages \cup {Poller, Tool}

ASSUME DashboardConstants ==
  /\ Threads \in Nat /\ Poller \notin Pages /\ Tool \notin Pages /\ Poller # Tool
  /\ "psu" \notin Slots /\ Volts \subseteq Nat /\ MaxClicks \in Nat /\ MaxFaults \in Nat

VARIABLES
  latch,    \* output register of the relay port of the expander
  dac,      \* data register of each channel of a DAC
  readback, \* the channel whose register its next frame carries, or NoCall
  dacs,     \* HardwareManager._dacs is there
  psOn,     \* PSU_ON is asserted
  call,     \* the broker call of each thread, NoCall without one
  phase,    \* where its handler is with it
  copy,     \* what a handler has read
  loose,    \* operations whose caller has given up waiting
  shown,    \* _relay_state: slots remembered as on
  psuOn,    \* _psu_on
  stage,    \* where the poll is
  draft,    \* its result so far
  status,   \* _state
  blank,    \* the last answer to a browser was an empty dictionary
  doubt,    \* slots, and "psu", whose memory need not be true
  alone,    \* requests that nothing else about their subject has overlapped
  clicks, faults  \* what is left of the bounds

hardware == <<latch, dac, readback, dacs, psOn>>
memory == <<shown, psuOn, doubt, alone>>
poll == <<stage, draft, status>>
vars == <<latch, dac, readback, dacs, psOn, call, phase, copy, loose, shown, psuOn,
          stage, draft, status, blank, doubt, alone, clicks, faults>>

Ops == [op : {"pin"}, slot : Slots, on : BOOLEAN] \cup [op : {"psu"}, on : BOOLEAN]
         \cup [op : {"set"}, ch : Channels, v : Volts] \cup [op : {"get"}, ch : Channels]
         \cup [op : {"port", "status"}]

ASSUME NoCallIsNone == NoCall \notin Ops \cup Channels

\* The three locks of HardwareManager that matter here.
Lock(o) == IF o.op \in {"pin", "port"} THEN "i2c"
           ELSE IF o.op \in {"set", "get"} THEN "spi" ELSE "gpio"

Results == [on : BOOLEAN, relays : SUBSET Slots, io : SUBSET Slots]
Nothing == [on |-> FALSE, relays |-> {}, io |-> {}]
Cleared == [on |-> FALSE]

TypeOK ==
  /\ latch \subseteq Slots /\ dac \in [Channels -> Volts \cup {0}] /\ readback \in Channels \cup {NoCall}
  /\ dacs \in BOOLEAN /\ psOn \in BOOLEAN
  /\ call \in [Callers -> Ops \cup {NoCall}] /\ loose \subseteq Ops
  /\ phase \in [Callers -> {"idle", "queued", "inside", "opening", "done", "failed"}]
  /\ \A c \in Callers : phase[c] = "idle" <=> call[c] = NoCall
  /\ shown \subseteq Slots /\ psuOn \in BOOLEAN
  /\ doubt \subseteq Slots \cup {"psu"} /\ alone \subseteq Callers
  /\ stage \in {"psu", "dac", "io", "update"}
  /\ draft \in Results /\ status \in Results \cup {Cleared}
  /\ blank \in BOOLEAN
  /\ clicks \in 0..MaxClicks /\ faults \in 0..MaxFaults

\* The broker has been started, which asserts PSU_ON; then main: relays off,
\* _psu_on from the broker, one poll done.
Init ==
  /\ latch = {} /\ dac = [ch \in Channels |-> 0] /\ readback = NoCall
  /\ dacs = FALSE /\ psOn = TRUE /\ psuOn = psOn
  /\ call = [c \in Callers |-> NoCall] /\ phase = [c \in Callers |-> "idle"]
  /\ copy = [c \in Callers |-> NoCall] /\ loose = {}
  /\ shown = {} /\ doubt = {} /\ alone = {}
  /\ stage = "psu" /\ draft = Nothing
  /\ status = [Nothing EXCEPT !.on = psuOn] /\ blank = FALSE
  /\ clicks = MaxClicks /\ faults = MaxFaults

Mishap == faults > 0 /\ faults' = faults - 1

-----------------------------------------------------------------------------
(* The handler of a call, in the broker.                                   *)

Goes(c, where) == phase' = [phase EXCEPT ![c] = where]
Result(c, r) == copy' = [copy EXCEPT ![c] = r]

\* Mutant: no lock on the I2C bus.
FreeUnlessI2c(lock) ==
  lock # "i2c" => \A d \in Callers : phase[d] \in {"inside", "opening"} => Lock(call[d]) # lock

Free(lock) == \A d \in Callers : phase[d] \in {"inside", "opening"} => Lock(call[d]) # lock

OnDac(c) == call[c].op \in {"set", "get"}

\* _ensure_dacs: whoever finds no DACs constructs them under the lock of the
\* bus, and only then are they there for all.
Open(c) ==
  /\ phase[c] = "queued" /\ OnDac(c) /\ ~dacs /\ Free("spi")
  /\ Goes(c, "opening")
  /\ UNCHANGED <<hardware, call, copy, loose, memory, poll, blank, clicks, faults>>

\* Mutant: _ensure_dacs is called with the bus held.
OpenedNested(c) ==
  /\ phase[c] = "opening" /\ Free("spi")
  /\ Goes(c, "queued")
  /\ dacs' = TRUE
  /\ UNCHANGED <<latch, dac, readback, psOn, call, copy, loose, memory, poll, blank,
                 clicks, faults>>

Opened(c) ==
  /\ phase[c] = "opening"
  /\ Goes(c, "queued")
  /\ dacs' = TRUE
  /\ UNCHANGED <<latch, dac, readback, psOn, call, copy, loose, memory, poll, blank,
                 clicks, faults>>

\* PSU_ON.  Without their supply the DACs forget.
Switch(on) == /\ psOn' = on
              /\ dac' = IF on THEN dac ELSE [ch \in Channels |-> 0]

\* A write to a data register, which an unpowered DAC does not hear.
Put(o) == dac' = IF psOn THEN [dac EXCEPT ![o.ch] = o.v] ELSE dac

WithPin(register, o) == IF o.on THEN register \cup {o.slot} ELSE register \ {o.slot}

\* The lock is taken, and the first access of the operation follows: a pin is
\* written back from the register read here, and a DAC register is asked for in
\* one frame and read in the next.
Enter(c) ==
  /\ phase[c] = "queued" /\ Free(Lock(call[c])) /\ (OnDac(c) => dacs)
  /\ Goes(c, "inside")
  /\ LET o == call[c] IN
     /\ IF o.op = "pin" THEN Result(c, latch) ELSE UNCHANGED copy
     /\ IF o.op = "psu" THEN Switch(o.on) ELSE UNCHANGED <<psOn, dac>>
     /\ readback' = IF o.op = "get" THEN o.ch ELSE readback
  /\ UNCHANGED <<latch, dacs, call, loose, memory, poll, blank, clicks, faults>>

\* The rest of it, and the lock is given back.
Leave(c) ==
  /\ phase[c] = "inside"
  /\ Goes(c, "done")
  /\ LET o == call[c] IN
     /\ latch' = IF o.op = "pin" THEN WithPin(copy[c], o) ELSE latch
     /\ IF o.op = "set" THEN Put(o) ELSE UNCHANGED dac
     /\ readback' = IF OnDac(c) THEN NoCall ELSE readback
     /\ Result(c, CASE o.op = "get" /\ psOn /\ readback # NoCall -> dac[readback]
                    [] o.op = "port" -> latch
                    [] o.op = "status" -> psOn
                    [] o.op = "psu" -> TRUE
                    [] OTHER -> NoCall)
  /\ UNCHANGED <<dacs, psOn, call, loose, memory, poll, blank, clicks, faults>>

\* psu.power has waited five seconds for a PWR_OK that does not come.
NoPwrOk(c) ==
  /\ phase[c] = "inside" /\ call[c].op = "psu" /\ call[c].on /\ Mishap
  /\ Goes(c, "done") /\ Result(c, FALSE)
  /\ UNCHANGED <<hardware, call, loose, memory, poll, blank, clicks>>

\* A driver raises: OSError of the bus.
Raises(c) ==
  /\ phase[c] = "inside" /\ Lock(call[c]) # "gpio" /\ Mishap
  /\ Goes(c, "failed") /\ Result(c, NoCall)
  /\ UNCHANGED <<hardware, call, loose, memory, poll, blank, clicks>>

\* A client waits five seconds, as long as psu.power keeps its lock: it gives
\* up on a call that waits behind that one, or for PWR_OK, and the broker
\* does not know.
GivesUp(c) ==
  /\ call[c] # NoCall /\ Lock(call[c]) = "gpio" /\ Mishap
  /\ \/ phase[c] = "queued" /\ loose' = loose \cup {call[c]}
     \/ phase[c] = "inside" /\ UNCHANGED loose
  /\ Goes(c, "failed") /\ Result(c, NoCall)
  /\ UNCHANGED <<hardware, call, memory, poll, blank, clicks>>

Subjects(o) == IF o.op = "pin" THEN {o.slot} ELSE IF o.op = "psu" THEN {"psu"} ELSE {}

\* What was given up on is done all the same.
ActsLate(o) ==
  /\ o \in loose /\ Free(Lock(o))
  /\ loose' = loose \ {o}
  /\ IF o.op = "psu" THEN Switch(o.on) ELSE UNCHANGED <<psOn, dac>>
  /\ doubt' = doubt \cup Subjects(o)
  /\ alone' = {p \in alone : Subjects(call[p]) \cap Subjects(o) = {}}
  /\ UNCHANGED <<latch, readback, dacs, call, phase, copy, shown, psuOn, poll, blank,
                 clicks, faults>>

\* The broker is restarted: its constructor asserts PSU_ON.
BrokerRestarts ==
  /\ Mishap
  /\ psOn' = TRUE /\ dacs' = FALSE /\ loose' = {}
  /\ phase' = [c \in Callers |-> IF phase[c] = "idle" THEN "idle" ELSE "failed"]
  /\ copy' = [c \in Callers |-> NoCall]
  /\ doubt' = doubt \cup {"psu"}
  /\ alone' = {}
  /\ UNCHANGED <<latch, dac, readback, call, shown, psuOn, poll, blank, clicks>>

-----------------------------------------------------------------------------
(* The callers.                                                            *)

Asks(c, o) == /\ call[c] = NoCall
              /\ call' = [call EXCEPT ![c] = o]
              /\ Goes(c, "queued")

\* Mutant: the answer is left on the connection.
ReturnsOwing(c) == /\ call' = [call EXCEPT ![c] = NoCall]
                   /\ Result(c, NoCall)
                   /\ UNCHANGED phase

Returns(c) == /\ call' = [call EXCEPT ![c] = NoCall]
              /\ Goes(c, "idle")
              /\ Result(c, NoCall)

Clicks == clicks > 0 /\ clicks' = clicks - 1

Rivals(c, o) == {d \in Callers \ {c} : call[d] # NoCall
                                       /\ Subjects(call[d]) \cap Subjects(o) # {}}

\* carrier_power, psu_power_endpoint, dac_set: one broker call that changes
\* something, the port being all outputs since _init_relays.  Threads have no
\* identity: a request is for the first that is idle.
Request(p, o) ==
  /\ \A q \in Pages : q < p => call[q] # NoCall
  /\ o.op \in {"pin", "psu", "set"}
  /\ Clicks /\ Asks(p, o)
  /\ alone' = IF Rivals(p, o) = {} THEN alone \cup {p} ELSE alone \ Rivals(p, o)
  /\ UNCHANGED <<hardware, copy, loose, shown, psuOn, doubt, poll, blank, faults>>

\* Mutant: the cache is written before it is known that the call worked.
RememberEarly(p) ==
  /\ phase[p] \in {"done", "failed"} /\ call[p].op \in {"pin", "psu"}
  /\ Returns(p)
  /\ doubt' = IF p \in alone THEN doubt \ Subjects(call[p]) ELSE doubt \cup Subjects(call[p])
  /\ alone' = alone \ {p}
  /\ IF call[p].op = "pin"
     THEN /\ shown' = IF call[p].on THEN shown \cup {call[p].slot}
                                     ELSE shown \ {call[p].slot}
          /\ UNCHANGED psuOn
     ELSE psuOn' = call[p].on /\ UNCHANGED shown
  /\ UNCHANGED <<hardware, loose, poll, blank, clicks, faults>>

\* The call worked: the cache follows.  What overlapped may have come in the
\* other order, so that the memory is in doubt.
Remember(p) ==
  /\ phase[p] = "done" /\ call[p].op = "pin"
  /\ Returns(p)
  /\ shown' = IF call[p].on THEN shown \cup {call[p].slot} ELSE shown \ {call[p].slot}
  /\ doubt' = IF p \in alone THEN doubt \ {call[p].slot} ELSE doubt \cup {call[p].slot}
  /\ alone' = alone \ {p}
  /\ UNCHANGED <<hardware, loose, psuOn, poll, blank, clicks, faults>>

\* Off forgets every relay; the register of the expander, on standby power,
\* does not.  On without PWR_OK is an error, and nothing is noted.
RememberPsu(p) ==
  /\ phase[p] = "done" /\ call[p].op = "psu"
  /\ Returns(p)
  /\ LET noted == copy[p] \/ ~call[p].on IN
     /\ psuOn' = IF noted THEN call[p].on ELSE psuOn
     /\ shown' = IF call[p].on THEN shown ELSE {}
     /\ doubt' = (IF p \in alone /\ noted THEN doubt \ {"psu"} ELSE doubt \cup {"psu"})
                   \cup (IF call[p].on THEN {} ELSE Slots)
     /\ alone' = IF call[p].on THEN alone \ {p}
                 ELSE {q \in alone \ {p} : call[q].op # "pin"}
  /\ UNCHANGED <<hardware, loose, poll, blank, clicks, faults>>

\* "error", 500; or nothing to remember.
Answers(p) ==
  /\ \/ phase[p] = "failed"
     \/ phase[p] = "done" /\ call[p].op = "set"
  /\ Returns(p)
  /\ doubt' = doubt \cup Subjects(call[p]) /\ alone' = alone \ {p}
  /\ UNCHANGED <<hardware, loose, shown, psuOn, poll, blank, clicks, faults>>

\* flash_dut, bench recover, a fixture, or tca_write_pin of the dashboard
\* itself: nobody touches its memory.
ToolCalls(o) ==
  /\ o.op \in {"pin", "psu"}
  /\ Clicks /\ Asks(Tool, o)
  /\ doubt' = doubt \cup Subjects(o) /\ alone' = alone \ Rivals(Tool, o)
  /\ UNCHANGED <<hardware, copy, loose, shown, psuOn, poll, blank, faults>>

ToolReturns ==
  /\ phase[Tool] \in {"done", "failed"}
  /\ Returns(Tool)
  /\ UNCHANGED <<hardware, loose, memory, poll, blank, clicks, faults>>

-----------------------------------------------------------------------------
(* The poll, and the pages that ask for its result.                        *)

PollAsks ==
  /\ \/ stage = "psu" /\ Asks(Poller, [op |-> "status"])
     \/ /\ stage = "dac"
        /\ \E ch \in Channels : Asks(Poller, [op |-> "get", ch |-> ch])
     \/ stage = "io" /\ Asks(Poller, [op |-> "port"])
  /\ UNCHANGED <<hardware, copy, loose, memory, poll, blank, clicks, faults>>

\* One part after the other; a part that fails is marked and passed over.  The
\* relays of the second are those remembered, not those of the expander.
PollReturns ==
  /\ phase[Poller] \in {"done", "failed"} /\ stage # "io"
  /\ Returns(Poller)
  /\ \/ stage = "psu" /\ stage' = "dac" /\ UNCHANGED draft
     \/ stage = "dac" /\ stage' = "io" /\ draft' = [draft EXCEPT !.relays = shown]
  /\ UNCHANGED <<hardware, loose, memory, status, blank, clicks, faults>>

\* The last part; _state_lock is taken, and held until PollUpdates.
PollClears ==
  /\ phase[Poller] \in {"done", "failed"} /\ stage = "io"
  /\ Returns(Poller)
  /\ stage' = "update"
  /\ draft' = [draft EXCEPT !.io = IF phase[Poller] = "done" THEN copy[Poller] ELSE {},
                            !.on = psuOn]
  /\ status' = Cleared
  /\ UNCHANGED <<hardware, loose, memory, blank, clicks, faults>>

\* ..., and two seconds later the next round.
PollUpdates ==
  /\ stage = "update"
  /\ stage' = "psu" /\ status' = draft /\ draft' = Nothing
  /\ UNCHANGED <<hardware, call, phase, copy, loose, memory, blank, clicks, faults>>

\* /api/status.
Refresh ==
  /\ stage # "update"
  /\ blank' = (status = Cleared)
  /\ UNCHANGED <<hardware, call, phase, copy, loose, memory, poll, clicks, faults>>

-----------------------------------------------------------------------------
Handler(c) == Open(c) \/ Opened(c) \/ Enter(c) \/ Leave(c)
Respond(p) == Remember(p) \/ RememberPsu(p) \/ Answers(p)
Poll == PollAsks \/ PollReturns \/ PollClears \/ PollUpdates

Next == \/ \E c \in Callers : Handler(c) \/ NoPwrOk(c) \/ Raises(c) \/ GivesUp(c)
        \/ \E p \in Pages : \/ Respond(p)
                            \/ \E o \in Ops : Request(p, o)
        \/ \E o \in Ops : ToolCalls(o)
        \/ \E o \in loose : ActsLate(o)
        \/ ToolReturns \/ Poll \/ Refresh \/ BrokerRestarts

Spec == Init /\ [][Next]_vars

\* Threads run, the browser asks every two seconds, and no thread is passed
\* over for ever when a lock is free again and again: the poll sleeps between
\* two rounds.  A call given up on need not be made.
Fairness == /\ \A c \in Callers : SF_vars(Handler(c))
            /\ \A p \in Pages : WF_vars(Respond(p))
            /\ WF_vars(ToolReturns) /\ WF_vars(Poll) /\ WF_vars(Refresh)

FairSpec == Spec /\ Fairness

-----------------------------------------------------------------------------
(* Properties.                                                             *)

InCall(x) == \E c \in Callers : call[c] # NoCall /\ x \in Subjects(call[c])

\* app.py:246, 264-266: what the dashboard remembers of a relay or of the
\* supply is so, unless requests about it have overlapped, one of them has
\* failed, a tool has switched it, or the supply was turned off since.
MemoryIsTrue ==
  /\ \A s \in Slots \ doubt : ~InCall(s) => (s \in shown <=> s \in latch)
  /\ "psu" \notin doubt /\ ~InCall("psu") => psuOn = psOn

\* app.py:108-213, 229-232, bus.py:209-210, 634-643: when nobody clicks any
\* more, every request comes to its answer, whatever the supply or another bus
\* was waited for; and what a browser is sent comes to be what the dashboard
\* remembers and the pins of the expander, never an empty answer any more.
StatusCatchesUp ==
  <>[](/\ \A c \in Callers \ {Poller} : call[c] = NoCall
       /\ ~blank
       /\ stage # "update" => status = [on |-> psuOn, relays |-> shown, io |-> latch])

-----------------------------------------------------------------------------
(* The locks of the broker make its operations atomic.                     *)

\* A call that has failed is over for the broker, and PSU_ON is switched before
\* PWR_OK is waited for.
Pending == [c \in Callers |-> IF phase[c] = "failed" THEN NoCall ELSE call[c]]
Acted == {c \in Callers : \/ phase[c] = "done"
                          \/ phase[c] = "inside" /\ call[c].op = "psu"}
Got == [c \in Callers |-> IF phase[c] = "done" /\ call[c].op \in {"get", "port", "status"}
                          THEN copy[c] ELSE NoCall]

Buses == INSTANCE BusContract WITH call <- Pending, acted <- Acted, got <- Got

KeepsBusContract == Buses!Spec
=============================================================================

--------------------------- MODULE Dashboard_proofs ---------------------------
(***************************************************************************)
(* The locks of the broker make its operations atomic, for every number of *)
(* threads, slots and channels and however many calls raise, time out or   *)
(* lose their broker: Dashboard implements BusContract.  The inductive     *)
(* invariant is mutual exclusion and what it protects: a register that is  *)
(* about to be written back is still the register that was read.           *)
(***************************************************************************)
EXTENDS Dashboard, TLAPS

bus == <<latch, dac, readback, dacs, psOn, call, phase, copy, loose>>

Busy(c) == phase[c] \in {"inside", "opening"}
Phases == {"idle", "queued", "inside", "opening", "done", "failed"}

BusTyped ==
  /\ latch \subseteq Slots /\ dac \in [Channels -> Volts \cup {0}]
  /\ readback \in Channels \cup {NoCall} /\ dacs \in BOOLEAN /\ psOn \in BOOLEAN
  /\ call \in [Callers -> Ops \cup {NoCall}] /\ loose \subseteq Ops
  /\ phase \in [Callers -> Phases]
  /\ \A c \in Callers : phase[c] = "idle" <=> call[c] = NoCall
  /\ copy = [c \in Callers |-> copy[c]]

Exclusive == \A c, d \in Callers : c # d /\ Busy(c) /\ Busy(d) => Lock(call[c]) # Lock(call[d])

Current ==
  /\ \A c \in Callers : phase[c] = "opening" => Lock(call[c]) = "spi"
  /\ \A c \in Callers : phase[c] = "inside" /\ call[c].op = "pin" => copy[c] = latch
  /\ \A c \in Callers : phase[c] = "inside" /\ call[c].op = "get" => readback = call[c].ch
  /\ ~psOn => dac = [ch \in Channels |-> 0]
  /\ \A o \in loose : Lock(o) = "gpio"

BusInv == BusTyped /\ Exclusive /\ Current

-----------------------------------------------------------------------------
\* An operation is one of six and has the fields of its kind.
LEMMA OpShape ==
  ASSUME NEW o \in Ops
  PROVE  /\ o.op \in {"pin", "psu", "set", "get", "port", "status"}
         /\ o.op = "pin" => o.slot \in Slots /\ o.on \in BOOLEAN
         /\ o.op = "psu" => o.on \in BOOLEAN
         /\ o.op = "set" => o.ch \in Channels /\ o.v \in Volts
         /\ o.op = "get" => o.ch \in Channels
BY DEF Ops

\* The poll asks for operations, too.
LEMMA PollOps ==
  /\ [op |-> "status"] \in Ops /\ [op |-> "port"] \in Ops
  /\ \A ch \in Channels : [op |-> "get", ch |-> ch] \in Ops
BY DEF Ops

\* For the broker, whoever its callers are, a step is one of these.
LEMMA NextShapes ==
  ASSUME Next
  PROVE  \/ \E c \in Callers, o \in Ops : Asks(c, o) /\ UNCHANGED <<hardware, copy, loose>>
         \/ \E c \in Callers : /\ phase[c] \in {"done", "failed"} /\ Returns(c)
                               /\ UNCHANGED <<hardware, loose>>
         \/ \E c \in Callers : \/ Open(c) \/ Opened(c) \/ Enter(c) \/ Leave(c)
                               \/ NoPwrOk(c) \/ Raises(c) \/ GivesUp(c)
         \/ \E o \in loose : ActsLate(o)
         \/ BrokerRestarts
         \/ UNCHANGED bus
<1>1. Pages \subseteq Callers /\ Poller \in Callers /\ Tool \in Callers
  BY DEF Callers
<1>2. ASSUME NEW p \in Pages, Respond(p)
      PROVE  phase[p] \in {"done", "failed"} /\ Returns(p) /\ UNCHANGED <<hardware, loose>>
  BY <1>2 DEF Respond, Remember, RememberPsu, Answers
<1>3. ASSUME NEW p \in Pages, NEW o \in Ops, Request(p, o)
      PROVE  Asks(p, o) /\ UNCHANGED <<hardware, copy, loose>>
  BY <1>3 DEF Request
<1>4. ASSUME NEW o \in Ops, ToolCalls(o)
      PROVE  Asks(Tool, o) /\ UNCHANGED <<hardware, copy, loose>>
  BY <1>4 DEF ToolCalls
<1>5. ToolReturns => /\ phase[Tool] \in {"done", "failed"} /\ Returns(Tool)
                     /\ UNCHANGED <<hardware, loose>>
  BY DEF ToolReturns
<1>6. PollAsks => (\E o \in Ops : Asks(Poller, o)) /\ UNCHANGED <<hardware, copy, loose>>
  BY PollOps DEF PollAsks
<1>7. PollReturns \/ PollClears => /\ phase[Poller] \in {"done", "failed"} /\ Returns(Poller)
                                   /\ UNCHANGED <<hardware, loose>>
  BY DEF PollReturns, PollClears
<1>8. PollUpdates \/ Refresh => UNCHANGED bus
  BY DEF PollUpdates, Refresh, bus, hardware
<1> QED
  BY <1>1, <1>2, <1>3, <1>4, <1>5, <1>6, <1>7, <1>8 DEF Next, Handler, Poll

-----------------------------------------------------------------------------
\* The state the broker is started in satisfies the invariant,
LEMMA BusInit == Init => BusInv
BY DashboardConstants, NoCallIsNone
   DEF Init, BusInv, BusTyped, Exclusive, Current, Busy, Phases

\* and every step keeps it.
LEMMA BusKept ==
  ASSUME BusInv, [Next]_vars
  PROVE  BusInv'
<1> USE NoCallIsNone
<1>1. CASE UNCHANGED bus
  BY <1>1 DEF bus, BusInv, BusTyped, Exclusive, Current, Busy
<1>2. ASSUME NEW c \in Callers, NEW o \in Ops, Asks(c, o), UNCHANGED <<hardware, copy, loose>>
      PROVE  BusInv'
  <2>1. BusTyped'
    BY <1>2 DEF BusInv, BusTyped, Asks, Goes, hardware, Phases
  <2>2. \A d \in Callers : Busy(d)' => /\ Busy(d) /\ phase'[d] = phase[d]
                                       /\ call'[d] = call[d] /\ copy'[d] = copy[d]
    BY <1>2 DEF BusInv, BusTyped, Asks, Goes, Busy
  <2> QED
    BY <1>2, <2>1, <2>2 DEF BusInv, Exclusive, Current, Busy, hardware
<1>3. ASSUME NEW c \in Callers, Returns(c), UNCHANGED <<hardware, loose>>
      PROVE  BusInv'
  <2>1. BusTyped'
    BY <1>3 DEF BusInv, BusTyped, Returns, Result, Goes, hardware, Phases
  <2>2. \A d \in Callers : Busy(d)' => /\ Busy(d) /\ phase'[d] = phase[d]
                                       /\ call'[d] = call[d] /\ copy'[d] = copy[d]
    BY <1>3 DEF BusInv, BusTyped, Returns, Result, Goes, Busy
  <2> QED
    BY <1>3, <2>1, <2>2 DEF BusInv, Exclusive, Current, Busy, hardware
<1>4. ASSUME NEW c \in Callers, Open(c)
      PROVE  BusInv'
  <2>1. BusTyped'
    BY <1>4 DEF BusInv, BusTyped, Open, Goes, hardware, Phases
  <2>2. Lock(call[c]) = "spi"
    BY <1>4 DEF Open, OnDac, Lock
  <2>3. \A d \in Callers \ {c} : /\ phase'[d] = phase[d] /\ (Busy(d)' <=> Busy(d))
                                 /\ Busy(d) => Lock(call[d]) # "spi"
    BY <1>4 DEF BusInv, BusTyped, Open, Goes, Busy, Free
  <2>4. phase'[c] = "opening" /\ UNCHANGED <<hardware, call, copy, loose>>
    BY <1>4 DEF BusInv, BusTyped, Open, Goes
  <2>5. Exclusive'
    BY <2>2, <2>3, <2>4 DEF BusInv, Exclusive
  <2>6. Current'
    BY <2>2, <2>3, <2>4 DEF BusInv, Current, hardware
  <2> QED
    BY <2>1, <2>5, <2>6 DEF BusInv
<1>5. ASSUME NEW c \in Callers, Opened(c)
      PROVE  BusInv'
  <2>1. BusTyped'
    BY <1>5 DEF BusInv, BusTyped, Opened, Goes, Phases
  <2>2. \A d \in Callers : Busy(d)' => Busy(d) /\ phase'[d] = phase[d]
    BY <1>5 DEF BusInv, BusTyped, Opened, Goes, Busy
  <2>3. \A d \in Callers : phase'[d] \in {"opening", "inside"} => phase'[d] = phase[d]
    BY <2>2 DEF Busy
  <2> QED
    BY <1>5, <2>1, <2>2, <2>3 DEF BusInv, Exclusive, Current, Opened
<1>6. ASSUME NEW c \in Callers, Enter(c)
      PROVE  BusInv'
  <2>1. call[c] \in Ops /\ phase[c] = "queued"
    BY <1>6 DEF BusInv, BusTyped, Enter
  <2>2. BusTyped'
    <3>1. dac' \in [Channels -> Volts \cup {0}] /\ psOn' \in BOOLEAN
      BY <1>6, <2>1, OpShape DEF BusInv, BusTyped, Enter, Switch
    <3>2. readback' \in Channels \cup {NoCall}
      BY <1>6, <2>1, OpShape DEF BusInv, BusTyped, Enter
    <3>3. copy' = [d \in Callers |-> copy'[d]]
      BY <1>6 DEF BusInv, BusTyped, Enter, Result
    <3>4. phase' \in [Callers -> Phases] /\ phase' = [phase EXCEPT ![c] = "inside"]
      BY <1>6 DEF BusInv, BusTyped, Enter, Goes, Phases
    <3> QED
      BY <1>6, <2>1, <3>1, <3>2, <3>3, <3>4 DEF BusInv, BusTyped, Enter
  <2>3. /\ phase'[c] = "inside" /\ UNCHANGED <<call, latch, loose>>
        /\ \A d \in Callers \ {c} : /\ phase'[d] = phase[d] /\ copy'[d] = copy[d]
                                    /\ Busy(d)' <=> Busy(d)
                                    /\ Busy(d) => Lock(call[d]) # Lock(call[c])
    BY <1>6 DEF BusInv, BusTyped, Enter, Goes, Result, Busy, Free
  <2>4. Exclusive'
    BY <2>3 DEF BusInv, Exclusive
  <2>5. Current'
    <3>1. call[c].op = "pin" => copy'[c] = latch
      BY <1>6 DEF BusInv, BusTyped, Enter, Result
    <3>2. call[c].op = "get" => readback' = call[c].ch
      BY <1>6 DEF Enter
    <3>3. ASSUME NEW d \in Callers \ {c}, phase[d] = "inside", call[d].op = "get"
          PROVE  readback' = readback
      <4>1. call[c].op # "get"
        BY <2>3, <3>3 DEF Busy, Lock
      <4> QED
        BY <1>6, <4>1 DEF Enter
    <3>4. ~psOn' => dac' = [ch \in Channels |-> 0]
      BY <1>6 DEF BusInv, Current, Enter, Switch
    <3> QED
      BY <2>3, <3>1, <3>2, <3>3, <3>4 DEF BusInv, Current
  <2> QED
    BY <2>2, <2>4, <2>5 DEF BusInv
<1>7. ASSUME NEW c \in Callers, Leave(c)
      PROVE  BusInv'
  <2>1. call[c] \in Ops /\ phase[c] = "inside"
    BY <1>7 DEF BusInv, BusTyped, Leave
  <2>2. /\ UNCHANGED <<dacs, psOn, call, loose>>
        /\ phase' = [phase EXCEPT ![c] = "done"]
        /\ latch' = IF call[c].op = "pin" THEN WithPin(copy[c], call[c]) ELSE latch
        /\ dac' = IF call[c].op = "set" /\ psOn
                  THEN [dac EXCEPT ![call[c].ch] = call[c].v] ELSE dac
        /\ readback' = IF OnDac(c) THEN NoCall ELSE readback
        /\ copy' = [copy EXCEPT ![c] = copy'[c]]
    BY <1>7 DEF BusInv, BusTyped, Leave, Goes, Result, Put
  <2>3. BusTyped'
    <3>1. latch' \subseteq Slots
      BY <2>1, <2>2, OpShape DEF BusInv, BusTyped, Current, WithPin
    <3>2. dac' \in [Channels -> Volts \cup {0}]
      BY <2>1, <2>2, OpShape DEF BusInv, BusTyped
    <3>3. phase' \in [Callers -> Phases] /\ copy' = [d \in Callers |-> copy'[d]]
      BY <2>2 DEF BusInv, BusTyped, Phases
    <3> QED
      BY <2>1, <2>2, <3>1, <3>2, <3>3 DEF BusInv, BusTyped
  <2>4. \A d \in Callers : Busy(d)' =>
          /\ d # c /\ Busy(d) /\ phase'[d] = phase[d] /\ copy'[d] = copy[d]
          /\ Lock(call[d]) # Lock(call[c])
    BY <2>1, <2>2 DEF BusInv, BusTyped, Exclusive, Busy
  <2>5. Exclusive'
    BY <2>2, <2>4 DEF BusInv, Exclusive
  <2>6. Current'
    <3>1. ASSUME NEW d \in Callers, Busy(d)', call[d].op = "pin"
          PROVE  latch' = latch
      BY <2>2, <2>4, <3>1 DEF Lock
    <3>2. ASSUME NEW d \in Callers, Busy(d)', call[d].op = "get"
          PROVE  readback' = readback
      BY <2>2, <2>4, <3>2 DEF Lock, OnDac
    <3> QED
      BY <2>2, <2>4, <3>1, <3>2 DEF BusInv, Current, Busy
  <2> QED
    BY <2>3, <2>5, <2>6 DEF BusInv
<1>8. ASSUME NEW c \in Callers, NoPwrOk(c) \/ Raises(c) \/ GivesUp(c)
      PROVE  BusInv'
  <2>1. /\ UNCHANGED <<hardware, call>> /\ phase[c] # "idle"
        /\ \E w \in {"done", "failed"} : phase' = [phase EXCEPT ![c] = w]
        /\ copy' = [copy EXCEPT ![c] = copy'[c]]
        /\ \/ loose' = loose
           \/ Lock(call[c]) = "gpio" /\ call[c] # NoCall /\ loose' = loose \cup {call[c]}
    BY <1>8 DEF BusInv, BusTyped, NoPwrOk, Raises, GivesUp, Goes, Result
  <2>2. BusTyped'
    BY <2>1 DEF BusInv, BusTyped, hardware, Phases
  <2>3. \A d \in Callers : Busy(d)' => Busy(d) /\ phase'[d] = phase[d] /\ copy'[d] = copy[d]
    BY <2>1 DEF BusInv, BusTyped, Busy
  <2>4. Exclusive'
    BY <2>1, <2>3 DEF BusInv, Exclusive
  <2>5. Current'
    BY <2>1, <2>3 DEF BusInv, Current, Busy, hardware
  <2> QED
    BY <2>2, <2>4, <2>5 DEF BusInv
<1>9. ASSUME NEW o \in loose, ActsLate(o)
      PROVE  BusInv'
  <2>1. o \in Ops
    BY DEF BusInv, BusTyped
  <2>2. dac' \in [Channels -> Volts \cup {0}] /\ psOn' \in BOOLEAN
    BY <1>9, <2>1, OpShape DEF BusInv, BusTyped, ActsLate, Switch
  <2>3. ~psOn' => dac' = [ch \in Channels |-> 0]
    BY <1>9 DEF BusInv, Current, ActsLate, Switch
  <2> QED
    BY <1>9, <2>2, <2>3 DEF BusInv, BusTyped, Exclusive, Current, Busy, ActsLate
<1>10. CASE BrokerRestarts
  <2>1. \A c \in Callers : phase'[c] \in {"idle", "failed"} /\ (phase'[c] = "idle" <=> phase[c] = "idle")
    BY <1>10 DEF BrokerRestarts
  <2>2. phase' \in [Callers -> Phases]
    BY <1>10 DEF BrokerRestarts, Phases
  <2> QED
    BY <1>10, <2>1, <2>2 DEF BusInv, BusTyped, Exclusive, Current, Busy, BrokerRestarts
<1> QED
  BY <1>1, <1>2, <1>3, <1>4, <1>5, <1>6, <1>7, <1>8, <1>9, <1>10, NextShapes
     DEF vars, bus

\* In every reachable state the locks exclude each other's holders.
THEOREM Locking == Spec => []BusInv
<1> QED
  BY BusInit, BusKept, PTL DEF Spec

-----------------------------------------------------------------------------
\* What the contract sees of a caller depends on its own call, phase and copy.
LEMMA OthersSame ==
  ASSUME NEW c \in Callers,
         \A d \in Callers \ {c} : /\ phase'[d] = phase[d] /\ call'[d] = call[d]
                                 /\ copy'[d] = copy[d]
  PROVE  /\ Pending' = [Pending EXCEPT ![c] = Pending'[c]]
         /\ Got' = [Got EXCEPT ![c] = Got'[c]]
         /\ Acted' \ {c} = Acted \ {c}
<1>1. \A d \in Callers \ {c} : /\ Pending'[d] = Pending[d] /\ Got'[d] = Got[d]
                              /\ d \in Acted' <=> d \in Acted
  BY DEF Pending, Got, Acted
<1>2. Pending' = [Pending EXCEPT ![c] = Pending'[c]]
  BY <1>1 DEF Pending
<1>3. Got' = [Got EXCEPT ![c] = Got'[c]]
  BY <1>1 DEF Got
<1>4. Acted' \ {c} = Acted \ {c}
  BY <1>1 DEF Acted
<1> QED
  BY <1>2, <1>3, <1>4

\* A caller is, for the contract, idle, waiting, or served.
LEMMA CallerSeen ==
  ASSUME NEW c \in Callers
  PROVE  /\ phase[c] = "failed" => Pending[c] = NoCall
         /\ phase[c] # "failed" => Pending[c] = call[c]
         /\ c \in Acted <=> \/ phase[c] = "done"
                            \/ phase[c] = "inside" /\ call[c].op = "psu"
         /\ phase[c] # "done" \/ call[c].op \notin {"get", "port", "status"} => Got[c] = NoCall
         /\ phase[c] = "done" /\ call[c].op \in {"get", "port", "status"} => Got[c] = copy[c]
BY DEF Pending, Acted, Got

\* The same in the next state.
LEMMA CallerSeenNext ==
  ASSUME NEW c \in Callers
  PROVE  /\ phase'[c] = "failed" => Pending'[c] = NoCall
         /\ phase'[c] # "failed" => Pending'[c] = call'[c]
         /\ c \in Acted' <=> \/ phase'[c] = "done"
                             \/ phase'[c] = "inside" /\ call'[c].op = "psu"
         /\ phase'[c] # "done" \/ call'[c].op \notin {"get", "port", "status"} => Got'[c] = NoCall
         /\ phase'[c] = "done" /\ call'[c].op \in {"get", "port", "status"} => Got'[c] = copy'[c]
BY DEF Pending, Acted, Got

\* Every step of the dashboard and the broker is one of the contract or none.
LEMMA StepAllowed ==
  ASSUME BusInv, [Next]_vars
  PROVE  [Buses!Next]_(Buses!vars)
<1> USE NoCallIsNone
<1> DEFINE Allowed == [Buses!Next]_(Buses!vars)
<1> SUFFICES Allowed
  OBVIOUS
<1>a. ASSUME NEW c \in Callers, UNCHANGED <<latch, dac, psOn, loose>>,
             \A d \in Callers \ {c} : /\ phase'[d] = phase[d] /\ call'[d] = call[d]
                                     /\ copy'[d] = copy[d],
             Pending'[c] = Pending[c], Got'[c] = Got[c], c \in Acted' <=> c \in Acted
      PROVE  Allowed
  <2>1. Pending' = Pending /\ Got' = Got /\ Acted' = Acted
    BY <1>a, OthersSame DEF Pending, Got, Acted
  <2> QED
    BY <1>a, <2>1 DEF Buses!vars
<1>b. ASSUME NEW c \in Callers, UNCHANGED <<latch, dac, psOn>>,
             \A d \in Callers \ {c} : /\ phase'[d] = phase[d] /\ call'[d] = call[d]
                                     /\ copy'[d] = copy[d],
             Pending[c] # NoCall, Pending'[c] = NoCall, Got'[c] = NoCall, c \notin Acted',
             loose' = loose \/ (c \notin Acted /\ loose' = loose \cup {Pending[c]})
      PROVE  Allowed
  <2>1. /\ Pending' = [Pending EXCEPT ![c] = NoCall] /\ Got' = [Got EXCEPT ![c] = NoCall]
        /\ Acted' = Acted \ {c}
    BY <1>b, OthersSame
  <2>2. Buses!Return(c)
    BY <1>b, <2>1 DEF Buses!Return
  <2> QED
    BY <2>2 DEF Buses!Next
<1>c. ASSUME NEW c \in Callers, UNCHANGED loose,
             \A d \in Callers \ {c} : /\ phase'[d] = phase[d] /\ call'[d] = call[d]
                                     /\ copy'[d] = copy[d],
             Pending[c] # NoCall, Pending'[c] = Pending[c], c \notin Acted, c \in Acted',
             Buses!Effect(Pending[c]), Got'[c] = Buses!Reading(Pending[c])
      PROVE  Allowed
  <2>1. /\ Pending' = Pending /\ Got' = [Got EXCEPT ![c] = Buses!Reading(Pending[c])]
        /\ Acted' = Acted \cup {c}
    <3>1. Pending' = Pending
      BY <1>c, OthersSame DEF Pending
    <3>2. Acted' = Acted \cup {c}
      BY <1>c, OthersSame
    <3> QED
      BY <1>c, <3>1, <3>2, OthersSame
  <2>2. Buses!Act(c)
    BY <1>c, <2>1 DEF Buses!Act
  <2> QED
    BY <2>2 DEF Buses!Next
<1> HIDE DEF Allowed
<1>1. CASE UNCHANGED bus
  BY <1>1 DEF Allowed, bus, Buses!vars, Pending, Got, Acted
<1>2. ASSUME NEW c \in Callers, NEW o \in Ops, Asks(c, o), UNCHANGED <<hardware, copy, loose>>
      PROVE  Allowed
  <2>1. /\ phase[c] = "idle" /\ phase'[c] = "queued" /\ call[c] = NoCall /\ call'[c] = o
        /\ \A d \in Callers \ {c} : /\ phase'[d] = phase[d] /\ call'[d] = call[d]
                                   /\ copy'[d] = copy[d]
    BY <1>2 DEF BusInv, BusTyped, Asks, Goes
  <2>2. /\ Pending[c] = NoCall /\ Pending'[c] = o /\ Got'[c] = Got[c]
        /\ c \notin Acted /\ c \notin Acted'
    BY <2>1, CallerSeen, CallerSeenNext
  <2>3. Pending' = [Pending EXCEPT ![c] = o] /\ Got' = Got /\ Acted' = Acted
    <3>1. Got' = Got
      BY <2>1, <2>2, OthersSame DEF Got
    <3>2. Acted' = Acted
      BY <2>1, <2>2, OthersSame
    <3> QED
      BY <2>1, <2>2, <3>1, <3>2, OthersSame
  <2>4. Buses!Ask(c)
    BY <1>2, <2>2, <2>3 DEF Buses!Ask, Buses!Ops, Ops, hardware
  <2> QED
    BY <2>4 DEF Allowed, Buses!Next
<1>3. ASSUME NEW c \in Callers, phase[c] \in {"done", "failed"}, Returns(c),
             UNCHANGED <<hardware, loose>>
      PROVE  Allowed
  <2>1. /\ call[c] # NoCall /\ phase'[c] = "idle" /\ call'[c] = NoCall
        /\ \A d \in Callers \ {c} : /\ phase'[d] = phase[d] /\ call'[d] = call[d]
                                   /\ copy'[d] = copy[d]
    BY <1>3 DEF BusInv, BusTyped, Returns, Result, Goes
  <2>2. Pending'[c] = NoCall /\ Got'[c] = NoCall /\ c \notin Acted'
    BY <2>1, CallerSeenNext
  <2>3. CASE phase[c] = "done"
    <3>1. Pending[c] # NoCall
      BY <2>1, <2>3, CallerSeen
    <3> QED
      BY <1>3, <1>b, <2>1, <2>2, <3>1 DEF hardware
  <2>4. CASE phase[c] = "failed"
    BY <1>3, <1>a, <2>1, <2>2, <2>4, CallerSeen DEF hardware
  <2> QED
    BY <1>3, <2>3, <2>4
<1>4. ASSUME NEW c \in Callers, Open(c) \/ Opened(c)
      PROVE  Allowed
  <2>1. /\ phase[c] \in {"queued", "opening"} /\ phase'[c] \in {"queued", "opening"}
        /\ UNCHANGED <<latch, dac, psOn, call, loose>>
        /\ \A d \in Callers \ {c} : /\ phase'[d] = phase[d] /\ call'[d] = call[d]
                                   /\ copy'[d] = copy[d]
    BY <1>4 DEF BusInv, BusTyped, Open, Opened, Goes, hardware
  <2> QED
    BY <1>a, <2>1, CallerSeen, CallerSeenNext
<1>5. ASSUME NEW c \in Callers, Enter(c)
      PROVE  Allowed
  <2>1. /\ phase[c] = "queued" /\ phase'[c] = "inside" /\ call[c] \in Ops
        /\ UNCHANGED <<latch, call, loose>>
        /\ \A d \in Callers \ {c} : /\ phase'[d] = phase[d] /\ call'[d] = call[d]
                                   /\ copy'[d] = copy[d]
    BY <1>5 DEF BusInv, BusTyped, Enter, Goes, Result
  <2>2. /\ Pending[c] = call[c] /\ Pending'[c] = call[c] /\ Got[c] = NoCall /\ Got'[c] = NoCall
        /\ c \notin Acted /\ (c \in Acted' <=> call[c].op = "psu")
    BY <2>1, CallerSeen, CallerSeenNext
  <2>3. CASE call[c].op = "psu"
    <3>1. Buses!Effect(call[c])
      BY <1>5, <2>1, <2>3, OpShape DEF Buses!Effect, Enter, Switch
    <3>2. Buses!Reading(call[c]) = NoCall
      BY <2>3 DEF Buses!Reading
    <3> QED
      BY <1>c, <2>1, <2>2, <2>3, <3>1, <3>2
  <2>4. CASE call[c].op # "psu"
    BY <1>5, <1>a, <2>1, <2>2, <2>4 DEF Enter
  <2> QED
    BY <2>3, <2>4
<1>6. ASSUME NEW c \in Callers, Leave(c)
      PROVE  Allowed
  <2>1. /\ phase[c] = "inside" /\ phase'[c] = "done" /\ call[c] \in Ops
        /\ UNCHANGED <<psOn, call, loose>>
        /\ \A d \in Callers \ {c} : /\ phase'[d] = phase[d] /\ call'[d] = call[d]
                                   /\ copy'[d] = copy[d]
    BY <1>6 DEF BusInv, BusTyped, Leave, Goes, Result
  <2>2. /\ Pending[c] = call[c] /\ Pending'[c] = call[c] /\ c \in Acted'
        /\ Got[c] = NoCall /\ (c \in Acted <=> call[c].op = "psu")
    BY <2>1, CallerSeen, CallerSeenNext
  <2>3. CASE call[c].op = "psu"
    <3>1. UNCHANGED <<latch, dac>> /\ Got'[c] = NoCall
      BY <1>6, <2>1, <2>3, CallerSeenNext DEF Leave
    <3> QED
      BY <1>a, <2>1, <2>2, <2>3, <3>1
  <2>4. CASE call[c].op # "psu"
    <3>1. /\ latch' = IF call[c].op = "pin" THEN WithPin(copy[c], call[c]) ELSE latch
          /\ dac' = IF call[c].op = "set" /\ psOn
                    THEN [dac EXCEPT ![call[c].ch] = call[c].v] ELSE dac
      BY <1>6 DEF Leave, Put
    <3>2. call[c].op = "pin" => copy[c] = latch
      BY <2>1 DEF BusInv, Current
    <3>3. ~psOn => dac = [ch \in Channels |-> 0]
      BY DEF BusInv, Current
    <3>4. Buses!Effect(call[c])
      BY <2>1, <2>4, <3>1, <3>2, <3>3 DEF Buses!Effect, WithPin
    <3>5. copy'[c] = (CASE call[c].op = "get" /\ psOn /\ readback # NoCall -> dac[readback]
                        [] call[c].op = "port" -> latch
                        [] call[c].op = "status" -> psOn
                        [] call[c].op = "psu" -> TRUE
                        [] OTHER -> NoCall)
      BY <1>6 DEF BusInv, BusTyped, Leave, Result
    <3>6. CASE call[c].op = "get"
      <4>1. readback = call[c].ch /\ readback # NoCall
        BY <2>1, <3>6, OpShape DEF BusInv, Current
      <4>2. copy'[c] = IF psOn THEN dac[call[c].ch] ELSE NoCall
        BY <3>5, <3>6, <4>1
      <4>3. Buses!Reading(call[c]) = IF psOn THEN dac[call[c].ch] ELSE NoCall
        BY <3>6 DEF Buses!Reading
      <4>4. Got'[c] = copy'[c]
        BY <2>1, <3>6, CallerSeenNext
      <4> QED
        BY <1>c, <2>1, <2>2, <3>4, <3>6, <4>2, <4>3, <4>4
    <3>7. CASE call[c].op \in {"port", "status"}
      <4>1. Got'[c] = Buses!Reading(call[c])
        BY <2>1, <3>5, <3>7, CallerSeenNext DEF Buses!Reading
      <4> QED
        BY <1>c, <2>1, <2>2, <2>4, <3>4, <4>1
    <3>8. CASE call[c].op \in {"pin", "set"}
      <4>1. Got'[c] = NoCall /\ Buses!Reading(call[c]) = NoCall
        BY <2>1, <3>8, CallerSeenNext DEF Buses!Reading
      <4> QED
        BY <1>c, <2>1, <2>2, <2>4, <3>4, <4>1
    <3> QED
      BY <2>1, <2>4, <3>6, <3>7, <3>8, OpShape
  <2> QED
    BY <2>3, <2>4
<1>7. ASSUME NEW c \in Callers, NoPwrOk(c)
      PROVE  Allowed
  <2>1. /\ phase[c] = "inside" /\ phase'[c] = "done" /\ call[c].op = "psu"
        /\ UNCHANGED <<latch, dac, psOn, call, loose>>
        /\ \A d \in Callers \ {c} : /\ phase'[d] = phase[d] /\ call'[d] = call[d]
                                   /\ copy'[d] = copy[d]
    BY <1>7 DEF BusInv, BusTyped, NoPwrOk, Goes, Result, hardware
  <2> QED
    BY <1>a, <2>1, CallerSeen, CallerSeenNext
<1>8. ASSUME NEW c \in Callers, Raises(c) \/ GivesUp(c)
      PROVE  Allowed
  <2>1. /\ phase[c] \in {"queued", "inside"} /\ phase'[c] = "failed" /\ call[c] # NoCall
        /\ UNCHANGED <<latch, dac, psOn, call>>
        /\ \A d \in Callers \ {c} : /\ phase'[d] = phase[d] /\ call'[d] = call[d]
                                   /\ copy'[d] = copy[d]
        /\ loose' = loose \/ (phase[c] = "queued" /\ loose' = loose \cup {call[c]})
    <3>1. /\ phase[c] \in {"queued", "inside"} /\ UNCHANGED <<latch, dac, psOn, call>>
          /\ phase' = [phase EXCEPT ![c] = "failed"] /\ copy' = [copy EXCEPT ![c] = NoCall]
          /\ loose' = loose \/ (phase[c] = "queued" /\ loose' = loose \cup {call[c]})
      BY <1>8 DEF Raises, GivesUp, Goes, Result, hardware
    <3>2. /\ phase \in [Callers -> Phases] /\ copy = [d \in Callers |-> copy[d]]
          /\ phase[c] = "idle" <=> call[c] = NoCall
      BY DEF BusInv, BusTyped
    <3> QED
      BY <3>1, <3>2
  <2> QED
    BY <1>b, <2>1, CallerSeen, CallerSeenNext
<1>9. ASSUME NEW o \in loose, ActsLate(o)
      PROVE  Allowed
  <2>1. o \in Ops /\ o.op \in {"psu", "status"}
    BY OpShape DEF BusInv, BusTyped, Current, Lock
  <2>2. ~psOn => dac = [ch \in Channels |-> 0]
    BY DEF BusInv, Current
  <2>3. Buses!Effect(o)
    BY <1>9, <2>1, <2>2 DEF Buses!Effect, ActsLate, Switch
  <2>4. Pending' = Pending /\ Got' = Got /\ Acted' = Acted
    BY <1>9 DEF ActsLate, Pending, Got, Acted
  <2>5. Buses!ActLate(o)
    BY <1>9, <2>3, <2>4 DEF Buses!ActLate, ActsLate
  <2> QED
    BY <2>5 DEF Allowed, Buses!Next
<1>10. CASE BrokerRestarts
  <2>1. \A c \in Callers : phase'[c] = "failed" \/ (phase'[c] = "idle" /\ call'[c] = NoCall)
    <3>1. \A c \in Callers : phase[c] = "idle" <=> call[c] = NoCall
      BY DEF BusInv, BusTyped
    <3> QED
      BY <1>10, <3>1 DEF BrokerRestarts
  <2>2. \A c \in Callers : Pending'[c] = NoCall /\ Got'[c] = NoCall /\ c \notin Acted'
    BY <2>1, CallerSeenNext
  <2>3. /\ Pending' = [c \in Callers |-> NoCall] /\ Got' = [c \in Callers |-> NoCall]
        /\ Acted' = {}
    BY <2>2 DEF Pending, Got, Acted
  <2>4. Buses!Restart
    BY <1>10, <2>3 DEF Buses!Restart, BrokerRestarts
  <2> QED
    BY <2>4 DEF Allowed, Buses!Next
<1> QED
  BY <1>1, <1>2, <1>3, <1>4, <1>5, <1>6, <1>7, <1>8, <1>9, <1>10, NextShapes
     DEF vars, bus

\* bus.py: an operation acts at one instant between its call and its return.
THEOREM LocksMakeAtomic == Spec => KeepsBusContract
<1>1. Init => Buses!Init
  <2> SUFFICES ASSUME Init PROVE Buses!Init
    OBVIOUS
  <2>1. \A c \in Callers : phase[c] = "idle" /\ call[c] = NoCall
    BY DEF Init
  <2>2. \A c \in Callers : Pending[c] = NoCall /\ Got[c] = NoCall /\ c \notin Acted
    BY <2>1, CallerSeen
  <2>3. /\ Pending = [c \in Callers |-> NoCall] /\ Got = [c \in Callers |-> NoCall]
        /\ Acted = {}
    BY <2>2 DEF Pending, Got, Acted
  <2> QED
    BY <2>3 DEF Init, Buses!Init
<1> QED
  BY <1>1, Locking, StepAllowed, PTL DEF Spec, KeepsBusContract, Buses!Spec

-----------------------------------------------------------------------------
(* The rest of the type invariant: what the poll stores is what a port can  *)
(* be, because a part of it reads the answer of its own call only.          *)

PageTyped ==
  /\ shown \subseteq Slots /\ psuOn \in BOOLEAN
  /\ doubt \subseteq Slots \cup {"psu"} /\ alone \subseteq Callers
  /\ stage \in {"psu", "dac", "io", "update"}
  /\ draft \in Results /\ status \in Results \cup {Cleared} /\ blank \in BOOLEAN
  /\ clicks \in 0..MaxClicks /\ faults \in 0..MaxFaults

Polled ==
  /\ call[Poller] # NoCall
       => <<stage, call[Poller].op>> \in {<<"psu", "status">>, <<"dac", "get">>, <<"io", "port">>}
  /\ stage = "io" /\ phase[Poller] = "done" => copy[Poller] \subseteq Slots

DashInv == PageTyped /\ Polled

LEMMA DashInit == Init => DashInv
<1> SUFFICES ASSUME Init PROVE DashInv
  OBVIOUS
<1>1. Nothing \in Results /\ [Nothing EXCEPT !.on = psuOn] \in Results
  BY DEF Init, Nothing, Results
<1>2. call[Poller] = NoCall
  BY DEF Init, Callers
<1>3. draft \in Results /\ status \in Results
  BY <1>1 DEF Init
<1>4. clicks \in 0..MaxClicks /\ faults \in 0..MaxFaults
  BY DashboardConstants DEF Init
<1>5. PageTyped
  BY <1>3, <1>4 DEF Init, PageTyped
<1>6. Polled
  BY <1>2 DEF Init, Polled
<1> QED
  BY <1>5, <1>6 DEF DashInv

\* A spent bound is one less.
LEMMA Spent ==
  ASSUME PageTyped
  PROVE  /\ Mishap => faults' \in 0..MaxFaults
         /\ Clicks => clicks' \in 0..MaxClicks
BY DashboardConstants DEF PageTyped, Mishap, Clicks

LEMMA DashKept ==
  ASSUME BusInv, DashInv, [Next]_vars
  PROVE  DashInv'
<1> USE DashboardConstants
<1>a. PageTyped /\ Polled
  BY DEF DashInv
<1>b. Pages \subseteq Callers /\ Poller \in Callers /\ Tool \in Callers
  BY DEF Callers
<1>c. /\ call \in [Callers -> Ops \cup {NoCall}] /\ phase \in [Callers -> Phases]
      /\ copy = [c \in Callers |-> copy[c]] /\ latch \subseteq Slots
      /\ \A c \in Callers : phase[c] = "idle" <=> call[c] = NoCall
  BY DEF BusInv, BusTyped
<1>1. CASE UNCHANGED vars
  BY <1>1, <1>a DEF vars, DashInv, PageTyped, Polled
<1>2. ASSUME NEW c \in Callers, Open(c) \/ Opened(c) \/ Enter(c) \/ Leave(c) \/ NoPwrOk(c)
                                \/ Raises(c) \/ GivesUp(c)
      PROVE  DashInv'
  <2>1. UNCHANGED <<memory, poll, blank, clicks, call>> /\ faults' \in 0..MaxFaults
    BY <1>2, <1>a, Spent DEF Open, Opened, Enter, Leave, NoPwrOk, Raises, GivesUp, PageTyped
  <2>2. PageTyped'
    BY <1>a, <2>1 DEF PageTyped, memory, poll
  <2>3. ASSUME stage = "io", phase'[Poller] = "done", phase[Poller] # "done"
        PROVE  copy'[Poller] \subseteq Slots
    <3>1. c = Poller /\ (Leave(c) \/ NoPwrOk(c))
      BY <1>2, <1>b, <1>c, <2>3 DEF Open, Opened, Enter, Leave, NoPwrOk, Raises, GivesUp, Goes
    <3>2. call[c].op = "port"
      BY <1>a, <1>b, <1>c, <2>3, <3>1 DEF Polled, Leave, NoPwrOk
    <3> QED
      BY <1>b, <1>c, <3>1, <3>2 DEF Leave, NoPwrOk, Result
  <2>4. ASSUME phase'[Poller] = "done", phase[Poller] = "done"
        PROVE  copy'[Poller] = copy[Poller]
    BY <1>2, <1>b, <1>c, <2>4 DEF Open, Opened, Enter, Leave, NoPwrOk, Raises, GivesUp, Goes,
                                 Result
  <2> QED
    BY <1>a, <2>1, <2>2, <2>3, <2>4 DEF DashInv, Polled, poll
<1>3. ASSUME NEW p \in Pages, Respond(p)
      PROVE  DashInv'
  <2>1. p # Poller /\ p \in Callers /\ phase[p] \in {"done", "failed"}
    BY <1>3, <1>b DEF Respond, Remember, RememberPsu, Answers
  <2>2. call[p] \in Ops
    BY <1>c, <2>1
  <2>3. UNCHANGED <<poll, blank, clicks, faults>>
        /\ UNCHANGED <<call[Poller], phase[Poller], copy[Poller]>>
    BY <1>3, <1>b, <1>c, <2>1 DEF Respond, Remember, RememberPsu, Answers, Returns, Result, Goes
  <2>4. shown' \subseteq Slots /\ psuOn' \in BOOLEAN
    BY <1>3, <1>a, <2>2, OpShape DEF Respond, Remember, RememberPsu, Answers, PageTyped
  <2>5. doubt' \subseteq Slots \cup {"psu"} /\ alone' \subseteq Callers
    BY <1>3, <1>a, <2>2, OpShape
       DEF Respond, Remember, RememberPsu, Answers, PageTyped, Subjects
  <2> QED
    BY <1>a, <2>3, <2>4, <2>5 DEF DashInv, PageTyped, Polled, poll
<1>4. ASSUME NEW p \in Pages \cup {Tool}, NEW o \in Ops, Request(p, o) \/ (p = Tool /\ ToolCalls(o))
      PROVE  DashInv'
  <2>1. p # Poller /\ p \in Callers /\ Asks(p, o) /\ clicks' \in 0..MaxClicks
        /\ UNCHANGED <<copy, shown, psuOn, poll, blank, faults>>
    BY <1>4, <1>a, <1>b, Spent DEF Request, ToolCalls
  <2>2. UNCHANGED <<call[Poller], phase[Poller], copy[Poller]>>
    BY <1>b, <1>c, <2>1 DEF Asks, Goes
  <2>3. doubt' \subseteq Slots \cup {"psu"} /\ alone' \subseteq Callers
    BY <1>4, <1>a, <1>b, <2>1, OpShape DEF Request, ToolCalls, PageTyped, Subjects
  <2> QED
    BY <1>a, <2>1, <2>2, <2>3 DEF DashInv, PageTyped, Polled, poll
<1>5. CASE ToolReturns
  <2>1. UNCHANGED <<memory, poll, blank, clicks, faults>>
        /\ UNCHANGED <<call[Poller], phase[Poller], copy[Poller]>>
    BY <1>5, <1>b, <1>c DEF ToolReturns, Returns, Result, Goes
  <2> QED
    BY <1>a, <2>1 DEF DashInv, PageTyped, Polled, poll, memory
<1>6. CASE PollAsks
  <2>1. UNCHANGED <<memory, poll, blank, clicks, faults>> /\ phase'[Poller] = "queued"
    BY <1>6, <1>b, <1>c DEF PollAsks, Asks, Goes
  <2>2. <<stage, call'[Poller].op>>
          \in {<<"psu", "status">>, <<"dac", "get">>, <<"io", "port">>}
    BY <1>6, <1>b, <1>c DEF PollAsks, Asks
  <2> QED
    BY <1>a, <2>1, <2>2 DEF DashInv, PageTyped, Polled, poll, memory
<1>7. CASE PollReturns \/ PollClears
  <2>1. UNCHANGED <<memory, blank, clicks, faults>>
        /\ call'[Poller] = NoCall /\ phase'[Poller] = "idle"
    BY <1>7, <1>b, <1>c DEF PollReturns, PollClears, Returns, Goes
  <2>2. stage' \in {"dac", "io", "update"}
    BY <1>7 DEF PollReturns, PollClears
  <2>3. draft' \in Results /\ status' \in Results \cup {Cleared}
    <3>1. CASE PollReturns
      BY <3>1, <1>a DEF PollReturns, PageTyped, Results
    <3>2. CASE PollClears
      <4>1. (IF phase[Poller] = "done" THEN copy[Poller] ELSE {}) \subseteq Slots
        BY <3>2, <1>a DEF PollClears, Polled
      <4> QED
        BY <3>2, <4>1, <1>a DEF PollClears, PageTyped, Results
    <3> QED
      BY <1>7, <3>1, <3>2
  <2> QED
    BY <1>a, <2>1, <2>2, <2>3 DEF DashInv, PageTyped, Polled, memory
<1>8. CASE PollUpdates
  <2>1. Nothing \in Results
    BY DEF Nothing, Results
  <2>2. call[Poller] = NoCall
    BY <1>8, <1>a DEF PollUpdates, Polled
  <2> QED
    BY <1>8, <1>a, <2>1, <2>2 DEF PollUpdates, DashInv, PageTyped, Polled, memory
<1>9. CASE Refresh
  BY <1>9, <1>a DEF Refresh, DashInv, PageTyped, Polled, memory, poll
<1>10. ASSUME NEW o \in loose, ActsLate(o)
       PROVE  DashInv'
  <2>1. Subjects(o) \subseteq Slots \cup {"psu"}
    BY OpShape DEF BusInv, BusTyped, Subjects
  <2> QED
    BY <1>10, <1>a, <2>1 DEF ActsLate, DashInv, PageTyped, Polled, poll
<1>11. CASE BrokerRestarts
  <2>1. faults' \in 0..MaxFaults /\ phase'[Poller] # "done"
    BY <1>11, <1>a, <1>b, Spent DEF BrokerRestarts
  <2> QED
    BY <1>11, <1>a, <2>1 DEF BrokerRestarts, DashInv, PageTyped, Polled, poll
<1> QED
  BY <1>1, <1>2, <1>3, <1>4, <1>5, <1>6, <1>7, <1>8, <1>9, <1>10, <1>11, <1>b
     DEF Next, Handler, Poll

\* Dashboard.TypeOK, for every number of threads, slots, channels and faults.
THEOREM Typing == Spec => []TypeOK
<1>1. BusInv /\ DashInv => TypeOK
  BY DEF BusInv, BusTyped, DashInv, PageTyped, TypeOK, Phases
<1> QED
  BY <1>1, BusInit, BusKept, DashInit, DashKept, PTL DEF Spec

-----------------------------------------------------------------------------
(* What the dashboard remembers.  A request that nothing has overlapped     *)
(* finds its subject, when it comes back, as it has left it.                *)

MemInv ==
  /\ \A p \in alone : /\ p \in Pages /\ call[p] # NoCall
                      /\ \A d \in Callers \ {p} : call[d] # NoCall =>
                            Subjects(call[d]) \cap Subjects(call[p]) = {}
  /\ \A p \in alone : phase[p] = "done" /\ call[p].op = "pin"
                        => (call[p].slot \in latch <=> call[p].on)
  /\ \A p \in alone : phase[p] \in {"inside", "done"} /\ call[p].op = "psu"
                        => psOn = call[p].on
  /\ call[Tool] # NoCall => Subjects(call[Tool]) \subseteq doubt
  /\ MemoryIsTrue

LEMMA MemInit == Init => MemInv
BY DEF Init, MemInv, MemoryIsTrue, Callers

LEMMA MemKept ==
  ASSUME BusInv, DashInv, MemInv, [Next]_vars
  PROVE  MemInv'
<1> USE DashboardConstants, NoCallIsNone
<1>b. Pages \subseteq Callers /\ Poller \in Callers /\ Tool \in Callers
  BY DEF Callers
<1>c. /\ call \in [Callers -> Ops \cup {NoCall}] /\ phase \in [Callers -> Phases]
      /\ copy = [c \in Callers |-> copy[c]]
      /\ \A c \in Callers : phase[c] = "idle" <=> call[c] = NoCall
  BY DEF BusInv, BusTyped
<1>1. CASE UNCHANGED vars
  BY <1>1 DEF vars, MemInv, MemoryIsTrue, InCall
<1>2. ASSUME NEW c \in Callers, Open(c) \/ Opened(c) \/ NoPwrOk(c) \/ Raises(c) \/ GivesUp(c)
      PROVE  MemInv'
  <2>1. UNCHANGED <<call, shown, psuOn, latch, psOn, doubt, alone>>
    BY <1>2 DEF Open, Opened, NoPwrOk, Raises, GivesUp, hardware, memory
  <2>2. \A d \in Callers :
          /\ phase'[d] = "inside" => phase[d] = "inside"
          /\ phase'[d] = "done" =>
               (phase[d] = "done" \/ (phase[d] = "inside" /\ call[d].op = "psu"))
    BY <1>2, <1>c DEF Open, Opened, NoPwrOk, Raises, GivesUp, Goes
  <2>3. MemoryIsTrue'
    BY <2>1 DEF MemInv, MemoryIsTrue, InCall
  <2>4. \A p \in alone : /\ p \in Pages /\ p \in Callers
                         /\ (phase'[p] = "done" /\ call[p].op = "pin") => phase[p] = "done"
                         /\ (phase'[p] \in {"inside", "done"} /\ call[p].op = "psu")
                             => phase[p] \in {"inside", "done"}
    BY <1>b, <2>2 DEF MemInv
  <2> QED
    <3>1. /\ \A p \in alone' : /\ p \in Pages /\ call'[p] # NoCall
                               /\ \A d \in Callers \ {p} : call'[d] # NoCall =>
                                    Subjects(call'[d]) \cap Subjects(call'[p]) = {}
          /\ call'[Tool] # NoCall => Subjects(call'[Tool]) \subseteq doubt'
      BY <2>1 DEF MemInv
    <3>2. \A p \in alone' : (phase'[p] = "done" /\ call'[p].op = "pin")
                               => (call'[p].slot \in latch' <=> call'[p].on)
      BY <2>1, <2>4 DEF MemInv
    <3>3. \A p \in alone' : (phase'[p] \in {"inside", "done"} /\ call'[p].op = "psu")
                               => psOn' = call'[p].on
      BY <2>1, <2>4 DEF MemInv
    <3> QED
      BY <2>3, <3>1, <3>2, <3>3 DEF MemInv
<1>3. ASSUME NEW c \in Callers, Enter(c)
      PROVE  MemInv'
  <2>1. /\ call[c] \in Ops /\ UNCHANGED <<call, shown, psuOn, latch, doubt, alone>>
        /\ phase' = [phase EXCEPT ![c] = "inside"]
        /\ psOn' = IF call[c].op = "psu" THEN call[c].on ELSE psOn
    BY <1>3, <1>c DEF Enter, Goes, Switch, memory
  <2>2. MemoryIsTrue'
    BY <2>1 DEF MemInv, MemoryIsTrue, InCall, Subjects
  <2>3. \A p \in alone : phase'[p] \in {"inside", "done"} /\ call[p].op = "psu"
                            => psOn' = call[p].on
    BY <1>b, <1>c, <2>1 DEF MemInv, Subjects
  <2> QED
    BY <1>b, <1>c, <2>1, <2>2, <2>3 DEF MemInv
<1>4. ASSUME NEW c \in Callers, Leave(c)
      PROVE  MemInv'
  <2>1. /\ call[c] \in Ops /\ UNCHANGED <<call, shown, psuOn, psOn, doubt, alone>>
        /\ phase[c] = "inside" /\ phase' = [phase EXCEPT ![c] = "done"]
        /\ latch' = IF call[c].op = "pin" THEN WithPin(latch, call[c]) ELSE latch
    BY <1>4, <1>c DEF Leave, Goes, memory, BusInv, Current
  <2>2. MemoryIsTrue'
    BY <2>1 DEF MemInv, MemoryIsTrue, InCall, Subjects, WithPin
  <2>3. \A p \in alone : phase'[p] = "done" /\ call[p].op = "pin"
                            => (call[p].slot \in latch' <=> call[p].on)
    BY <1>b, <1>c, <2>1 DEF MemInv, Subjects, WithPin
  <2> QED
    BY <1>b, <1>c, <2>1, <2>2, <2>3 DEF MemInv
<1>5. ASSUME NEW p \in Pages, NEW o \in Ops, Request(p, o)
      PROVE  MemInv'
  <2>1. /\ call[p] = NoCall /\ call' = [call EXCEPT ![p] = o]
        /\ phase' = [phase EXCEPT ![p] = "queued"] /\ p # Tool
        /\ UNCHANGED <<latch, psOn, shown, psuOn, doubt>>
        /\ alone' = IF Rivals(p, o) = {} THEN alone \cup {p} ELSE alone \ Rivals(p, o)
    BY <1>5 DEF Request, Asks, Goes, hardware
  <2>2. \A q \in alone' \ {p} : q \in alone /\ Subjects(call[q]) \cap Subjects(o) = {}
    BY <1>b, <2>1 DEF Rivals, MemInv
  <2>3. p \in alone' => \A d \in Callers \ {p} : call[d] # NoCall =>
                           Subjects(call[d]) \cap Subjects(o) = {}
    BY <1>b, <2>1 DEF Rivals, MemInv
  <2>4. \A x : InCall(x) => InCall(x)'
    BY <1>b, <1>c, <2>1 DEF InCall
  <2>5. MemoryIsTrue'
    BY <2>1, <2>4 DEF MemInv, MemoryIsTrue
  <2>6. \A q \in alone' : /\ q \in Pages /\ call'[q] # NoCall
                         /\ \A d \in Callers \ {q} : call'[d] # NoCall =>
                               Subjects(call'[d]) \cap Subjects(call'[q]) = {}
    BY <1>b, <1>c, <2>1, <2>2, <2>3 DEF MemInv
  <2> QED
    BY <1>b, <1>c, <2>1, <2>2, <2>5, <2>6 DEF MemInv
<1>6. ASSUME NEW o \in Ops, ToolCalls(o)
      PROVE  MemInv'
  <2>1. /\ call[Tool] = NoCall /\ call' = [call EXCEPT ![Tool] = o]
        /\ phase' = [phase EXCEPT ![Tool] = "queued"] /\ Tool \notin alone
        /\ UNCHANGED <<latch, psOn, shown, psuOn>>
        /\ doubt' = doubt \cup Subjects(o) /\ alone' = alone \ Rivals(Tool, o)
    BY <1>6 DEF ToolCalls, Asks, Goes, hardware, MemInv
  <2>2. \A q \in alone' : q \in alone /\ Subjects(call[q]) \cap Subjects(o) = {}
    BY <1>b, <2>1 DEF Rivals, MemInv
  <2>3. \A x : InCall(x) => InCall(x)'
    BY <1>b, <1>c, <2>1 DEF InCall
  <2>4. MemoryIsTrue'
    BY <2>1, <2>3 DEF MemInv, MemoryIsTrue
  <2> QED
    BY <1>b, <1>c, <2>1, <2>2, <2>4 DEF MemInv
<1>7. ASSUME NEW p \in Pages, Remember(p)
      PROVE  MemInv'
  <2>1. /\ call[p] \in Ops /\ call[p].op = "pin" /\ phase[p] = "done" /\ p # Tool
        /\ call' = [call EXCEPT ![p] = NoCall] /\ phase' = [phase EXCEPT ![p] = "idle"]
        /\ UNCHANGED <<latch, psOn, psuOn>> /\ alone' = alone \ {p}
        /\ shown' = IF call[p].on THEN shown \cup {call[p].slot} ELSE shown \ {call[p].slot}
        /\ doubt' = IF p \in alone THEN doubt \ {call[p].slot} ELSE doubt \cup {call[p].slot}
    BY <1>7, <1>b, <1>c DEF Remember, Returns, Goes, hardware
  <2>2. Subjects(call[p]) = {call[p].slot} /\ call[p].slot # "psu"
    BY <2>1, OpShape DEF Subjects
  <2>3. \A x : x # call[p].slot => (InCall(x)' <=> InCall(x))
    BY <1>b, <1>c, <2>1, <2>2 DEF InCall
  <2>4. MemoryIsTrue'
    <3>1. ASSUME NEW s \in Slots \ doubt', ~InCall(s)'
          PROVE  s \in shown' <=> s \in latch'
      <4>1. CASE s = call[p].slot
        BY <2>1, <3>1, <4>1 DEF MemInv
      <4>2. CASE s # call[p].slot
        BY <2>1, <2>3, <3>1, <4>2 DEF MemInv, MemoryIsTrue
      <4> QED
        BY <4>1, <4>2
    <3>2. "psu" \notin doubt' /\ ~InCall("psu")' => psuOn' = psOn'
      BY <2>1, <2>2, <2>3 DEF MemInv, MemoryIsTrue
    <3> QED
      BY <3>1, <3>2 DEF MemoryIsTrue
  <2>5. call'[Tool] # NoCall => Subjects(call'[Tool]) \subseteq doubt'
    BY <1>b, <1>c, <2>1, <2>2 DEF MemInv
  <2> QED
    BY <1>b, <1>c, <2>1, <2>4, <2>5 DEF MemInv
<1>8. ASSUME NEW p \in Pages, RememberPsu(p)
      PROVE  MemInv'
  <2> DEFINE noted == copy[p] \/ ~call[p].on
  <2>1. /\ call[p] \in Ops /\ call[p].op = "psu" /\ phase[p] = "done" /\ p # Tool
        /\ call' = [call EXCEPT ![p] = NoCall] /\ phase' = [phase EXCEPT ![p] = "idle"]
        /\ UNCHANGED <<latch, psOn>> /\ alone' \subseteq alone \ {p}
    BY <1>8, <1>b, <1>c DEF RememberPsu, Returns, Goes, hardware
  <2>2. /\ psuOn' = IF noted THEN call[p].on ELSE psuOn
        /\ shown' = IF call[p].on THEN shown ELSE {}
        /\ doubt' = (IF p \in alone /\ noted THEN doubt \ {"psu"} ELSE doubt \cup {"psu"})
                      \cup (IF call[p].on THEN {} ELSE Slots)
    BY <1>8 DEF RememberPsu
  <2>3. Subjects(call[p]) = {"psu"}
    BY <2>1 DEF Subjects
  <2>4. \A x : x # "psu" => (InCall(x)' <=> InCall(x))
    BY <1>b, <1>c, <2>1, <2>3 DEF InCall
  <2>5. MemoryIsTrue'
    <3>1. ASSUME NEW s \in Slots \ doubt', ~InCall(s)'
          PROVE  s \in shown' <=> s \in latch'
      BY <2>1, <2>2, <2>4, <3>1 DEF MemInv, MemoryIsTrue
    <3>2. "psu" \notin doubt' => psuOn' = psOn'
      BY <2>1, <2>2 DEF MemInv
    <3> QED
      BY <3>1, <3>2 DEF MemoryIsTrue
  <2>6. call'[Tool] # NoCall => Subjects(call'[Tool]) \subseteq doubt'
    BY <1>b, <1>c, <2>1, <2>2, <2>3 DEF MemInv
  <2> QED
    BY <1>b, <1>c, <2>1, <2>5, <2>6 DEF MemInv
<1>9. ASSUME NEW p \in Pages, Answers(p)
      PROVE  MemInv'
  <2>1. /\ call[p] # NoCall /\ p # Tool
        /\ call' = [call EXCEPT ![p] = NoCall] /\ phase' = [phase EXCEPT ![p] = "idle"]
        /\ UNCHANGED <<latch, psOn, shown, psuOn>>
        /\ doubt' = doubt \cup Subjects(call[p]) /\ alone' = alone \ {p}
    BY <1>9, <1>b, <1>c DEF Answers, Returns, Goes, hardware
  <2>2. \A x : x \notin Subjects(call[p]) => (InCall(x)' <=> InCall(x))
    BY <1>b, <1>c, <2>1 DEF InCall
  <2>3. MemoryIsTrue'
    BY <2>1, <2>2 DEF MemInv, MemoryIsTrue
  <2> QED
    BY <1>b, <1>c, <2>1, <2>3 DEF MemInv
<1>10. CASE ToolReturns
  <2>1. /\ call[Tool] # NoCall /\ Tool \notin alone
        /\ call' = [call EXCEPT ![Tool] = NoCall] /\ phase' = [phase EXCEPT ![Tool] = "idle"]
        /\ UNCHANGED <<latch, psOn, shown, psuOn, doubt, alone>>
    BY <1>10, <1>b, <1>c DEF ToolReturns, Returns, Goes, hardware, memory, MemInv
  <2>2. \A x : x \notin doubt => (InCall(x)' <=> InCall(x))
    BY <1>b, <1>c, <2>1 DEF InCall, MemInv
  <2>3. MemoryIsTrue'
    BY <2>1, <2>2 DEF MemInv, MemoryIsTrue
  <2> QED
    BY <1>b, <1>c, <2>1, <2>3 DEF MemInv
<1>11. CASE PollAsks \/ PollReturns \/ PollClears
  <2>1. /\ \A c \in Callers \ {Poller} : call'[c] = call[c] /\ phase'[c] = phase[c]
        /\ UNCHANGED <<latch, psOn, shown, psuOn, doubt, alone>>
        /\ Poller \notin alone /\ Poller # Tool
    BY <1>11, <1>b, <1>c DEF PollAsks, PollReturns, PollClears, Asks, Returns, Goes, hardware,
                             memory, MemInv
  <2>2. /\ call[Poller] # NoCall => Subjects(call[Poller]) = {}
        /\ call'[Poller] # NoCall => Subjects(call'[Poller]) = {}
    <3>1. ASSUME call[Poller] # NoCall PROVE Subjects(call[Poller]) = {}
      BY <3>1 DEF DashInv, Polled, Subjects
    <3>2. DashInv'
      BY DashKept
    <3>3. ASSUME call'[Poller] # NoCall PROVE Subjects(call'[Poller]) = {}
      BY <3>2, <3>3 DEF DashInv, Polled, Subjects
    <3> QED
      BY <3>1, <3>3
  <2>3. \A x : InCall(x)' <=> InCall(x)
    BY <1>b, <2>1, <2>2 DEF InCall
  <2>4. MemoryIsTrue'
    BY <2>1, <2>3 DEF MemInv, MemoryIsTrue
  <2> QED
    BY <1>b, <2>1, <2>2, <2>4 DEF MemInv
<1>12. CASE PollUpdates \/ Refresh
  BY <1>12 DEF PollUpdates, Refresh, hardware, memory, MemInv, MemoryIsTrue, InCall
<1>13. ASSUME NEW o \in loose, ActsLate(o)
       PROVE  MemInv'
  <2>1. /\ UNCHANGED <<latch, call, phase, shown, psuOn>>
        /\ doubt' = doubt \cup Subjects(o)
        /\ alone' = {p \in alone : Subjects(call[p]) \cap Subjects(o) = {}}
        /\ psOn' = IF o.op = "psu" THEN o.on ELSE psOn
    BY <1>13 DEF ActsLate, Switch
  <2>2. MemoryIsTrue'
    BY <2>1 DEF MemInv, MemoryIsTrue, InCall, Subjects
  <2> QED
    BY <1>b, <2>1, <2>2 DEF MemInv, Subjects
<1>14. CASE BrokerRestarts
  BY <1>14 DEF BrokerRestarts, MemInv, MemoryIsTrue, InCall
<1> QED
  BY <1>1, <1>2, <1>3, <1>4, <1>5, <1>6, <1>7, <1>8, <1>9, <1>10, <1>11, <1>12, <1>13, <1>14,
     <1>b DEF Next, Handler, Respond, Poll

\* app.py:246, 264-266: memory and hardware agree on every slot and on the
\* supply, unless one of the four things has happened that MemoryIsTrue names.
THEOREM MemoryHolds == Spec => []MemoryIsTrue
<1>1. MemInv => MemoryIsTrue
  BY DEF MemInv
<1> QED
  BY <1>1, BusInit, BusKept, DashInit, DashKept, MemInit, MemKept, PTL DEF Spec
=============================================================================

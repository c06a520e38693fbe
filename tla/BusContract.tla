----------------------------- MODULE BusContract -----------------------------
(***************************************************************************)
(* What the broker promises those who share it: a hardware operation acts  *)
(* at one instant, between its call and its return, on what the operations *)
(* before it have left.  A call that raises has acted, or has not, or will *)
(* yet.                                                                    *)
(***************************************************************************)
EXTENDS Naturals

CONSTANTS Callers, Slots, Channels, Volts, NoCall

VARIABLES latch,  \* relays whose bit is set
          dac,    \* data register of each DAC channel
          psOn,   \* PSU_ON asserted
          call,   \* the operation of each caller, NoCall without one
          acted,  \* callers whose operation has acted
          got,    \* what it has read
          loose   \* operations whose caller is gone

vars == <<latch, dac, psOn, call, acted, got, loose>>

Ops == [op : {"pin"}, slot : Slots, on : BOOLEAN] \cup [op : {"psu"}, on : BOOLEAN]
         \cup [op : {"set"}, ch : Channels, v : Volts] \cup [op : {"get"}, ch : Channels]
         \cup [op : {"port", "status"}]

Init == /\ latch = {} /\ dac = [ch \in Channels |-> 0] /\ psOn \in BOOLEAN
        /\ call = [c \in Callers |-> NoCall] /\ acted = {}
        /\ got = [c \in Callers |-> NoCall] /\ loose = {}

\* Without its supply a DAC forgets, and neither hears nor answers.
Effect(o) ==
  /\ latch' = IF o.op # "pin" THEN latch
              ELSE IF o.on THEN latch \cup {o.slot} ELSE latch \ {o.slot}
  /\ psOn' = IF o.op = "psu" THEN o.on ELSE psOn
  /\ dac' = IF ~psOn' THEN [ch \in Channels |-> 0]
            ELSE IF o.op = "set" THEN [dac EXCEPT ![o.ch] = o.v] ELSE dac

Reading(o) == CASE o.op = "get" /\ psOn -> dac[o.ch]
                [] o.op = "port" -> latch
                [] o.op = "status" -> psOn
                [] OTHER -> NoCall

Ask(c) == /\ call[c] = NoCall
          /\ call'[c] \in Ops /\ call' = [call EXCEPT ![c] = call'[c]]
          /\ UNCHANGED <<latch, dac, psOn, acted, got, loose>>

Act(c) == /\ call[c] # NoCall /\ c \notin acted
          /\ acted' = acted \cup {c}
          /\ Effect(call[c])
          /\ got' = [got EXCEPT ![c] = Reading(call[c])]
          /\ UNCHANGED <<call, loose>>

Return(c) == /\ call[c] # NoCall
             /\ call' = [call EXCEPT ![c] = NoCall]
             /\ acted' = acted \ {c}
             /\ got' = [got EXCEPT ![c] = NoCall]
             /\ loose' \in {loose, IF c \in acted THEN loose ELSE loose \cup {call[c]}}
             /\ UNCHANGED <<latch, dac, psOn>>

ActLate(o) == /\ o \in loose
              /\ loose' = loose \ {o}
              /\ Effect(o)
              /\ UNCHANGED <<call, acted, got>>

\* A broker that starts again asserts PSU_ON, and has forgotten its callers.
Restart == /\ call' = [c \in Callers |-> NoCall] /\ acted' = {} /\ loose' = {}
           /\ got' = [c \in Callers |-> NoCall]
           /\ psOn' = TRUE
           /\ UNCHANGED <<latch, dac>>

Next == \/ \E c \in Callers : Ask(c) \/ Act(c) \/ Return(c)
        \/ \E o \in loose : ActLate(o)
        \/ Restart

Spec == Init /\ [][Next]_vars
=============================================================================

------------------------------- MODULE CanLink -------------------------------
(***************************************************************************)
(* The CAN half of the broker (broker/bus.py): handler threads that change *)
(* a SocketCAN link under _can_lock with `ip link`, the mode byte and the  *)
(* python-can socket the broker keeps for each controller, and readers of  *)
(* the mode that take no lock.  Outside the broker, hil-can-up brings the  *)
(* links up again and a reload of mcp251x makes them anew.                 *)
(***************************************************************************)
EXTENDS Naturals

CONSTANTS Controllers,
          Threads,     \* handler threads of the broker
          NoOne,
          MaxFailures, \* bound: `ip link set` that fails, in one behaviour
          MaxOutside   \* bound: reloads and restarts of hil-can-up

ASSUME LinkConstants == /\ NoOne \notin Threads /\ Controllers # {}
                        /\ MaxFailures \in Nat /\ MaxOutside \in Nat

VARIABLES
  lock,     \* holder of _can_lock
  pc,       \* of each thread, where its call stands
  op,       \* and which call it is
  on,       \* and on which controller
  up,       \* of each link: it is up
  echo,     \* its loopback flag, which the kernel keeps until told otherwise
  byte,     \* _can_mode_bytes
  socket,   \* _can_buses: "none", "open", or "orphan" of a link that is gone
  said,     \* what the last call of each thread returned
  disturbed, \* threads in a call during which the outside touched a link
  failures, outside   \* what is left of the two bounds

kernel == <<up, echo>>
vars == <<lock, pc, op, on, up, echo, byte, socket, said, disturbed, failures, outside>>

Modes == {"CONFIG", "NORMAL", "LOOPBACK"}
\* can_reset and can_init do what can_set_mode(CONFIG) does.
Changes == Modes \cup {"test"}
Loops(t) == op[t] \in {"LOOPBACK", "test"}

TypeOK ==
  /\ lock \in Threads \cup {NoOne}
  /\ pc \in [Threads -> {"idle", "close", "raise", "record", "send", "recv", "byte"}]
  /\ op \in [Threads -> Changes \cup {"get"}] /\ on \in [Threads -> Controllers]
  /\ up \in [Controllers -> BOOLEAN] /\ echo \in [Controllers -> BOOLEAN]
  /\ byte \in [Controllers -> Modes]
  /\ socket \in [Controllers -> {"none", "open", "orphan"}]
  /\ said \in [Threads -> Modes \cup {"nothing", "true", "false", "ipFailed", "sendFailed"}]
  /\ disturbed \subseteq Threads
  /\ failures \in 0..MaxFailures /\ outside \in 0..MaxOutside

\* hil-can-up has run, and nobody has called yet.
Init ==
  /\ lock = NoOne
  /\ pc = [t \in Threads |-> "idle"] /\ op = [t \in Threads |-> "get"]
  /\ on \in [Threads -> {CHOOSE i \in Controllers : TRUE}]
  /\ up = [i \in Controllers |-> TRUE] /\ echo = [i \in Controllers |-> FALSE]
  /\ byte = [i \in Controllers |-> "CONFIG"]
  /\ socket = [i \in Controllers |-> "none"]
  /\ said = [t \in Threads |-> "nothing"] /\ disturbed = {}
  /\ failures = MaxFailures /\ outside = MaxOutside

-----------------------------------------------------------------------------
(* The calls that change a link.                                           *)

Goto(t, l) == pc' = [pc EXCEPT ![t] = l]
Return(t, what) == /\ Goto(t, "idle") /\ said' = [said EXCEPT ![t] = what]

\* Mutant: the lock is not taken.
EnterUnlocked(t, what, i) ==
  /\ pc[t] = "idle"
  /\ op' = [op EXCEPT ![t] = what] /\ on' = [on EXCEPT ![t] = i]
  /\ Goto(t, "close")
  /\ disturbed' = disturbed \ {t}
  /\ UNCHANGED <<lock, kernel, byte, socket, said, failures, outside>>

Enter(t, what, i) ==
  /\ pc[t] = "idle" /\ lock = NoOne
  /\ lock' = t
  /\ op' = [op EXCEPT ![t] = what] /\ on' = [on EXCEPT ![t] = i]
  /\ Goto(t, "close")
  /\ disturbed' = disturbed \ {t}
  /\ UNCHANGED <<kernel, byte, socket, said, failures, outside>>

\* Mutant: the socket stays open.
TakeDownOnly(t) ==
  /\ pc[t] = "close"
  /\ up' = [up EXCEPT ![on[t]] = FALSE]
  /\ Goto(t, IF op[t] = "CONFIG" THEN "record" ELSE "raise")
  /\ UNCHANGED <<lock, op, on, echo, byte, socket, said, disturbed, failures, outside>>

\* _bus_close and _ip_down, which nobody is told of when it fails.
TakeDown(t) ==
  /\ pc[t] = "close"
  /\ socket' = [socket EXCEPT ![on[t]] = "none"]
  /\ \/ up' = [up EXCEPT ![on[t]] = FALSE] /\ UNCHANGED failures
     \/ UNCHANGED up /\ failures > 0 /\ failures' = failures - 1
  /\ Goto(t, IF op[t] = "CONFIG" THEN "record" ELSE "raise")
  /\ UNCHANGED <<lock, op, on, echo, byte, said, disturbed, outside>>

\* _ip_up asks for loopback or does not mention it.
BringUp(t) ==
  /\ pc[t] = "raise" /\ ~up[on[t]]
  /\ up' = [up EXCEPT ![on[t]] = TRUE]
  /\ echo' = [echo EXCEPT ![on[t]] = @ \/ Loops(t)]
  /\ Goto(t, "record")
  /\ UNCHANGED <<lock, op, on, byte, socket, said, disturbed, failures, outside>>

\* `ip` fails, before or after the kernel took the flag, and it always does on
\* a link that is up, since its bitrate cannot be set; the call raises.
BringUpFails(t) ==
  /\ pc[t] = "raise"
  /\ IF up[on[t]] THEN UNCHANGED failures
                  ELSE failures > 0 /\ failures' = failures - 1
  /\ \E flag \in {echo[on[t]], echo[on[t]] \/ Loops(t)} :
       echo' = [echo EXCEPT ![on[t]] = flag]
  /\ lock' = NoOne /\ Return(t, "ipFailed")
  /\ UNCHANGED <<op, on, up, byte, socket, disturbed, outside>>

\* Mutant: the byte is what the caller asked for, in the words of the RPC.
RecordAsked(t) ==
  /\ pc[t] = "record"
  /\ byte' = [byte EXCEPT ![on[t]] = op[t]]
  /\ IF op[t] = "test" THEN Goto(t, "send") /\ UNCHANGED <<lock, said>>
                       ELSE lock' = NoOne /\ Return(t, "true")
  /\ UNCHANGED <<op, on, kernel, socket, disturbed, failures, outside>>

Record(t) ==
  /\ pc[t] = "record"
  /\ byte' = [byte EXCEPT ![on[t]] = IF Loops(t) THEN "LOOPBACK" ELSE op[t]]
  /\ IF op[t] = "test" THEN Goto(t, "send") /\ UNCHANGED <<lock, said>>
                       ELSE lock' = NoOne /\ Return(t, "true")
  /\ UNCHANGED <<op, on, kernel, socket, disturbed, failures, outside>>

\* _ensure_bus and send, which raises on a link that is down.
Send(t) ==
  /\ pc[t] = "send"
  /\ socket' = [socket EXCEPT ![on[t]] = IF @ = "none" THEN "open" ELSE @]
  /\ IF up[on[t]] /\ socket'[on[t]] = "open"
     THEN Goto(t, "recv") /\ UNCHANGED <<lock, said>>
     ELSE lock' = NoOne /\ Return(t, "sendFailed")
  /\ UNCHANGED <<op, on, kernel, byte, disturbed, failures, outside>>

\* recv returns the frame if the chip looped it back, and times out if not.
Receive(t) ==
  /\ pc[t] = "recv"
  /\ LET heard == up[on[t]] /\ echo[on[t]] /\ socket[on[t]] = "open"
     IN  Return(t, IF heard THEN "true" ELSE "false")
  /\ lock' = NoOne
  /\ UNCHANGED <<op, on, kernel, byte, socket, disturbed, failures, outside>>

-----------------------------------------------------------------------------
(* can_get_mode asks the kernel, then the byte, without the lock.          *)

AskKernel(t, i) ==
  /\ pc[t] = "idle"
  /\ op' = [op EXCEPT ![t] = "get"] /\ on' = [on EXCEPT ![t] = i]
  /\ IF up[i] THEN Goto(t, "byte") /\ UNCHANGED said ELSE Return(t, "CONFIG")
  /\ UNCHANGED <<lock, kernel, byte, socket, disturbed, failures, outside>>

AskByte(t) ==
  /\ pc[t] = "byte"
  /\ Return(t, byte[on[t]])
  /\ UNCHANGED <<lock, op, on, kernel, byte, socket, disturbed, failures, outside>>

-----------------------------------------------------------------------------
(* Outside the broker.                                                     *)

Outside == /\ outside > 0 /\ outside' = outside - 1
           /\ disturbed' = disturbed \cup {t \in Threads : pc[t] # "idle"}

\* hil-can-up: down, and up with no word about loopback either.
CanUpRestarts ==
  /\ Outside
  /\ up' = [i \in Controllers |-> TRUE]
  /\ UNCHANGED <<lock, pc, op, on, echo, byte, socket, said, failures>>

\* modprobe -r and modprobe: new links, down, with no flag set.
Reload ==
  /\ Outside
  /\ up' = [i \in Controllers |-> FALSE] /\ echo' = [i \in Controllers |-> FALSE]
  /\ socket' = [i \in Controllers |-> IF socket[i] = "none" THEN "none" ELSE "orphan"]
  /\ UNCHANGED <<lock, pc, op, on, byte, said, failures>>

\* A call in progress dies where it is, and the link stays as it left it.
BrokerRestarts ==
  /\ Outside
  /\ lock' = NoOne
  /\ pc' = [t \in Threads |-> "idle"] /\ op' = [t \in Threads |-> "get"]
  /\ said' = [t \in Threads |-> "nothing"]
  /\ byte' = [i \in Controllers |-> "CONFIG"]
  /\ socket' = [i \in Controllers |-> "none"]
  /\ UNCHANGED <<on, kernel, failures>>

-----------------------------------------------------------------------------
Next ==
  \/ \E t \in Threads :
       \/ \E i \in Controllers : AskKernel(t, i) \/ \E what \in Changes : Enter(t, what, i)
       \/ TakeDown(t) \/ BringUp(t) \/ BringUpFails(t) \/ Record(t)
       \/ Send(t) \/ Receive(t) \/ AskByte(t)
  \/ CanUpRestarts \/ Reload \/ BrokerRestarts

Spec == Init /\ [][Next]_vars

-----------------------------------------------------------------------------
(* Properties.                                                             *)

\* bus.py:474-494: between its link coming up and its frame coming back nobody
\* else of the broker touches the link of a loopback test, so a test whose link
\* came up passes, however the calls of the other threads interleave.
HealthyTestsPass ==
  \A t \in Threads : op[t] = "test" /\ pc[t] = "idle" /\ t \notin disturbed =>
    said[t] \in {"true", "ipFailed"}

\* bus.py:386-403: the broker keeps no socket of a link it took down, and no
\* test uses a socket that was opened before its link was last made.
SocketFollowsLink ==
  /\ outside = MaxOutside => \A i \in Controllers : socket[i] = "open" => up[i]
  /\ \A t \in Threads : pc[t] = "recv" /\ t \notin disturbed => socket[on[t]] = "open"

\* docs/broker-api.md:224: mode 0x00 is "link UP, `loopback off`".
NormalIsNotLoopback ==
  \A i \in Controllers :
    lock = NoOne /\ up[i] /\ byte[i] = "NORMAL" => ~echo[i]
=============================================================================

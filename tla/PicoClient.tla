------------------------------ MODULE PicoClient ------------------------------
(***************************************************************************)
(* The USB console of the LTC6811 emulator: tools/pico_ltc_emulator/host/  *)
(* pico_ltc_client.py, one line out and one line back with nothing to say  *)
(* which reply belongs to which call, and firmware/src/usb_cmd.c, which    *)
(* gets to its lines only between two polls of the AMS.  A session is the  *)
(* `pico_emu` fixture of the AMS suite or a block of temporarily().  A     *)
(* value is set by the name of its cell or sensor in the AMS               *)
(* (set_module_cell, set_module_temp), or by the place of a channel in the *)
(* chain (set_cell, set_temp, and the overrides of temporarily()).         *)
(***************************************************************************)
EXTENDS Naturals, Sequences

CONSTANTS Modules,   \* AMS modules, two chips of the chain each
          Indices,   \* cells and sensors of a module that are injected
          Raw,       \* channels that are set by their place in the chain
          MaxCalls,  \* bound: calls of the bodies of the sessions
          MaxLate,   \* bound: reads of the port that time out
          MaxPlugs   \* bound: resets of the Pico

ASSUME PicoConstants == /\ Modules \subseteq Nat /\ Indices \subseteq 0..19
                        /\ Raw \subseteq ({"cell"} \X (0..9) \X (0..11))
                                            \cup ({"temp"} \X (0..9) \X (0..31))
                        /\ MaxCalls \in Nat /\ MaxLate \in Nat /\ MaxPlugs \in Nat

VARIABLES
  at,       \* "closed", in the "body" of a session, in its "cleanup"
  due,      \* cleanup calls still to make
  call,     \* the call waiting for its line
  pipe,     \* lines on their way to the Pico
  replies,  \* lines on their way back
  over,     \* channels the Pico has an override for
  silent,   \* modules it does not answer for
  meant,    \* what the calls so far ask for, as the AMS should see it
  tardy,    \* a call of the session has timed out, or found old lines
  calls, late, plugs  \* what is left of the bounds

vars == <<at, due, call, pipe, replies, over, silent, meant, tardy, calls,
          late, plugs>>

-----------------------------------------------------------------------------
(* Addresses.                                                              *)

\* A quantity of a module, as the test names it.
Quantities == [kind : {"cell"}, module : Modules, index : Indices \cap 0..18]
                \cup [kind : {"temp"}, module : Modules, index : Indices]

\* Mutant: the split of ten and nine that the comment of the code tells of.
ChannelInverted(q) ==
  IF q.kind = "temp"
  THEN <<"temp", 2 * q.module, IF q.index < 10 THEN q.index ELSE q.index + 6>>
  ELSE IF q.index < 10 THEN <<"cell", 2 * q.module, q.index>>
  ELSE <<"cell", 2 * q.module + 1, q.index - 10>>

\* _module_cell_to_chain and the mux channel of set_module_temp.
Channel(q) ==
  IF q.kind = "temp"
  THEN <<"temp", 2 * q.module, IF q.index < 10 THEN q.index ELSE q.index + 6>>
  ELSE IF q.index < 9 THEN <<"cell", 2 * q.module, q.index>>
  ELSE <<"cell", 2 * q.module + 1, q.index - 9>>

\* The order in which the AMS reads a module: nine cells of the first chip and
\* ten of the second; mux channels 0-9 and 16-25 of the first.
Wiring(kind, m) ==
  IF kind = "cell" THEN [i \in 1..9 |-> <<"cell", 2 * m, i - 1>>]
                          \o [i \in 1..10 |-> <<"cell", 2 * m + 1, i - 1>>]
  ELSE [i \in 1..10 |-> <<"temp", 2 * m, i - 1>>]
         \o [i \in 1..10 |-> <<"temp", 2 * m, i + 15>>]

Addresses == {Channel(q) : q \in Quantities} \cup Raw

\* What the AMS reads at a place in the chain: at most one quantity.
Wired(address) == {q \in Quantities : Wiring(q.kind, q.module)[q.index + 1] = address}

\* What the AMS finds changed.
Seen == [quantities |-> {q \in Quantities : Wiring(q.kind, q.module)[q.index + 1] \in over},
         silent |-> silent]
Nothing == [quantities |-> {}, silent |-> {}]

-----------------------------------------------------------------------------
(* Lines.                                                                  *)

None == [cmd |-> "none"]
Plain == [cmd : {"ping", "status", "bad", "allCells", "allTemps", "resume", "reset"}]
Stopping == [cmd : {"stop"}, mask : SUBSET Modules]

\* What a caller asks for; "bad" is what the Pico rejects, an address or a
\* value out of its range among it.
Requests == Plain \cup Stopping \cup [cmd : {"inject"}, of : Quantities]
              \cup [cmd : {"set"}, to : Raw]

\* What is said on the line: addresses of the chain, and nothing else.
Lines == Plain \cup Stopping \cup [cmd : {"set"}, to : Addresses]
Line(request) == IF request.cmd = "inject"
                 THEN [cmd |-> "set", to |-> Channel(request.of)] ELSE request

Cells(S) == {c \in S : c[1] = "cell"}

\* Mutant: a reset drops the mask and keeps what was injected, as the comment
\* in conftest.py:978-983 has it.
AppliedAsCommented(line) ==
  CASE line.cmd = "set" -> over' = over \cup {line.to} /\ UNCHANGED silent
    [] line.cmd = "stop" -> silent' = line.mask /\ UNCHANGED over
    [] line.cmd \in {"resume", "reset"} -> silent' = {} /\ UNCHANGED over
    [] line.cmd = "allCells" -> over' = over \ Cells(over) /\ UNCHANGED silent
    [] line.cmd = "allTemps" -> over' = Cells(over) /\ UNCHANGED silent
    [] OTHER -> UNCHANGED <<over, silent>>

\* usb_cmd.c, per command.  A reset sets cells and temperatures to their
\* defaults and forgets the mask.
Applied(line) ==
  CASE line.cmd = "set" -> over' = over \cup {line.to} /\ UNCHANGED silent
    [] line.cmd = "stop" -> silent' = line.mask /\ UNCHANGED over
    [] line.cmd = "resume" -> silent' = {} /\ UNCHANGED over
    [] line.cmd = "reset" -> silent' = {} /\ over' = {}
    [] line.cmd = "allCells" -> over' = over \ Cells(over) /\ UNCHANGED silent
    [] line.cmd = "allTemps" -> over' = Cells(over) /\ UNCHANGED silent
    [] OTHER -> UNCHANGED <<over, silent>>

\* The same, as the caller means it: a cell or sensor of a module by its name,
\* or whatever is wired to a place in the chain.  All cells and all
\* temperatures are set to their defaults.
Meant(request) ==
  CASE request.cmd = "inject" -> [meant EXCEPT !.quantities = @ \cup {request.of}]
    [] request.cmd = "set" -> [meant EXCEPT !.quantities = @ \cup Wired(request.to)]
    [] request.cmd = "stop" -> [meant EXCEPT !.silent = request.mask]
    [] request.cmd = "resume" -> [meant EXCEPT !.silent = {}]
    [] request.cmd = "reset" -> Nothing
    [] request.cmd = "allCells" -> [meant EXCEPT !.quantities = {q \in @ : q.kind = "temp"}]
    [] request.cmd = "allTemps" -> [meant EXCEPT !.quantities = {q \in @ : q.kind = "cell"}]
    [] OTHER -> meant

TypeOK ==
  /\ at \in {"closed", "body", "cleanup"}
  /\ due \in Seq(Plain) /\ (due # <<>> => at = "cleanup")
  /\ call \in Lines \cup {None} /\ (at = "closed" => call = None)
  /\ pipe \in Seq(Lines) /\ replies \in Seq(Lines)
  /\ over \subseteq Addresses /\ silent \subseteq Modules
  /\ meant \in [quantities : SUBSET Quantities, silent : SUBSET Modules]
  /\ tardy \in BOOLEAN
  /\ calls \in 0..MaxCalls /\ late \in 0..MaxLate /\ plugs \in 0..MaxPlugs

Init ==
  /\ at = "closed" /\ due = <<>> /\ call = None
  /\ pipe = <<>> /\ replies = <<>>
  /\ over = {} /\ silent = {} /\ meant = Nothing /\ tardy = FALSE
  /\ calls = MaxCalls /\ late = MaxLate /\ plugs = MaxPlugs

-----------------------------------------------------------------------------
(* The host.                                                               *)

Fixture == << [cmd |-> "resume"], [cmd |-> "reset"],
              [cmd |-> "allCells"], [cmd |-> "allTemps"] >>
Temporarily == << [cmd |-> "reset"] >>

\* reset_input_buffer drops the lines that are there, not those that come in
\* after it.
Open ==
  /\ at = "closed" /\ calls > 0
  /\ at' = "body"
  /\ replies' \in {<<>>, replies} /\ tardy' = (pipe # <<>> \/ replies' # <<>>)
  /\ UNCHANGED <<due, call, pipe, over, silent, meant, calls, late, plugs>>

Sends(request) ==
  /\ call = None /\ call' = Line(request)
  /\ pipe' = Append(pipe, Line(request)) /\ meant' = Meant(request)

\* Mutant: a setter does not wait for its line.
CallNoWait(request) ==
  /\ at = "body" /\ calls > 0 /\ call = None
  /\ call' = (IF request.cmd = "status" THEN request ELSE None)
  /\ pipe' = Append(pipe, Line(request)) /\ meant' = Meant(request)
  /\ calls' = calls - 1
  /\ UNCHANGED <<at, due, replies, over, silent, tardy, late, plugs>>

Call(request) ==
  /\ at = "body" /\ calls > 0
  /\ Sends(request)
  /\ calls' = calls - 1
  /\ UNCHANGED <<at, due, replies, over, silent, tardy, late, plugs>>

\* A body that ends or raises: the finally clause.
Leaves == at' = "cleanup" /\ \E s \in {Fixture, Temporarily} : due' = s

\* The next line is the reply.  "ERR" raises, in the body; the cleanup of the
\* fixture swallows it, that of temporarily() has nothing left to do.  A
\* status has to begin with "OK", which a PONG does not.
Raises ==
  /\ at = "body" /\ call # None /\ replies # <<>>
  /\ \/ Head(replies).cmd = "bad"
     \/ call.cmd = "status" /\ Head(replies).cmd = "ping"
  /\ replies' = Tail(replies) /\ call' = None
  /\ Leaves
  /\ UNCHANGED <<pipe, over, silent, meant, tardy, calls, late, plugs>>

Returns ==
  /\ call # None /\ replies # <<>>
  /\ \/ at = "cleanup"
     \/ Head(replies).cmd # "bad" /\ ~(call.cmd = "status" /\ Head(replies).cmd = "ping")
  /\ replies' = Tail(replies) /\ call' = None
  /\ UNCHANGED <<at, due, pipe, over, silent, meant, tardy, calls, late, plugs>>

\* readline gives an empty line after a second: no error to anybody, except
\* that it is no status.
TimesOut ==
  /\ call # None /\ late > 0
  /\ late' = late - 1 /\ tardy' = TRUE /\ call' = None
  /\ IF call.cmd = "status" THEN Leaves ELSE UNCHANGED <<at, due>>
  /\ UNCHANGED <<pipe, replies, over, silent, meant, calls, plugs>>

BodyEnds ==
  /\ at = "body" /\ call = None
  /\ Leaves
  /\ UNCHANGED <<call, pipe, replies, over, silent, meant, tardy, calls, late, plugs>>

Cleanup ==
  /\ at = "cleanup" /\ due # <<>>
  /\ Sends(Head(due)) /\ due' = Tail(due)
  /\ UNCHANGED <<at, replies, over, silent, tardy, calls, late, plugs>>

\* Mutant: the port is closed under a call.
CloseUnder ==
  /\ at = "cleanup" /\ due = <<>>
  /\ at' = "closed"
  /\ UNCHANGED <<due, call, pipe, replies, over, silent, meant, tardy, calls, late, plugs>>

Close ==
  /\ at = "cleanup" /\ due = <<>> /\ call = None
  /\ at' = "closed"
  /\ UNCHANGED <<due, call, pipe, replies, over, silent, meant, tardy, calls, late, plugs>>

-----------------------------------------------------------------------------
(* The Pico.                                                               *)

Dispatch ==
  /\ pipe # <<>>
  /\ Applied(Head(pipe))
  /\ pipe' = Tail(pipe)
  /\ replies' = Append(replies, Head(pipe))
  /\ UNCHANGED <<at, due, call, meant, tardy, calls, late, plugs>>

\* Unplugged, reset, or sent to its bootloader with BSL and loaded again: the
\* defaults are back, and every use of the port raises until it is opened.
PicoResets ==
  /\ plugs > 0
  /\ plugs' = plugs - 1
  /\ at' = "closed" /\ due' = <<>> /\ call' = None
  /\ pipe' = <<>> /\ replies' = <<>> /\ over' = {} /\ silent' = {}
  /\ meant' = Nothing
  /\ UNCHANGED <<tardy, calls, late>>

-----------------------------------------------------------------------------
\* The aliases inject_cell_v and inject_cell_t, the raw setters, and the rest.
Calls == {[cmd |-> c] : c \in {"ping", "status", "bad", "resume"}}
           \cup [cmd : {"inject"}, of : Quantities]
           \cup [cmd : {"set"}, to : Raw]
           \cup [cmd : {"stop"}, mask : {{m} : m \in Modules}]

Session == Raises \/ Returns \/ BodyEnds \/ Cleanup \/ Close

Next == \/ Open \/ \E request \in Calls : Call(request)
        \/ Session \/ TimesOut \/ Dispatch \/ PicoResets

Spec == Init /\ [][Next]_vars

\* A test body ends, the interpreter runs its finally clauses, and the
\* firmware gets to its console between two polls.
FairSpec == Spec /\ WF_vars(Session) /\ WF_vars(Dispatch)

-----------------------------------------------------------------------------
(* Properties.                                                             *)

\* pico_ltc_client.py:157-161, 193-253: when the Pico has read what was sent to
\* it, the AMS sees changed exactly the cells and sensors the calls have asked
\* for since the last reset, and silent exactly the modules they stopped,
\* whatever timed out on the way.  An injection by module asks for the cell or
\* sensor it names; set_cell and set_temp ask for what the AMS reads at a place
\* in the chain.  The overrides of temporarily() are the latter (295-299),
\* whatever its docstring (292-293) calls them.
SeenAsMeant == pipe = <<>> => Seen = meant

\* pico_ltc_client.py:119-131: although no reply is matched with its call, a
\* call that has returned has been obeyed, as long as none of the session has
\* timed out and the line was quiet when it began.
ReturnMeansDone == at # "closed" /\ call = None /\ ~tardy => pipe = <<>> /\ replies = <<>>

\* pico_ltc_client.py:289-302, tests/hil/ams/conftest.py:985-993: whatever
\* raised or timed out in a session, the chain is back at its defaults some
\* time after it.  temporarily() rests on RESET_STATE alone, which does clear
\* cells and temperatures in the firmware (usb_cmd.c:136-142), although the
\* comment in the fixture (conftest.py:978-983) says it drops only the mask.
SessionsLeaveDefaults == (at = "body") ~> (over = {} /\ silent = {} /\ at # "body")
=============================================================================

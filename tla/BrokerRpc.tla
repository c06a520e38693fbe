------------------------------ MODULE BrokerRpc ------------------------------
(***************************************************************************)
(* The socket of the broker: line-delimited requests on a connection, one  *)
(* handler thread per connection (broker/server.py, broker/rpc.py), and    *)
(* the two ways of calling it: a BrokerClient kept for life (tools/bench,  *)
(* tools/flash_dut) and the client per thread of tools/hil_client, which   *)
(* is dropped on any error of its socket.                                  *)
(*                                                                         *)
(* A reply carries the id of its request, and no client looks at it: that  *)
(* a call gets its own answer rests on who reads what from which socket.   *)
(***************************************************************************)
EXTENDS Naturals, Sequences, FiniteSets

CONSTANTS Clients,
          Cached,       \* those that call through hil_client._call
          Notifiers,    \* those that also send requests without an id
          MaxCalls,     \* bound: requests of one client
          MaxTimeouts,  \* bound: socket timeouts in one behaviour
          MaxStops      \* bound: stops of the broker in one behaviour

ASSUME RpcBounds == /\ Cached \subseteq Clients /\ Notifiers \subseteq Clients
                    /\ MaxCalls \in Nat /\ MaxTimeouts \in Nat /\ MaxStops \in Nat

Numbers == 1..MaxCalls
\* The k-th connection of a client; a call opens at most one.
Conns == Clients \X Numbers

VARIABLES
  broker,   \* the server accepts connections
  sent,     \* how many requests a client has made
  outcome,  \* what became of each of them
  answer,   \* the request whose reply was taken for its answer, 0 for none
  opened,   \* how many connections a client has opened
  conn,     \* the one it holds, 0 for none
  deaf,     \* the read side of it has timed out
  served,   \* connections with a handler thread
  hung,     \* connections whose client end is closed
  inbox,    \* requests written and not yet read by the handler
  running,  \* the request that has acted and has no reply yet, 0 for none
  outbox,   \* replies written and not yet read by the client
  quiet,    \* requests sent without an id
  acted,    \* requests in the order in which they acted on the hardware
  timeouts, stops  \* what is left of the two bounds

clientSide == <<sent, outcome, answer, opened, conn, deaf, hung, quiet, timeouts>>
serverSide == <<broker, served, running, acted, stops>>
vars == <<sent, outcome, answer, opened, conn, deaf, hung, quiet, timeouts,
          broker, served, running, acted, stops, inbox, outbox>>

TypeOK ==
  /\ broker \in BOOLEAN
  /\ sent \in [Clients -> 0..MaxCalls] /\ opened \in [Clients -> 0..MaxCalls]
  /\ conn \in [Clients -> 0..MaxCalls]
  /\ \A c \in Clients : conn[c] <= opened[c] /\ <<c, conn[c]>> \notin hung
  /\ outcome \in [Clients -> [Numbers ->
                   {"unsent", "asked", "answered", "unanswered"}]]
  /\ answer \in [Clients -> [Numbers -> 0..MaxCalls]]
  /\ deaf \subseteq Clients
  /\ served \subseteq Conns /\ hung \subseteq Conns
  /\ inbox \in [Conns -> Seq(Numbers)] /\ outbox \in [Conns -> Seq(Numbers)]
  /\ running \in [Conns -> 0..MaxCalls]
  /\ quiet \subseteq Clients \X Numbers
  /\ acted \in Seq(Clients \X Numbers)
  /\ timeouts \in 0..MaxTimeouts /\ stops \in 0..MaxStops

Init ==
  /\ broker = TRUE
  /\ sent = [c \in Clients |-> 0] /\ opened = [c \in Clients |-> 0]
  /\ conn = [c \in Clients |-> 0]
  /\ outcome = [c \in Clients |-> [n \in Numbers |-> "unsent"]]
  /\ answer = [c \in Clients |-> [n \in Numbers |-> 0]]
  /\ deaf = {} /\ served = {} /\ hung = {} /\ quiet = {}
  /\ inbox = [k \in Conns |-> <<>>] /\ outbox = [k \in Conns |-> <<>>]
  /\ running = [k \in Conns |-> 0]
  /\ acted = <<>>
  /\ timeouts = MaxTimeouts /\ stops = MaxStops

-----------------------------------------------------------------------------
(* The clients.                                                            *)

Waiting(c) == sent[c] > 0 /\ outcome[c][sent[c]] = "asked"
Held(c) == <<c, conn[c]>>

\* The request in progress of c ends, or the next one begins and may end.
Outcome(c, n, how) == outcome' = [outcome EXCEPT ![c][n] = how]

\* Mutant: the socket is closed, and the client stays in the thread's cache.
DropKeeps(c) ==
  /\ hung' = IF c \in Cached THEN hung \cup {Held(c)} ELSE hung
  /\ UNCHANGED conn

\* hil_client._call drops its client on every error of the socket, whatever
\* close() does; a BrokerClient held for life stays what it is.
Drop(c) ==
  IF c \in Cached THEN conn' = [conn EXCEPT ![c] = 0] /\ hung' = hung \cup {Held(c)}
                  ELSE UNCHANGED <<conn, hung>>

Begin(c) == /\ sent[c] < MaxCalls /\ ~Waiting(c)
            /\ sent' = [sent EXCEPT ![c] = @ + 1]

\* No client yet: connect, write, wait.  Without a broker connect raises.
CallConnecting(c) ==
  /\ Begin(c) /\ conn[c] = 0
  /\ IF broker
     THEN LET k == opened[c] + 1
          IN  /\ opened' = [opened EXCEPT ![c] = k]
              /\ conn' = [conn EXCEPT ![c] = k]
              /\ served' = served \cup {<<c, k>>}
              /\ inbox' = [inbox EXCEPT ![<<c, k>>] = <<sent[c] + 1>>]
              /\ Outcome(c, sent[c] + 1, "asked")
     ELSE /\ Outcome(c, sent[c] + 1, "unanswered")
          /\ UNCHANGED <<opened, conn, served, inbox>>
  /\ UNCHANGED <<broker, answer, deaf, hung, running, outbox, quiet, acted,
                 timeouts, stops>>

\* On a socket that timed out once the write still goes through, and the read
\* raises at once: makefile("r") and makefile("w") remember a timeout apart.
Call(c) ==
  /\ Begin(c) /\ conn[c] # 0
  /\ IF Held(c) \in served
     THEN /\ inbox' = [inbox EXCEPT ![Held(c)] = Append(@, sent[c] + 1)]
          /\ Outcome(c, sent[c] + 1, IF c \in deaf THEN "unanswered" ELSE "asked")
          /\ UNCHANGED <<conn, hung>>
     ELSE /\ Outcome(c, sent[c] + 1, "unanswered")
          /\ Drop(c)
          /\ UNCHANGED inbox
  /\ UNCHANGED <<answer, opened, deaf, outbox, quiet, timeouts, serverSide>>

\* A request without an id, on the wire of a client of its own making.
Notify(c) ==
  /\ c \in Notifiers
  /\ Begin(c) /\ conn[c] # 0 /\ Held(c) \in served
  /\ inbox' = [inbox EXCEPT ![Held(c)] = Append(@, sent[c] + 1)]
  /\ Outcome(c, sent[c] + 1, "unanswered")
  /\ quiet' = quiet \cup {<<c, sent[c] + 1>>}
  /\ UNCHANGED <<answer, opened, conn, deaf, hung, outbox, timeouts, serverSide>>

\* readline returns the next line, and the line is the answer.
Return(c) ==
  /\ Waiting(c) /\ outbox[Held(c)] # <<>>
  /\ answer' = [answer EXCEPT ![c][sent[c]] = Head(outbox[Held(c)])]
  /\ Outcome(c, sent[c], "answered")
  /\ outbox' = [outbox EXCEPT ![Held(c)] = Tail(@)]
  /\ UNCHANGED <<sent, opened, conn, deaf, hung, quiet, timeouts, inbox, serverSide>>

\* readline returns nothing: "broker closed the connection".
Eof(c) ==
  /\ Waiting(c) /\ outbox[Held(c)] = <<>> /\ Held(c) \notin served
  /\ Outcome(c, sent[c], "unanswered")
  /\ Drop(c)
  /\ UNCHANGED <<sent, answer, opened, deaf, quiet, timeouts, inbox, outbox, serverSide>>

\* Mutant: a timeout is no error of the socket, and the socket stays usable.
TimeoutKeeps(c) ==
  /\ Waiting(c) /\ timeouts > 0
  /\ timeouts' = timeouts - 1
  /\ Outcome(c, sent[c], "unanswered")
  /\ UNCHANGED <<sent, answer, opened, conn, deaf, hung, quiet, inbox, outbox, serverSide>>

\* Mutant: every client reconnects after a timeout.
TimeoutReconnects(c) ==
  /\ Waiting(c) /\ timeouts > 0
  /\ timeouts' = timeouts - 1
  /\ Outcome(c, sent[c], "unanswered")
  /\ conn' = [conn EXCEPT ![c] = 0] /\ hung' = hung \cup {Held(c)}
  /\ UNCHANGED <<sent, answer, opened, deaf, quiet, inbox, outbox, serverSide>>

\* Mutant: the call is retried inside _call.
TimeoutRetries(c) ==
  /\ Waiting(c) /\ timeouts > 0
  /\ timeouts' = timeouts - 1
  /\ inbox' = [inbox EXCEPT ![Held(c)] = Append(@, sent[c])]
  /\ UNCHANGED <<sent, outcome, answer, opened, conn, deaf, hung, quiet, outbox, serverSide>>

\* Five seconds pass.
Timeout(c) ==
  /\ Waiting(c) /\ timeouts > 0
  /\ timeouts' = timeouts - 1
  /\ Outcome(c, sent[c], "unanswered")
  /\ Drop(c)
  /\ deaf' = IF c \in Cached THEN deaf ELSE deaf \cup {c}
  /\ UNCHANGED <<sent, answer, opened, quiet, inbox, outbox, serverSide>>

-----------------------------------------------------------------------------
(* The broker.                                                             *)

\* A handler reads the next line and the method runs, under its bus lock.
Execute(k) ==
  /\ k \in served /\ running[k] = 0 /\ inbox[k] # <<>>
  /\ running' = [running EXCEPT ![k] = Head(inbox[k])]
  /\ acted' = Append(acted, <<k[1], Head(inbox[k])>>)
  /\ inbox' = [inbox EXCEPT ![k] = Tail(@)]
  /\ UNCHANGED <<broker, served, stops, outbox, clientSide>>

Replies(k) == outbox' = [outbox EXCEPT ![k] = Append(@, running[k])]

\* Mutant: only a request that failed is replied to.
WriteErrorsOnly(k) ==
  /\ k \in served /\ running[k] # 0
  /\ Replies(k) \/ UNCHANGED outbox
  /\ running' = [running EXCEPT ![k] = 0]
  /\ UNCHANGED <<broker, served, acted, stops, inbox, clientSide>>

\* The reply is written.  A request without an id gets none if its method
\* returned, and an error line if anything went wrong.  Nobody at the other
\* end is a broken pipe, which ends the handler.
Write(k) ==
  /\ k \in served /\ running[k] # 0
  /\ IF k \in hung THEN UNCHANGED outbox /\ served' = served \ {k}
                   ELSE /\ UNCHANGED served
                        /\ \/ Replies(k)
                           \/ <<k[1], running[k]>> \in quiet /\ UNCHANGED outbox
  /\ running' = [running EXCEPT ![k] = 0]
  /\ UNCHANGED <<broker, acted, stops, inbox, clientSide>>

\* SIGTERM or a crash: daemon threads die where they are.
BrokerStops ==
  /\ broker /\ stops > 0
  /\ stops' = stops - 1
  /\ broker' = FALSE
  /\ served' = {}
  /\ running' = [k \in Conns |-> 0]
  /\ UNCHANGED <<acted, inbox, outbox, clientSide>>

BrokerStarts ==
  /\ ~broker
  /\ broker' = TRUE
  /\ UNCHANGED <<served, running, acted, stops, inbox, outbox, clientSide>>

-----------------------------------------------------------------------------
Read(c) == Return(c) \/ Eof(c)
Handle(k) == Execute(k) \/ Write(k)

Next == \/ \E c \in Clients : \/ CallConnecting(c) \/ Call(c) \/ Notify(c)
                              \/ Read(c) \/ Timeout(c)
        \/ \E k \in Conns : Handle(k)
        \/ BrokerStops \/ BrokerStarts

Spec == Init /\ [][Next]_vars

\* Handler threads run, and a blocked read sees what arrives.  Neither a
\* timeout nor a further call has to happen.
Fairness == /\ \A c \in Clients : WF_vars(Read(c))
            /\ \A k \in Conns : WF_vars(Handle(k))
            /\ WF_vars(BrokerStarts)

FairSpec == Spec /\ Fairness

-----------------------------------------------------------------------------
(* Properties.                                                             *)

\* The error line of an earlier notification may be taken for its answer.
AfterQuiet(c, n) == \E m \in 1..(n - 1) : <<c, m>> \in quiet

\* server.py:138-151: a caller that got an answer got its own, although
\* nothing compares ids and although earlier replies may still be under way,
\* unless it sent a notification before (rpc.py:102).
OwnAnswer ==
  \A c \in Clients, n \in Numbers :
    outcome[c][n] = "answered" /\ ~AfterQuiet(c, n) => answer[c][n] = n

\* A BrokerClient held for life never overtakes itself: its operations reach
\* the hardware in the order of its calls, those it gave up included.
OrderOnOneConnection ==
  \A i, j \in DOMAIN acted :
    i < j /\ acted[i][1] = acted[j][1] /\ acted[i][1] \notin Cached
      => acted[i][2] < acted[j][2]

\* Every call ends, with or without a timeout: a dead broker is an EOF.
CallsEnd == \A c \in Clients : Waiting(c) ~> ~Waiting(c)

-----------------------------------------------------------------------------
(* A call keeps what BrokerCall promises; an answer that comes after a     *)
(* notification promises nothing.                                          *)

Told == [c \in Clients |-> [n \in Numbers |->
          IF outcome[c][n] = "answered" /\ AfterQuiet(c, n) THEN "unanswered"
                                                           ELSE outcome[c][n]]]
Effects == [x \in Clients \X Numbers |-> Cardinality({i \in DOMAIN acted : acted[i] = x})]

Calls == INSTANCE BrokerCall WITH outcome <- Told, effects <- Effects

KeepsCallContract == Calls!Spec
=============================================================================

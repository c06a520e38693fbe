------------------------------ MODULE CanTracer ------------------------------
(***************************************************************************)
(* The CAN trace of the dashboard (dashboard/can_tracer.py, the two        *)
(* endpoints of app.py and the trace tab of index.html): one reader thread *)
(* per bus, a ring buffer per bus, a bounded queue per live stream, and    *)
(* pages that ask for a backfill and for the stream at the same time.      *)
(***************************************************************************)
EXTENDS Naturals, Sequences, FiniteSets, Functions

CONSTANTS Buses,        \* interfaces whose raw socket could be bound
          Streams,      \* connections to /api/can/stream, each used once
          QueueMax,     \* maxsize of a subscriber's queue
          HistoryMax,   \* history_per_bus
          BackfillMax,  \* the n of /api/can/recent
          MaxFrames     \* bound: frames heard in one behaviour

ASSUME TracerBounds == /\ QueueMax \in Nat \ {0} /\ HistoryMax \in Nat \ {0}
                       /\ BackfillMax \in Nat \ {0} /\ MaxFrames \in Nat

VARIABLES
  seq,       \* _next_id
  reader,    \* what each reader thread does next
  frame,     \* the frame a reader holds
  history,   \* ring buffer of each bus
  subs,      \* _subscribers
  queue,     \* queue of each stream
  gen,       \* generator of each stream
  gone,      \* streams whose browser has closed its end
  copied,    \* ring buffers recent() has copied for a page, and their frames
  backfill,  \* the answer of /api/can/recent on its way to a page
  shown      \* what the page of each stream has appended, and whence

readers == <<seq, reader, frame, history>>
traceVars == <<seq, reader, frame, history, subs, queue, gen, gone, copied, backfill, shown>>

\* A frame is told apart by its seq and its bus.
Frames == [seq : 1..MaxFrames, bus : Buses]
NoFrame == [seq |-> 0, bus |-> "none"]
Asked == <<NoFrame>>   \* a request without an answer yet
NothingCopied == [of |-> {}, frames |-> {}]

\* A row of a page: a frame, and which of the two requests has brought it.
Rows == [of : Frames, from : {"recent", "stream"}]
Row(f, how) == [of |-> f, from |-> how]

TraceTypeOK ==
  /\ seq \in 0..MaxFrames
  /\ reader \in [Buses -> {"recv", "record", "fanOut"}]
  /\ frame \in [Buses -> Frames \cup {NoFrame}]
  /\ history \in [Buses -> Seq(Frames)] /\ \A b \in Buses : Len(history[b]) <= HistoryMax
  /\ subs \subseteq Streams
  /\ queue \in [Streams -> Seq(Frames)] /\ \A s \in Streams : Len(queue[s]) <= QueueMax
  /\ gen \in [Streams -> {"unused", "asked", "unstarted", "running", "over"}]
  /\ gone \subseteq Streams
  /\ copied \in [Streams -> [of : SUBSET Buses, frames : SUBSET Frames]]
  /\ backfill \in [Streams -> Seq(Frames) \cup {Asked}]
  /\ shown \in [Streams -> Seq(Rows)]

TraceInit ==
  /\ seq = 0
  /\ reader = [b \in Buses |-> "recv"]
  /\ frame = [b \in Buses |-> NoFrame]
  /\ history = [b \in Buses |-> <<>>]
  /\ subs = {}
  /\ queue = [s \in Streams |-> <<>>]
  /\ gen = [s \in Streams |-> "unused"]
  /\ gone = {}
  /\ copied = [s \in Streams |-> NothingCopied]
  /\ backfill = [s \in Streams |-> <<>>]
  /\ shown = [s \in Streams |-> <<>>]

-----------------------------------------------------------------------------
(* A reader thread.                                                        *)

\* A frame comes out of the socket and is numbered under _id_lock.
Hear(b) ==
  /\ reader[b] = "recv" /\ seq < MaxFrames
  /\ seq' = seq + 1
  /\ frame' = [frame EXCEPT ![b] = [seq |-> seq + 1, bus |-> b]]
  /\ reader' = [reader EXCEPT ![b] = "record"]
  /\ UNCHANGED <<history, subs, queue, gen, gone, copied, backfill, shown>>

\* Mutant: a history without maxlen.
KeepAll(b) ==
  /\ reader[b] = "record"
  /\ history' = [history EXCEPT ![b] = Append(@, frame[b])]
  /\ reader' = [reader EXCEPT ![b] = "fanOut"]
  /\ UNCHANGED <<seq, frame, subs, queue, gen, gone, copied, backfill, shown>>

LastOf(s, n) == SubSeq(s, IF Len(s) > n THEN Len(s) - n + 1 ELSE 1, Len(s))

\* The deque forgets its oldest frame.
Keep(b) ==
  /\ reader[b] = "record"
  /\ history' = [history EXCEPT ![b] = LastOf(Append(@, frame[b]), HistoryMax)]
  /\ reader' = [reader EXCEPT ![b] = "fanOut"]
  /\ UNCHANGED <<seq, frame, subs, queue, gen, gone, copied, backfill, shown>>

Full(s) == Len(queue[s]) = QueueMax

\* Mutant: queue.Full is passed over and the subscriber kept.
FanOutSkips(b) ==
  /\ reader[b] = "fanOut"
  /\ queue' = [s \in Streams |-> IF s \in subs /\ ~Full(s)
                                 THEN Append(queue[s], frame[b]) ELSE queue[s]]
  /\ reader' = [reader EXCEPT ![b] = "recv"]
  /\ UNCHANGED <<seq, frame, history, subs, gen, gone, copied, backfill, shown>>

\* Mutant: put instead of put_nowait.
FanOutWaits(b) ==
  /\ reader[b] = "fanOut"
  /\ \A s \in subs : ~Full(s)
  /\ queue' = [s \in Streams |-> IF s \in subs
                                 THEN Append(queue[s], frame[b]) ELSE queue[s]]
  /\ reader' = [reader EXCEPT ![b] = "recv"]
  /\ UNCHANGED <<seq, frame, history, subs, gen, gone, copied, backfill, shown>>

\* Under _sub_lock every queue with room gets the frame; the others leave the
\* list of subscribers.
FanOut(b) ==
  /\ reader[b] = "fanOut"
  /\ queue' = [s \in Streams |-> IF s \in subs /\ ~Full(s)
                                 THEN Append(queue[s], frame[b]) ELSE queue[s]]
  /\ subs' = {s \in subs : ~Full(s)}
  /\ reader' = [reader EXCEPT ![b] = "recv"]
  /\ UNCHANGED <<seq, frame, history, gen, gone, copied, backfill, shown>>

-----------------------------------------------------------------------------
(* A page and its two requests.                                            *)

\* canEnsureStream sends both without waiting for either.
Open(s) ==
  /\ gen[s] = "unused"
  /\ gen' = [gen EXCEPT ![s] = "asked"]
  /\ backfill' = [backfill EXCEPT ![s] = Asked]
  /\ UNCHANGED <<readers, subs, queue, gone, copied, shown>>

\* Frames by time: the i-th is the one that has i - 1 before it.  The numbering
\* follows the clock up to a reader that is between the two.
Before(S, f) == {g \in S : g.seq < f.seq}
Merged(S) ==
  [i \in 1..Cardinality(S) |-> CHOOSE f \in S : Cardinality(Before(S, f)) = i - 1]

\* recent() copies one ring buffer after the other, while the readers go on.
Copy(s, b) ==
  /\ backfill[s] = Asked /\ b \notin copied[s].of
  /\ copied' = [copied EXCEPT ![s] = [of |-> @.of \cup {b},
                                      frames |-> @.frames \cup Range(history[b])]]
  /\ UNCHANGED <<readers, subs, queue, gen, gone, backfill, shown>>

\* It answers with the last n frames of them.
Recent(s) ==
  /\ backfill[s] = Asked /\ copied[s].of = Buses
  /\ backfill' = [backfill EXCEPT ![s] = LastOf(Merged(copied[s].frames), BackfillMax)]
  /\ copied' = [copied EXCEPT ![s] = NothingCopied]
  /\ UNCHANGED <<readers, subs, queue, gen, gone, shown>>

ShowRecent(s) ==
  /\ s \notin gone
  /\ backfill[s] \notin {<<>>, Asked}
  /\ shown' = [shown EXCEPT ![s] = @ \o
                 [i \in DOMAIN backfill[s] |-> Row(backfill[s][i], "recent")]]
  /\ backfill' = [backfill EXCEPT ![s] = <<>>]
  /\ UNCHANGED <<readers, subs, queue, gen, gone, copied>>

\* can_stream subscribes before its generator runs.
Subscribe(s) ==
  /\ gen[s] = "asked"
  /\ gen' = [gen EXCEPT ![s] = "unstarted"]
  /\ subs' = subs \cup {s}
  /\ UNCHANGED <<readers, queue, gone, copied, backfill, shown>>

\* The first yield.  A generator that is closed before it never runs its
\* finally clause, so its queue stays subscribed.
Start(s) ==
  /\ gen[s] = "unstarted"
  /\ gen' = [gen EXCEPT ![s] = IF s \in gone THEN "over" ELSE "running"]
  /\ UNCHANGED <<readers, subs, queue, gone, copied, backfill, shown>>

\* One event of the stream.
Deliver(s) ==
  /\ gen[s] = "running" /\ s \notin gone
  /\ queue[s] # <<>>
  /\ shown' = [shown EXCEPT ![s] = Append(@, Row(Head(queue[s]), "stream"))]
  /\ queue' = [queue EXCEPT ![s] = Tail(@)]
  /\ UNCHANGED <<readers, subs, gen, gone, copied, backfill>>

\* Mutant: the generator ends without its finally clause.
FinishLeaks(s) ==
  /\ gen[s] = "running" /\ s \in gone
  /\ gen' = [gen EXCEPT ![s] = "over"]
  /\ UNCHANGED <<readers, subs, queue, gone, copied, backfill, shown>>

\* A yield to a browser that has left, of a frame or of a keepalive, closes
\* the generator, which unsubscribes.
Finish(s) ==
  /\ gen[s] = "running" /\ s \in gone
  /\ gen' = [gen EXCEPT ![s] = "over"]
  /\ subs' = subs \ {s}
  /\ UNCHANGED <<readers, queue, gone, copied, backfill, shown>>

CloseTab(s) ==
  /\ gen[s] \in {"unstarted", "running"} /\ s \notin gone
  /\ gone' = gone \cup {s}
  /\ UNCHANGED <<readers, subs, queue, gen, copied, backfill, shown>>

-----------------------------------------------------------------------------
Read(b) == Keep(b) \/ FanOut(b)
Generate(s) == Start(s) \/ Deliver(s) \/ Finish(s)

TraceNext ==
  \/ \E b \in Buses : Hear(b) \/ Read(b)
  \/ \E s \in Streams, b \in Buses : Copy(s, b)
  \/ \E s \in Streams : \/ Open(s) \/ Recent(s) \/ ShowRecent(s)
                        \/ Subscribe(s) \/ Generate(s) \/ CloseTab(s)

TraceSpec == TraceInit /\ [][TraceNext]_traceVars

\* Threads run: a reader that holds a frame goes on, and a generator whose
\* browser has left meets its next yield.  Traffic may stop and a browser may
\* be as slow as it likes.
Fairness == /\ \A b \in Buses : WF_traceVars(Read(b))
            /\ \A s \in Streams : WF_traceVars(Start(s)) /\ WF_traceVars(Finish(s))

FairSpec == TraceSpec /\ Fairness

-----------------------------------------------------------------------------
(* Properties.                                                             *)

\* What a page has appended and will append of its stream, and where in that
\* the frames of a bus are which the stream has carried.
TrailOf(rows, q) == rows \o [i \in DOMAIN q |-> Row(q[i], "stream")]
Trail(s) == TrailOf(shown[s], queue[s])
Carried(t, b) == {i \in DOMAIN t : t[i].from = "stream" /\ t[i].of.bus = b}

\* can_tracer.py:127: live subscribers get every frame.  A frame of the
\* ring buffer that came after a frame a stream carried, and before another
\* one it carried, is in the stream too, in its place: a stream may end early
\* but it has no hole, however the readers of the buses interleave.
StreamsHaveNoHole ==
  \A s \in Streams, b \in Buses :
    LET t == Trail(s)
    IN  \A i, j \in Carried(t, b) :
          /\ i < j => t[i].of.seq < t[j].of.seq
          /\ \A f \in Range(history[b]) :
               t[i].of.seq < f.seq /\ f.seq < t[j].of.seq => \E k \in Carried(t, b) : t[k].of = f

\* can_tracer.py:234-235: a slow client never blocks a reader.
ReadersNeverWait == \A b \in Buses : reader[b] = "fanOut" ~> reader[b] = "recv"

\* app.py:383-384: a stream that ran and lost its browser is no longer fed.
DeadStreamsLeave ==
  \A s \in Streams : gen[s] = "running" /\ s \in gone ~> s \notin subs
=============================================================================

----------------------------- MODULE Can_proofs -----------------------------
(***************************************************************************)
(* The CAN interfaces, for those who change the links and for those who    *)
(* listen.  What _can_lock protects, for every number of controllers and   *)
(* handler threads and however often the outside touches a link: a thread  *)
(* past its first step holds the lock, and as long as nobody outside has   *)
(* come in between, the link and the socket are as its last step left      *)
(* them.  And what the tracer promises its subscribers, for every number   *)
(* of buses and streams and every size of its buffers: a stream ends early *)
(* or has every frame.                                                     *)
(***************************************************************************)
EXTENDS CanLink, CanTracer, SequenceTheorems, FiniteSetTheorems, TLAPS

Working == {"close", "raise", "record", "send", "recv"}

\* Who works on a link has the lock, and a call is where its kind can be.
Holding ==
  \A t \in Threads :
    /\ pc[t] \in Working <=> lock = t
    /\ pc[t] \in Working => op[t] # "get"
    /\ pc[t] = "raise" => op[t] # "CONFIG"
    /\ pc[t] \in {"send", "recv"} => op[t] = "test"
    /\ pc[t] = "byte" => op[t] = "get"

\* What a call that nobody outside has disturbed finds as it left it.
Undisturbed ==
  \A t \in Threads \ disturbed :
    /\ pc[t] \in {"raise", "record", "send"} => socket[on[t]] = "none"
    /\ pc[t] = "record" /\ Loops(t) => up[on[t]] /\ echo[on[t]]
    /\ pc[t] \in {"send", "recv"} => up[on[t]] /\ echo[on[t]]
    /\ pc[t] = "recv" => socket[on[t]] = "open"

\* Nobody outside has touched anything yet.
Quiet == outside = MaxOutside => disturbed = {}

LinkInv == TypeOK /\ Holding /\ Undisturbed /\ Quiet /\ HealthyTestsPass /\ SocketFollowsLink

-----------------------------------------------------------------------------
\* hil-can-up has run and nobody has called: every variable has its type, and
\* there is no call to say anything about.
LEMMA LinkInit == Init => LinkInv
<1> SUFFICES ASSUME Init PROVE LinkInv
  OBVIOUS
<1>1. (CHOOSE i \in Controllers : TRUE) \in Controllers
  BY LinkConstants
<1>2. TypeOK
  BY <1>1, LinkConstants DEF Init, TypeOK, Modes, Changes
<1>3. Holding
  BY LinkConstants DEF Init, Holding, Working
<1>4. Undisturbed /\ Quiet /\ HealthyTestsPass /\ SocketFollowsLink
  BY DEF Init, Undisturbed, Quiet, HealthyTestsPass, SocketFollowsLink
<1> QED
  BY <1>2, <1>3, <1>4 DEF LinkInv

\* Every step of a handler, of a reader of the mode and of the outside keeps
\* types, lock and link.
LEMMA LinkKept == LinkInv /\ [Next]_vars => LinkInv'
<1> SUFFICES ASSUME LinkInv, [Next]_vars PROVE LinkInv'
  OBVIOUS
<1> USE LinkConstants
<1>0. TypeOK /\ Holding /\ Undisturbed /\ Quiet /\ HealthyTestsPass /\ SocketFollowsLink
  BY DEF LinkInv
<1> USE <1>0
<1>1. ASSUME NEW t \in Threads, NEW what \in Changes, NEW i \in Controllers, Enter(t, what, i)
      PROVE LinkInv'
  <2>1. TypeOK'
    BY <1>1 DEF Enter, Goto, kernel, TypeOK, Changes
  <2>2. Holding'
    BY <1>1 DEF Enter, Goto, Holding, Working, TypeOK, Changes, Modes
  <2>3. Undisturbed' /\ Quiet'
    BY <1>1 DEF Enter, Goto, kernel, Undisturbed, Quiet, TypeOK, Loops, Holding, Working
  <2>4. HealthyTestsPass' /\ SocketFollowsLink'
    BY <1>1 DEF Enter, Goto, kernel, HealthyTestsPass, SocketFollowsLink, TypeOK
  <2> QED BY <2>1, <2>2, <2>3, <2>4 DEF LinkInv
<1>2. ASSUME NEW t \in Threads, TakeDown(t) PROVE LinkInv'
  <2>1. TypeOK'
    <3>0. failures' \in 0..MaxFailures
      <4>1. failures \in 0..MaxFailures /\ MaxFailures \in Nat
        BY DEF TypeOK
      <4>2. failures' = failures \/ (failures > 0 /\ failures' = failures - 1)
        BY <1>2 DEF TakeDown
      <4> QED
        BY <4>1, <4>2
    <3>1. up' \in [Controllers -> BOOLEAN]
      BY <1>2, Zenon DEF TakeDown, TypeOK
    <3>2. pc' \in [Threads -> {"idle", "close", "raise", "record", "send", "recv", "byte"}]
      BY <1>2 DEF TakeDown, Goto, TypeOK
    <3>3. socket' \in [Controllers -> {"none", "open", "orphan"}]
      BY <1>2 DEF TakeDown, TypeOK
    <3> QED
      BY <1>2, <3>0, <3>1, <3>2, <3>3 DEF TakeDown, TypeOK
  <2>2. Holding'
    BY <1>2 DEF TakeDown, Goto, Holding, Working, TypeOK
  <2>3. Undisturbed' /\ Quiet'
    BY <1>2, <2>2 DEF TakeDown, Goto, Undisturbed, Quiet, TypeOK, Loops, Holding, Working
  <2>4. HealthyTestsPass' /\ SocketFollowsLink'
    BY <1>2 DEF TakeDown, Goto, HealthyTestsPass, SocketFollowsLink, TypeOK, Holding, Working
  <2> QED BY <2>1, <2>2, <2>3, <2>4 DEF LinkInv
<1>3. ASSUME NEW t \in Threads, BringUp(t) PROVE LinkInv'
  <2>0. /\ on[t] \in Controllers /\ up' = [up EXCEPT ![on[t]] = TRUE]
        /\ Loops(t) => echo'[on[t]]
    BY <1>3, Zenon DEF BringUp, TypeOK
  <2>1. TypeOK'
    BY <1>3 DEF BringUp, Goto, TypeOK, Loops
  <2>2. Holding'
    BY <1>3 DEF BringUp, Goto, Holding, Working, TypeOK
  <2>3. Undisturbed' /\ Quiet'
    <3>1. /\ pc' = [pc EXCEPT ![t] = "record"] /\ pc[t] = "raise" /\ op[t] # "CONFIG"
          /\ UNCHANGED <<lock, op, on, socket, disturbed, outside>>
      BY <1>3 DEF BringUp, Goto, Holding
    <3>2. \A d \in Threads \ {t} : pc'[d] \notin Working
      BY <3>1 DEF TypeOK, Holding, Working
    <3>3. t \notin disturbed => socket[on[t]] = "none"
      BY <3>1 DEF Undisturbed
    <3> QED
      BY <2>0, <3>1, <3>2, <3>3 DEF Undisturbed, Quiet, TypeOK, Loops, Working
  <2>4. HealthyTestsPass' /\ SocketFollowsLink'
    BY <1>3 DEF BringUp, Goto, HealthyTestsPass, SocketFollowsLink, TypeOK, Holding, Working
  <2> QED BY <2>1, <2>2, <2>3, <2>4 DEF LinkInv
<1>4. ASSUME NEW t \in Threads, BringUpFails(t) PROVE LinkInv'
  <2>0. failures' \in 0..MaxFailures
    BY <1>4 DEF BringUpFails, TypeOK
  <2>1. TypeOK'
    <3>1. echo' \in [Controllers -> BOOLEAN]
      BY <1>4, Zenon DEF BringUpFails, TypeOK, Loops
    <3> QED
      BY <2>0, <3>1, <1>4 DEF BringUpFails, Return, Goto, TypeOK
  <2>2. Holding'
    BY <1>4 DEF BringUpFails, Return, Goto, Holding, Working, TypeOK
  <2>3. Undisturbed' /\ Quiet'
    BY <1>4, <2>2 DEF BringUpFails, Return, Goto, Undisturbed, Quiet, TypeOK, Loops, Holding, Working
  <2>4. HealthyTestsPass' /\ SocketFollowsLink'
    BY <1>4 DEF BringUpFails, Return, Goto, HealthyTestsPass, SocketFollowsLink, TypeOK
  <2> QED BY <2>1, <2>2, <2>3, <2>4 DEF LinkInv
<1>5. ASSUME NEW t \in Threads, Record(t) PROVE LinkInv'
  <2>1. TypeOK'
    BY <1>5 DEF Record, Return, Goto, kernel, TypeOK, Loops, Modes, Changes, Holding, Working
  <2>2. Holding'
    BY <1>5 DEF Record, Return, Goto, Holding, Working, TypeOK
  <2>3. Undisturbed' /\ Quiet'
    BY <1>5, <2>2 DEF Record, Return, Goto, kernel, Undisturbed, Quiet, TypeOK, Loops, Holding, Working
  <2>4. HealthyTestsPass' /\ SocketFollowsLink'
    BY <1>5 DEF Record, Return, Goto, kernel, HealthyTestsPass, SocketFollowsLink, TypeOK
  <2> QED BY <2>1, <2>2, <2>3, <2>4 DEF LinkInv
<1>6. ASSUME NEW t \in Threads, Send(t) PROVE LinkInv'
  <2>1. TypeOK'
    BY <1>6 DEF Send, Return, Goto, kernel, TypeOK
  <2>2. Holding'
    BY <1>6 DEF Send, Return, Goto, Holding, Working, TypeOK
  <2>3. Undisturbed' /\ Quiet'
    BY <1>6, <2>2 DEF Send, Return, Goto, kernel, Undisturbed, Quiet, TypeOK, Loops, Holding, Working
  <2>4. HealthyTestsPass' /\ SocketFollowsLink'
    BY <1>6, <2>3 DEF Send, Return, Goto, kernel, HealthyTestsPass, SocketFollowsLink, TypeOK, Undisturbed, Quiet
  <2> QED BY <2>1, <2>2, <2>3, <2>4 DEF LinkInv
<1>7. ASSUME NEW t \in Threads, Receive(t) PROVE LinkInv'
  <2>1. TypeOK'
    BY <1>7 DEF Receive, Return, Goto, kernel, TypeOK
  <2>2. Holding'
    BY <1>7 DEF Receive, Return, Goto, Holding, Working, TypeOK
  <2>3. Undisturbed' /\ Quiet'
    BY <1>7, <2>2 DEF Receive, Return, Goto, kernel, Undisturbed, Quiet, TypeOK, Loops
  <2>4. HealthyTestsPass' /\ SocketFollowsLink'
    BY <1>7 DEF Receive, Return, Goto, kernel, HealthyTestsPass, SocketFollowsLink, TypeOK, Undisturbed
  <2> QED BY <2>1, <2>2, <2>3, <2>4 DEF LinkInv
<1>8. ASSUME NEW t \in Threads, NEW i \in Controllers, AskKernel(t, i) PROVE LinkInv'
  <2>1. TypeOK'
    BY <1>8 DEF AskKernel, Return, Goto, kernel, TypeOK, Modes
  <2>2. Holding'
    BY <1>8 DEF AskKernel, Return, Goto, Holding, Working, TypeOK
  <2>3. Undisturbed' /\ Quiet'
    BY <1>8 DEF AskKernel, Return, Goto, kernel, Undisturbed, Quiet, TypeOK, Loops
  <2>4. HealthyTestsPass' /\ SocketFollowsLink'
    BY <1>8 DEF AskKernel, Return, Goto, kernel, HealthyTestsPass, SocketFollowsLink, TypeOK
  <2> QED BY <2>1, <2>2, <2>3, <2>4 DEF LinkInv
<1>9. ASSUME NEW t \in Threads, AskByte(t) PROVE LinkInv'
  <2>1. TypeOK'
    BY <1>9 DEF AskByte, Return, Goto, kernel, TypeOK
  <2>2. Holding'
    BY <1>9 DEF AskByte, Return, Goto, Holding, Working, TypeOK
  <2>3. Undisturbed' /\ Quiet'
    BY <1>9 DEF AskByte, Return, Goto, kernel, Undisturbed, Quiet, TypeOK, Loops
  <2>4. HealthyTestsPass' /\ SocketFollowsLink'
    BY <1>9 DEF AskByte, Return, Goto, kernel, HealthyTestsPass, SocketFollowsLink, TypeOK, Holding
  <2> QED BY <2>1, <2>2, <2>3, <2>4 DEF LinkInv
<1>10. ASSUME CanUpRestarts PROVE LinkInv'
  <2>1. TypeOK'
    BY <1>10 DEF CanUpRestarts, Outside, TypeOK
  <2>2. Holding'
    BY <1>10 DEF CanUpRestarts, Holding
  <2>3. Undisturbed' /\ Quiet'
    BY <1>10 DEF CanUpRestarts, Outside, Undisturbed, Quiet, TypeOK, Loops
  <2>4. HealthyTestsPass' /\ SocketFollowsLink'
    BY <1>10 DEF CanUpRestarts, Outside, HealthyTestsPass, SocketFollowsLink, TypeOK
  <2> QED BY <2>1, <2>2, <2>3, <2>4 DEF LinkInv
<1>11. ASSUME Reload PROVE LinkInv'
  <2>1. TypeOK'
    BY <1>11 DEF Reload, Outside, TypeOK
  <2>2. Holding'
    BY <1>11 DEF Reload, Holding
  <2>3. Undisturbed' /\ Quiet'
    BY <1>11 DEF Reload, Outside, Undisturbed, Quiet, TypeOK, Loops
  <2>4. HealthyTestsPass' /\ SocketFollowsLink'
    BY <1>11 DEF Reload, Outside, HealthyTestsPass, SocketFollowsLink, TypeOK
  <2> QED BY <2>1, <2>2, <2>3, <2>4 DEF LinkInv
<1>12. ASSUME BrokerRestarts PROVE LinkInv'
  <2>1. TypeOK'
    BY <1>12 DEF BrokerRestarts, Outside, kernel, TypeOK, Modes
  <2>2. Holding'
    BY <1>12 DEF BrokerRestarts, Holding, Working
  <2>3. Undisturbed' /\ Quiet'
    BY <1>12 DEF BrokerRestarts, Outside, Undisturbed, Quiet, TypeOK, Loops
  <2>4. HealthyTestsPass' /\ SocketFollowsLink'
    BY <1>12 DEF BrokerRestarts, Outside, HealthyTestsPass, SocketFollowsLink, TypeOK
  <2> QED BY <2>1, <2>2, <2>3, <2>4 DEF LinkInv
<1>13. CASE UNCHANGED vars
  BY <1>13 DEF vars, kernel, LinkInv, TypeOK, Holding, Undisturbed, Quiet, Loops,
               HealthyTestsPass, SocketFollowsLink
<1> QED
  BY <1>1, <1>2, <1>3, <1>4, <1>5, <1>6, <1>7, <1>8, <1>9, <1>10, <1>11, <1>12, <1>13
     DEF Next

\* bus.py:407-494: whoever is inside a call that changes a link has _can_lock,
\* and only an outside intervention makes the link or the socket different from
\* what the steps of that call have left.
THEOREM Locking == Spec => []LinkInv
<1> QED BY LinkInit, LinkKept, PTL DEF Spec

\* Every variable of CanLink keeps its type.
THEOREM Typing == Spec => []TypeOK
<1>1. LinkInv => TypeOK
  BY DEF LinkInv
<1> QED BY <1>1, Locking, PTL

\* bus.py:474-494: a loopback test whose link came up passes, whatever the
\* other threads of the broker do meanwhile, for any number of them.  Nothing
\* is said of a test that a restart of hil-can-up or of the broker, or a reload
\* of the driver, has met in its course.
THEOREM TestsAreAlone == Spec => []HealthyTestsPass
<1>1. LinkInv => HealthyTestsPass
  BY DEF LinkInv
<1> QED BY <1>1, Locking, PTL

\* bus.py:386-403: no socket outlives its link, and none that was opened on an
\* earlier link carries a test.
THEOREM SocketsFollow == Spec => []SocketFollowsLink
<1>1. LinkInv => SocketFollowsLink
  BY DEF LinkInv
<1> QED BY <1>1, Locking, PTL
-----------------------------------------------------------------------------
(* The listeners.                                                          *)

\* The frames a reader has numbered and not forgotten.
Heard(b) == Range(history[b]) \cup ({frame[b]} \ {NoFrame})

\* A number is given once, and what a reader holds is its newest frame, which
\* joins the ring buffer and the queues in two steps.
Numbering ==
  \A b \in Buses :
    /\ frame[b].seq <= seq
    /\ frame[b] # NoFrame => frame[b].bus = b
    /\ reader[b] # "recv" => frame[b] # NoFrame
    /\ \A f \in Range(history[b]) :
         /\ f.bus = b /\ f.seq <= frame[b].seq
         /\ reader[b] = "record" => f.seq < frame[b].seq
    /\ \A c \in Buses \ {b} : \A f \in Heard(b), g \in Heard(c) : f.seq # g.seq

\* A stream that has not subscribed has carried nothing.
Subscribing ==
  \A s \in Streams : gen[s] \in {"unused", "asked"} =>
    s \notin subs /\ queue[s] = <<>> /\ \A i \in DOMAIN shown[s] : shown[s][i].from = "recent"

\* What recent() has copied are frames that were heard, with their numbers.
Copying ==
  \A s \in Streams : \A f \in copied[s].frames :
    /\ f.seq <= seq
    /\ \A g \in copied[s].frames : f.seq = g.seq => f = g
    /\ \A b \in Buses : \A g \in Heard(b) : f.seq = g.seq => f = g

\* What a stream has carried was handed over before what the reader holds.
HandedTo(s, b) ==
  \A i \in Carried(Trail(s), b) :
    /\ Trail(s)[i].of.seq <= frame[b].seq
    /\ reader[b] # "recv" => Trail(s)[i].of.seq < frame[b].seq

\* A subscriber has all of the ring buffer since its first frame, but for the
\* one that is about to be handed over.
CompleteFor(s, b) ==
  \A i \in Carried(Trail(s), b), f \in Range(history[b]) :
    Trail(s)[i].of.seq < f.seq /\ ~(reader[b] = "fanOut" /\ f = frame[b])
      => \E k \in Carried(Trail(s), b) : Trail(s)[k].of = f

Handed == \A s \in Streams, b \in Buses : HandedTo(s, b)
Complete == \A s \in subs, b \in Buses : CompleteFor(s, b)

TraceInv ==
  /\ TraceTypeOK /\ Numbering /\ Copying /\ Subscribing
  /\ Handed /\ Complete /\ StreamsHaveNoHole

-----------------------------------------------------------------------------
(* Sequences of frames and of rows.                                        *)

LEMMA LastOnes ==
  ASSUME NEW T, NEW s \in Seq(T), NEW n \in Nat \ {0}
  PROVE  /\ LastOf(s, n) \in Seq(T) /\ Len(LastOf(s, n)) <= n
         /\ Range(LastOf(s, n)) \subseteq Range(s)
<1> DEFINE m == IF Len(s) > n THEN Len(s) - n + 1 ELSE 1
<1>1. Len(s) \in Nat /\ m \in Nat \ {0} /\ DOMAIN s = 1..Len(s)
  BY LenProperties
<1>2. \A i \in m..Len(s) : s[i] \in T
  BY <1>1, ElementOfSeq
<1>3. /\ SubSeq(s, m, Len(s)) \in Seq(T)
      /\ Len(SubSeq(s, m, Len(s))) = IF m <= Len(s) THEN Len(s) - m + 1 ELSE 0
      /\ \A i \in 1..(Len(s) - m + 1) : SubSeq(s, m, Len(s))[i] = s[m + i - 1]
  BY <1>1, <1>2, SubSeqProperties
<1>4. LastOf(s, n) = SubSeq(s, m, Len(s))
  BY DEF LastOf
<1>5. DOMAIN SubSeq(s, m, Len(s)) = 1..Len(SubSeq(s, m, Len(s)))
  BY <1>3, LenProperties
<1> HIDE DEF m
<1>6. \A i \in DOMAIN SubSeq(s, m, Len(s)) :
        m + i - 1 \in DOMAIN s /\ SubSeq(s, m, Len(s))[i] = s[m + i - 1]
  <2> TAKE i \in DOMAIN SubSeq(s, m, Len(s))
  <2>1. i \in Nat \ {0} /\ i <= Len(s) - m + 1
    BY <1>1, <1>3, <1>5
  <2> QED
    BY <1>1, <1>3, <2>1
<1>7. Range(SubSeq(s, m, Len(s))) \subseteq Range(s)
  BY <1>6 DEF Range
<1> QED
  BY <1>1, <1>3, <1>4, <1>7 DEF m

\* What brings a sequence of frames to a page makes rows of it.
LEMMA RowsOf ==
  ASSUME NEW q \in Seq(Frames), NEW how \in {"recent", "stream"}
  PROVE  LET r == [i \in DOMAIN q |-> Row(q[i], how)]
         IN  /\ r \in Seq(Rows) /\ Len(r) = Len(q)
             /\ \A i \in 1..Len(q) : r[i] = Row(q[i], how)
<1> DEFINE r == [i \in DOMAIN q |-> Row(q[i], how)]
<1>1. Len(q) \in Nat /\ DOMAIN q = 1..Len(q) /\ \A i \in 1..Len(q) : q[i] \in Frames
  BY LenProperties, ElementOfSeq
<1>2. \A i \in 1..Len(q) : Row(q[i], how) \in Rows
  BY <1>1 DEF Row, Rows
<1>3. r \in [1..Len(q) -> Rows]
  BY <1>1, <1>2
<1>4. r \in Seq(Rows) /\ Len(r) = Len(q)
  BY <1>1, <1>3
<1> QED
  BY <1>1, <1>4

\* A trail is what is shown and then what is queued.
LEMMA TrailIs ==
  ASSUME NEW rows \in Seq(Rows), NEW q \in Seq(Frames)
  PROVE  LET t == TrailOf(rows, q)
         IN  /\ t \in Seq(Rows)
             /\ Len(rows) \in Nat /\ Len(q) \in Nat /\ Len(t) = Len(rows) + Len(q)
             /\ DOMAIN t = 1..(Len(rows) + Len(q))
             /\ \A i \in 1..Len(rows) : t[i] = rows[i]
             /\ \A i \in 1..Len(q) : t[Len(rows) + i] = Row(q[i], "stream")
<1> DEFINE r == [i \in DOMAIN q |-> Row(q[i], "stream")]
           m == Len(rows)
           n == Len(q)
<1>1. m \in Nat /\ n \in Nat
  BY LenProperties
<1>2. /\ r \in Seq(Rows) /\ Len(r) = n
      /\ \A i \in 1..n : r[i] = Row(q[i], "stream")
  BY RowsOf
<1> HIDE DEF r
<1>3. /\ rows \o r \in Seq(Rows)
      /\ Len(rows \o r) = m + n
      /\ \A i \in 1..(m + n) : (rows \o r)[i] = IF i <= m THEN rows[i] ELSE r[i - m]
  <2>1. /\ rows \o r \in Seq(Rows)
        /\ Len(rows \o r) = Len(rows) + Len(r)
        /\ \A i \in 1..(Len(rows) + Len(r)) :
             (rows \o r)[i] = IF i <= Len(rows) THEN rows[i] ELSE r[i - Len(rows)]
    BY <1>2, ConcatProperties
  <2> QED
    BY <1>2, <2>1
<1>4. TrailOf(rows, q) = rows \o r
  BY DEF TrailOf, r
<1>5. DOMAIN (rows \o r) = 1..(m + n)
  BY <1>3, LenProperties
<1> HIDE DEF m, n
<1>6. ASSUME NEW i \in 1..n
      PROVE  (rows \o r)[m + i] = Row(q[i], "stream")
  <2>1. m + i \in 1..(m + n) /\ ~(m + i <= m) /\ (m + i) - m = i
    BY <1>1
  <2> QED
    BY <1>2, <1>3, <2>1
<1>7. ASSUME NEW i \in 1..m
      PROVE  (rows \o r)[i] = rows[i]
  <2>1. i \in 1..(m + n) /\ i <= m
    BY <1>1
  <2> QED
    BY <1>3, <2>1
<1> QED
  BY <1>1, <1>3, <1>4, <1>5, <1>6, <1>7 DEF m, n

-----------------------------------------------------------------------------
(* Frames by their number.                                                 *)

\* With each number given once, as many frames as there are ranks have one
\* frame each.
LEMMA MergedOnes ==
  ASSUME NEW S, S \subseteq Frames, \A f, g \in S : f.seq = g.seq => f = g
  PROVE  Merged(S) \in Seq(S)
<1> DEFINE n == Cardinality(S)
           number == [f \in S |-> f.seq]
           rank == [f \in S |-> Cardinality(Before(S, f)) + 1]
<1>1. number \in Injection(S, 1..MaxFrames)
  BY DEF Frames, Injection, IsInjective
<1>2. IsFiniteSet(1..MaxFrames)
  BY TracerBounds, FS_Interval
<1>3. IsFiniteSet(S)
  <2> HIDE DEF number
  <2> QED
    BY <1>1, <1>2, FS_Injection
<1>4. n \in Nat
  BY <1>3, FS_CardinalityType
<1>5. \A f \in S : IsFiniteSet(Before(S, f)) /\ Cardinality(Before(S, f)) \in 0..(n - 1)
  <2> TAKE f \in S
  <2>1. Before(S, f) \in SUBSET (S \ {f})
    BY DEF Before, Frames
  <2>2. IsFiniteSet(S \ {f}) /\ Cardinality(S \ {f}) = n - 1
    BY <1>3, FS_RemoveElement
  <2>3. IsFiniteSet(Before(S, f)) /\ Cardinality(Before(S, f)) <= n - 1
    BY <2>1, <2>2, FS_Subset
  <2> QED
    BY <1>4, <2>3, FS_CardinalityType
<1>6. rank \in [S -> 1..n]
  BY <1>4, <1>5
<1>7. ASSUME NEW f \in S, NEW g \in S, f.seq < g.seq
      PROVE  rank[f] < rank[g]
  <2>1. Before(S, f) \in SUBSET (Before(S, g) \ {f})
    BY <1>7 DEF Before, Frames
  <2>2. f \in Before(S, g)
    BY <1>7 DEF Before
  <2>3. /\ IsFiniteSet(Before(S, g) \ {f})
        /\ Cardinality(Before(S, g) \ {f}) = Cardinality(Before(S, g)) - 1
    BY <1>5, <2>2, FS_RemoveElement
  <2>4. Cardinality(Before(S, f)) <= Cardinality(Before(S, g)) - 1
    BY <2>1, <2>3, FS_Subset
  <2> QED
    BY <1>4, <1>5, <2>4
<1>8. rank \in Injection(S, 1..n)
  <2>1. ASSUME NEW f \in S, NEW g \in S, rank[f] = rank[g]
        PROVE  f = g
    <3>1. f.seq \in Nat /\ g.seq \in Nat /\ rank[f] \in Nat
      BY <1>4, <1>6, TracerBounds DEF Frames
    <3>2. ~(f.seq < g.seq) /\ ~(g.seq < f.seq)
      BY <1>7, <2>1, <3>1
    <3> HIDE DEF rank
    <3> QED
      BY <3>1, <3>2
  <2> QED
    BY <1>6, <2>1 DEF Injection, IsInjective
<1>9. rank \in Surjection(S, 1..n)
  <2>1. IsFiniteSet(1..n) /\ Cardinality(1..n) = n
    BY <1>4, FS_Interval
  <2> HIDE DEF rank
  <2> QED
    BY <1>8, <2>1, FS_Injection
<1>10. \A i \in 1..n : \E f \in S : Cardinality(Before(S, f)) = i - 1
  <2> TAKE i \in 1..n
  <2>1. PICK f \in S : rank[f] = i
    <3> HIDE DEF rank
    <3> QED
      BY <1>9 DEF Surjection
  <2> QED
    BY <1>4, <1>5, <2>1
<1>11. Merged(S) \in [1..n -> S]
  BY <1>10 DEF Merged
<1> QED
  BY <1>4, <1>11

-----------------------------------------------------------------------------
(* Types and numbers.                                                      *)

LEMMA TraceInitially == TraceInit => TraceInv
<1> SUFFICES ASSUME TraceInit PROVE TraceInv
  OBVIOUS
<1>1. TraceTypeOK
  BY TracerBounds DEF TraceInit, NothingCopied, TraceTypeOK
<1>2. \A b \in Buses : Range(history[b]) = {} /\ Heard(b) = {}
  BY DEF TraceInit, Range, Heard
<1>3. Numbering
  BY <1>2 DEF TraceInit, Numbering, NoFrame
<1>4. Subscribing
  BY DEF TraceInit, Subscribing
<1>5. \A s \in Streams, b \in Buses : Carried(Trail(s), b) = {}
  <2> TAKE s \in Streams, b \in Buses
  <2>1. shown[s] = <<>> /\ queue[s] = <<>>
    BY DEF TraceInit
  <2>2. Len(shown[s]) = 0 /\ Len(queue[s]) = 0 /\ shown[s] \in Seq(Rows) /\ queue[s] \in Seq(Frames)
    BY <2>1
  <2>3. DOMAIN Trail(s) = 1..(Len(shown[s]) + Len(queue[s]))
    BY <2>2, TrailIs DEF Trail
  <2>4. DOMAIN Trail(s) = {}
    BY <2>2, <2>3
  <2> QED
    BY <2>4 DEF Carried
<1>6. Handed /\ Complete
  BY <1>5 DEF TraceInit, Handed, HandedTo, Complete, CompleteFor
<1>7. StreamsHaveNoHole
  BY <1>5, Zenon DEF StreamsHaveNoHole
<1>8. Copying
  BY DEF TraceInit, NothingCopied, Copying
<1> QED
  BY <1>1, <1>3, <1>4, <1>6, <1>7, <1>8 DEF TraceInv

\* The frames that readers have numbered have different numbers.
LEMMA HeardDiffer ==
  ASSUME TraceTypeOK, Numbering
  PROVE  /\ \A b \in Buses : Heard(b) \subseteq Frames /\ \A f \in Heard(b) : f.seq <= seq
         /\ \A b, c \in Buses : \A f \in Heard(b), g \in Heard(c) : f.seq = g.seq => f = g
<1>1. ASSUME NEW b \in Buses
      PROVE  Range(history[b]) \subseteq Frames /\ frame[b] \in Frames \cup {NoFrame}
  <2>1. history[b] \in Seq(Frames) /\ frame[b] \in Frames \cup {NoFrame}
    BY DEF TraceTypeOK
  <2> QED
    BY <2>1, LenProperties, ElementOfSeq DEF Range
<1>2. ASSUME NEW b \in Buses, NEW f \in Heard(b)
      PROVE  f \in Frames /\ f.bus = b /\ f.seq <= seq
  <2>1. f \in Frames
    BY <1>1, <1>2 DEF Heard
  <2>2. f.seq \in Nat /\ frame[b].seq \in Nat /\ seq \in Nat
    BY <1>1, <2>1, TracerBounds DEF Frames, NoFrame, TraceTypeOK
  <2>3. f.seq <= frame[b].seq /\ frame[b].seq <= seq
    BY <1>2, <2>2 DEF Numbering, Heard
  <2>4. f.bus = b
    BY <1>2 DEF Numbering, Heard
  <2> QED
    BY <2>1, <2>2, <2>3, <2>4
<1>3. ASSUME NEW b \in Buses, NEW c \in Buses, NEW f \in Heard(b), NEW g \in Heard(c),
             f.seq = g.seq
      PROVE  f = g
  <2>1. b = c
    BY <1>3 DEF Numbering
  <2>2. f.bus = g.bus /\ f \in Frames /\ g \in Frames
    BY <1>2, <2>1
  <2> QED
    BY <1>3, <2>2 DEF Frames
<1> QED
  BY <1>2, <1>3

LEMMA TraceTypingKept ==
  TraceTypeOK /\ Numbering /\ Copying /\ [TraceNext]_traceVars => TraceTypeOK'
<1> SUFFICES ASSUME TraceTypeOK, Numbering, Copying, [TraceNext]_traceVars PROVE TraceTypeOK'
  OBVIOUS
<1> USE TracerBounds
<1>1. ASSUME NEW b \in Buses, Hear(b)
      PROVE  TraceTypeOK'
  <2>1. seq \in 0..MaxFrames /\ seq < MaxFrames
    BY <1>1 DEF Hear, TraceTypeOK
  <2>2. seq + 1 \in 1..MaxFrames
    BY <2>1
  <2>3. [seq |-> seq + 1, bus |-> b] \in Frames
    BY <2>2 DEF Frames
  <2> QED
    BY <1>1, <2>2, <2>3 DEF Hear, TraceTypeOK
<1>2. ASSUME NEW b \in Buses, Keep(b)
      PROVE  TraceTypeOK'
  <2>1. frame[b] \in Frames /\ history[b] \in Seq(Frames)
    BY <1>2 DEF Keep, TraceTypeOK, Numbering
  <2>2. Append(history[b], frame[b]) \in Seq(Frames)
    BY <2>1, AppendProperties
  <2>3. /\ LastOf(Append(history[b], frame[b]), HistoryMax) \in Seq(Frames)
        /\ Len(LastOf(Append(history[b], frame[b]), HistoryMax)) <= HistoryMax
    BY <2>2, LastOnes
  <2> QED
    BY <1>2, <2>3 DEF Keep, TraceTypeOK
<1>3. ASSUME NEW b \in Buses, FanOut(b)
      PROVE  TraceTypeOK'
  <2>1. frame[b] \in Frames
    BY <1>3 DEF FanOut, TraceTypeOK, Numbering
  <2>2. \A s \in Streams : /\ queue[s] \in Seq(Frames) /\ Len(queue[s]) \in Nat
                           /\ Append(queue[s], frame[b]) \in Seq(Frames)
                           /\ Len(Append(queue[s], frame[b])) = Len(queue[s]) + 1
    BY <2>1, AppendProperties, LenProperties DEF TraceTypeOK
  <2>3. \A s \in Streams : /\ queue'[s] \in Seq(Frames) /\ Len(queue'[s]) <= QueueMax
    BY <1>3, <2>2 DEF FanOut, Full, TraceTypeOK
  <2>4. queue' \in [Streams -> Seq(Frames)]
    BY <1>3, <2>2 DEF FanOut
  <2> QED
    BY <1>3, <2>3, <2>4 DEF FanOut, TraceTypeOK
<1>4. ASSUME NEW s \in Streams, Open(s) \/ Subscribe(s) \/ Start(s) \/ Finish(s) \/ CloseTab(s)
      PROVE  TraceTypeOK'
  BY <1>4 DEF Open, Subscribe, Start, Finish, CloseTab, readers, TraceTypeOK
<1>5. ASSUME NEW s \in Streams, Recent(s)
      PROVE  TraceTypeOK'
  <2> DEFINE C == copied[s].frames
  <2>1. C \subseteq Frames /\ \A f, g \in C : f.seq = g.seq => f = g
    BY DEF Copying, TraceTypeOK
  <2>2. Merged(C) \in Seq(C)
    BY <2>1, MergedOnes
  <2>3. Merged(C) \in Seq(Frames)
    BY <2>1, <2>2, SeqMonotonic
  <2>4. LastOf(Merged(C), BackfillMax) \in Seq(Frames)
    BY <2>3, LastOnes
  <2>5. NothingCopied \in [of : SUBSET Buses, frames : SUBSET Frames]
    BY DEF NothingCopied
  <2> QED
    BY <1>5, <2>4, <2>5 DEF Recent, readers, TraceTypeOK
<1>6. ASSUME NEW s \in Streams, ShowRecent(s)
      PROVE  TraceTypeOK'
  <2>1. backfill[s] \in Seq(Frames) /\ shown[s] \in Seq(Rows)
    BY <1>6 DEF ShowRecent, TraceTypeOK
  <2>2. [i \in DOMAIN backfill[s] |-> Row(backfill[s][i], "recent")] \in Seq(Rows)
    BY <2>1, RowsOf
  <2>3. shown[s] \o [i \in DOMAIN backfill[s] |-> Row(backfill[s][i], "recent")] \in Seq(Rows)
    BY <2>1, <2>2, ConcatProperties
  <2>4. <<>> \in Seq(Frames)
    BY EmptySeq
  <2> QED
    BY <1>6, <2>3, <2>4 DEF ShowRecent, readers, TraceTypeOK
<1>7. ASSUME NEW s \in Streams, Deliver(s)
      PROVE  TraceTypeOK'
  <2>1. queue[s] \in Seq(Frames) /\ queue[s] # <<>> /\ shown[s] \in Seq(Rows)
    BY <1>7 DEF Deliver, TraceTypeOK
  <2>2. Head(queue[s]) \in Frames /\ Tail(queue[s]) \in Seq(Frames) /\ Len(Tail(queue[s])) = Len(queue[s]) - 1
    BY <2>1, HeadTailProperties
  <2>3. Append(shown[s], Row(Head(queue[s]), "stream")) \in Seq(Rows)
    BY <2>1, <2>2, AppendProperties DEF Row, Rows
  <2>4. Len(queue[s]) \in Nat /\ Len(queue[s]) <= QueueMax
    BY <2>1, LenProperties DEF TraceTypeOK
  <2> QED
    BY <1>7, <2>2, <2>3, <2>4 DEF Deliver, readers, TraceTypeOK
<1>8. CASE UNCHANGED traceVars
  BY <1>8 DEF traceVars, TraceTypeOK
<1>9. ASSUME NEW s \in Streams, NEW b \in Buses, Copy(s, b)
      PROVE  TraceTypeOK'
  <2>1. copied[s] \in [of : SUBSET Buses, frames : SUBSET Frames]
    BY DEF TraceTypeOK
  <2>2. Range(history[b]) \subseteq Frames
    BY HeardDiffer DEF Heard
  <2>3. [of |-> copied[s].of \cup {b}, frames |-> copied[s].frames \cup Range(history[b])]
          \in [of : SUBSET Buses, frames : SUBSET Frames]
    BY <2>1, <2>2
  <2> QED
    BY <1>9, <2>3 DEF Copy, readers, TraceTypeOK
<1> QED
  BY <1>1, <1>2, <1>3, <1>4, <1>5, <1>6, <1>7, <1>8, <1>9 DEF TraceNext, Read, Generate

LEMMA NumberingKept == TraceTypeOK /\ Numbering /\ [TraceNext]_traceVars => Numbering'
<1> SUFFICES ASSUME TraceTypeOK, Numbering, [TraceNext]_traceVars PROVE Numbering'
  OBVIOUS
<1> USE TracerBounds
<1>0. /\ seq \in Nat
      /\ \A b \in Buses : Heard(b) \subseteq Frames /\ \A f \in Heard(b) : f.seq \in Nat /\ f.seq <= seq
  <2>1. seq \in Nat
    BY DEF TraceTypeOK
  <2>2. ASSUME NEW b \in Buses
        PROVE  Range(history[b]) \subseteq Frames /\ frame[b] \in Frames \cup {NoFrame}
    <3>1. history[b] \in Seq(Frames) /\ frame[b] \in Frames \cup {NoFrame}
      BY DEF TraceTypeOK
    <3> QED
      BY <3>1, LenProperties, ElementOfSeq DEF Range
  <2>3. ASSUME NEW b \in Buses, NEW f \in Heard(b)
        PROVE  f \in Frames /\ f.seq \in Nat /\ f.seq <= seq
    <3>1. f \in Frames
      BY <2>2, <2>3 DEF Heard
    <3>2. f.seq \in Nat /\ frame[b].seq \in Nat
      BY <2>2, <3>1 DEF Frames, NoFrame
    <3>3. f.seq <= frame[b].seq /\ frame[b].seq <= seq
      BY <2>3, <3>2 DEF Numbering, Heard
    <3> QED
      BY <2>1, <3>1, <3>2, <3>3
  <2> QED
    BY <2>1, <2>3
<1>1. ASSUME NEW b \in Buses, Hear(b)
      PROVE  Numbering'
  <2> DEFINE new == [seq |-> seq + 1, bus |-> b]
  <2>1. /\ frame'[b] = new /\ reader'[b] = "record"
        /\ \A c \in Buses \ {b} : frame'[c] = frame[c] /\ reader'[c] = reader[c]
        /\ history' = history /\ seq' = seq + 1 /\ new # NoFrame
    BY <1>0, <1>1 DEF Hear, TraceTypeOK, NoFrame
  <2>2. /\ Heard(b)' \subseteq Heard(b) \cup {new}
        /\ \A c \in Buses \ {b} : Heard(c)' = Heard(c)
    BY <2>1 DEF Heard
  <2>3. \A c \in Buses : Range(history[c]) \subseteq Heard(c)
    BY DEF Heard
  <2>4. ASSUME NEW c \in Buses, NEW d \in Buses \ {c}, NEW f \in Heard(c)', NEW g \in Heard(d)'
        PROVE  f.seq # g.seq
    <3>1. CASE c = b
      BY <1>0, <2>2, <2>4, <3>1 DEF Numbering
    <3>2. CASE d = b
      BY <1>0, <2>2, <2>4, <3>2 DEF Numbering
    <3>3. CASE c # b /\ d # b
      BY <2>2, <2>4, <3>3 DEF Numbering
    <3> QED
      BY <3>1, <3>2, <3>3
  <2>5. ASSUME NEW c \in Buses, c # b
        PROVE  /\ frame'[c].seq <= seq'
               /\ frame'[c] # NoFrame => frame'[c].bus = c
               /\ reader'[c] # "recv" => frame'[c] # NoFrame
               /\ \A f \in Range(history'[c]) :
                    /\ f.bus = c /\ f.seq <= frame'[c].seq
                    /\ reader'[c] = "record" => f.seq < frame'[c].seq
    <3>1. frame[c].seq \in Nat /\ frame[c].seq <= seq
      BY DEF TraceTypeOK, Frames, NoFrame, Numbering
    <3> QED
      BY <1>0, <2>1, <2>5, <3>1 DEF Numbering
  <2>6. /\ frame'[b].seq <= seq'
        /\ frame'[b] # NoFrame => frame'[b].bus = b
        /\ reader'[b] # "recv" => frame'[b] # NoFrame
        /\ \A f \in Range(history'[b]) :
             /\ f.bus = b /\ f.seq <= frame'[b].seq
             /\ reader'[b] = "record" => f.seq < frame'[b].seq
    BY <1>0, <2>1, <2>3 DEF Numbering
  <2> QED
    BY <2>4, <2>5, <2>6 DEF Numbering
<1>2. ASSUME NEW b \in Buses, Keep(b)
      PROVE  Numbering'
  <2> DEFINE h == LastOf(Append(history[b], frame[b]), HistoryMax)
  <2>1. /\ reader[b] = "record" /\ reader'[b] = "fanOut" /\ history'[b] = h
        /\ \A c \in Buses \ {b} : history'[c] = history[c] /\ reader'[c] = reader[c]
        /\ frame' = frame /\ seq' = seq
    BY <1>2 DEF Keep, TraceTypeOK
  <2>2. frame[b] \in Frames /\ frame[b] # NoFrame /\ history[b] \in Seq(Frames)
    BY <2>1 DEF Numbering, TraceTypeOK
  <2>3. Range(h) \subseteq Range(history[b]) \cup {frame[b]}
    <3>1. Append(history[b], frame[b]) \in Seq(Frames)
      BY <2>2, AppendProperties
    <3>2. Range(h) \subseteq Range(Append(history[b], frame[b]))
      BY <3>1, LastOnes
    <3>3. Range(Append(history[b], frame[b])) \subseteq Range(history[b]) \cup {frame[b]}
      BY <2>2, <3>1, AppendProperties, LenProperties DEF Range
    <3> QED
      BY <3>2, <3>3
  <2> HIDE DEF h
  <2>4. \A c \in Buses : Heard(c)' \subseteq Heard(c)
    BY <2>1, <2>2, <2>3 DEF Heard
  <2>5. frame[b].seq \in Nat /\ \A f \in Range(history[b]) : f.seq <= frame[b].seq
    BY <2>2 DEF Frames, Numbering
  <2>6. \A f \in Range(history'[b]) : f.bus = b /\ f.seq <= frame'[b].seq
    BY <2>1, <2>2, <2>3, <2>5 DEF Numbering
  <2> QED
    BY <2>1, <2>4, <2>6 DEF Numbering
<1>3. ASSUME NEW b \in Buses, FanOut(b)
      PROVE  Numbering'
  <2>1. /\ reader'[b] = "recv" /\ \A c \in Buses \ {b} : reader'[c] = reader[c]
        /\ frame' = frame /\ seq' = seq /\ history' = history
    BY <1>3 DEF FanOut, TraceTypeOK
  <2> QED
    BY <2>1 DEF Numbering, Heard
<1>4. CASE UNCHANGED readers
  BY <1>4 DEF readers, Numbering, Heard
<1>5. ASSUME NEW s \in Streams,
             Open(s) \/ Recent(s) \/ ShowRecent(s) \/ Subscribe(s) \/ Generate(s) \/ CloseTab(s)
      PROVE  UNCHANGED readers
  BY <1>5 DEF Open, Recent, ShowRecent, Subscribe, Generate, Start, Deliver, Finish, CloseTab
<1>6. CASE UNCHANGED traceVars
  BY <1>4, <1>6 DEF traceVars, readers
<1>7. ASSUME NEW s \in Streams, NEW b \in Buses, Copy(s, b)
      PROVE  UNCHANGED readers
  BY <1>7 DEF Copy
<1> QED
  BY <1>1, <1>2, <1>3, <1>4, <1>5, <1>6, <1>7 DEF TraceNext, Read

\* What a reader does next has a number of its own, and what recent() copies
\* has been heard.
LEMMA CopyingKept ==
  TraceTypeOK /\ Numbering /\ Copying /\ [TraceNext]_traceVars => Copying'
<1> SUFFICES ASSUME TraceTypeOK, Numbering, Copying, [TraceNext]_traceVars PROVE Copying'
  OBVIOUS
<1>0. /\ seq \in Nat
      /\ \A s \in Streams : \A f \in copied[s].frames : f \in Frames /\ f.seq \in Nat
      /\ \A b \in Buses : \A f \in Heard(b) : f \in Frames /\ f.seq \in Nat
  <2>1. \A f \in Frames : f.seq \in Nat
    BY DEF Frames
  <2>2. seq \in Nat /\ \A s \in Streams : copied[s].frames \subseteq Frames
    BY TracerBounds DEF TraceTypeOK
  <2> QED
    BY <2>1, <2>2, HeardDiffer
<1>1. ASSUME NEW b \in Buses, Hear(b)
      PROVE  Copying'
  <2>1. copied' = copied /\ seq' = seq + 1
    BY <1>1 DEF Hear
  <2>2. \A c \in Buses : Heard(c)' \subseteq Heard(c) \cup {[seq |-> seq + 1, bus |-> b]}
    BY <1>1 DEF Hear, Heard, TraceTypeOK
  <2>3. ASSUME NEW s \in Streams, NEW f \in copied[s].frames, NEW c \in Buses, NEW g \in Heard(c)',
               f.seq = g.seq
        PROVE  f = g
    <3>1. f.seq <= seq /\ f.seq \in Nat
      BY <1>0 DEF Copying
    <3>2. g \in Heard(c)
      BY <1>0, <2>2, <2>3, <3>1
    <3> QED
      BY <2>3, <3>2 DEF Copying
  <2>4. \A s \in Streams : \A f \in copied[s].frames : f.seq <= seq + 1
    BY <1>0 DEF Copying
  <2> QED
    BY <2>1, <2>3, <2>4 DEF Copying
<1>2. ASSUME copied' = copied, seq' = seq, \A c \in Buses : Heard(c)' \subseteq Heard(c)
      PROVE  Copying'
  BY <1>2 DEF Copying
<1>3. ASSUME NEW b \in Buses, Keep(b)
      PROVE  Copying'
  <2>1. frame[b] \in Frames /\ frame[b] # NoFrame /\ history[b] \in Seq(Frames)
    BY <1>3 DEF Keep, Numbering, TraceTypeOK
  <2>2. Append(history[b], frame[b]) \in Seq(Frames)
    BY <2>1, AppendProperties
  <2>3. Range(LastOf(Append(history[b], frame[b]), HistoryMax)) \subseteq Range(Append(history[b], frame[b]))
    BY <2>2, LastOnes, TracerBounds
  <2>4. Range(Append(history[b], frame[b])) \subseteq Range(history[b]) \cup {frame[b]}
    BY <2>1, <2>2, AppendProperties, LenProperties DEF Range
  <2>5. \A c \in Buses : Heard(c)' \subseteq Heard(c)
    BY <1>3, <2>1, <2>3, <2>4 DEF Keep, Heard, TraceTypeOK
  <2> QED
    BY <1>2, <1>3, <2>5 DEF Keep
<1>4. ASSUME NEW b \in Buses, FanOut(b)
      PROVE  Copying'
  BY <1>2, <1>4 DEF FanOut, Heard
<1>5. ASSUME NEW s \in Streams, NEW b \in Buses, Copy(s, b)
      PROVE  Copying'
  <2>1. Range(history[b]) \subseteq Heard(b)
    BY DEF Heard
  <2>2. /\ copied'[s].frames = copied[s].frames \cup Range(history[b])
        /\ \A p \in Streams \ {s} : copied'[p] = copied[p]
        /\ seq' = seq /\ \A c \in Buses : Heard(c)' = Heard(c)
    BY <1>5 DEF Copy, readers, Heard, TraceTypeOK
  <2>3. ASSUME NEW f \in copied'[s].frames
        PROVE  /\ f.seq <= seq
               /\ \A g \in copied'[s].frames : f.seq = g.seq => f = g
               /\ \A c \in Buses : \A g \in Heard(c) : f.seq = g.seq => f = g
    <3>1. CASE f \in copied[s].frames
      BY <2>1, <2>2, <3>1 DEF Copying
    <3>2. CASE f \in Heard(b)
      BY <2>1, <2>2, <3>2, HeardDiffer DEF Copying
    <3> QED
      BY <2>1, <2>2, <2>3, <3>1, <3>2
  <2> QED
    BY <2>2, <2>3 DEF Copying
<1>6. ASSUME NEW s \in Streams, Recent(s)
      PROVE  Copying'
  <2>1. /\ copied'[s].frames = {}
        /\ \A p \in Streams \ {s} : copied'[p] = copied[p]
        /\ seq' = seq /\ \A c \in Buses : Heard(c)' = Heard(c)
    BY <1>6 DEF Recent, NothingCopied, readers, Heard, TraceTypeOK
  <2> QED
    BY <2>1 DEF Copying
<1>7. ASSUME NEW s \in Streams,
             Open(s) \/ ShowRecent(s) \/ Subscribe(s) \/ Generate(s) \/ CloseTab(s)
      PROVE  Copying'
  BY <1>2, <1>7 DEF Open, ShowRecent, Subscribe, Generate, Start, Deliver, Finish, CloseTab,
                    readers, Heard
<1>8. CASE UNCHANGED traceVars
  BY <1>2, <1>8 DEF traceVars, Heard
<1> QED
  BY <1>1, <1>3, <1>4, <1>5, <1>6, <1>7, <1>8 DEF TraceNext, Read

-----------------------------------------------------------------------------
(* What happens to a trail.                                                *)

\* The stream of a bus is the same in u as in t, in the same order.
Same(t, u, b) ==
  /\ \A i \in Carried(u, b) : \E k \in Carried(t, b) : u[i] = t[k]
  /\ \A k \in Carried(t, b) : \E i \in Carried(u, b) : u[i] = t[k]
  /\ \A i, j \in Carried(u, b) :
       i < j => \E k, l \in Carried(t, b) : k < l /\ u[i] = t[k] /\ u[j] = t[l]

LEMMA SameAsBefore ==
  ASSUME NEW t, NEW b
  PROVE  Same(t, t, b)
BY DEF Same

\* The backfill comes between what is shown and what is queued.
LEMMA Backfilled ==
  ASSUME NEW rows \in Seq(Rows), NEW q \in Seq(Frames), NEW r \in Seq(Frames), NEW b
  PROVE  Same(TrailOf(rows, q),
              TrailOf(rows \o [i \in DOMAIN r |-> Row(r[i], "recent")], q), b)
<1> DEFINE new == [i \in DOMAIN r |-> Row(r[i], "recent")]
           t == TrailOf(rows, q)
           u == TrailOf(rows \o new, q)
           m == Len(rows)
           n == Len(q)
           d == Len(r)
<1>1. m \in Nat /\ n \in Nat /\ d \in Nat
  BY LenProperties
<1>2. new \in Seq(Rows) /\ Len(new) = d /\ \A i \in 1..d : new[i] = Row(r[i], "recent")
  BY RowsOf
<1> HIDE DEF new
<1>3. /\ rows \o new \in Seq(Rows) /\ Len(rows \o new) = m + d
      /\ \A i \in 1..(m + d) : (rows \o new)[i] = IF i <= m THEN rows[i] ELSE new[i - m]
  <2>1. /\ rows \o new \in Seq(Rows)
        /\ Len(rows \o new) = Len(rows) + Len(new)
        /\ \A i \in 1..(Len(rows) + Len(new)) :
             (rows \o new)[i] = IF i <= Len(rows) THEN rows[i] ELSE new[i - Len(rows)]
    BY <1>2, ConcatProperties
  <2> QED
    BY <1>2, <2>1
<1>4. /\ DOMAIN t = 1..(m + n)
      /\ \A i \in 1..m : t[i] = rows[i]
      /\ \A i \in 1..n : t[m + i] = Row(q[i], "stream")
  BY TrailIs
<1>5. /\ DOMAIN u = 1..((m + d) + n)
      /\ \A i \in 1..(m + d) : u[i] = (rows \o new)[i]
      /\ \A i \in 1..n : u[(m + d) + i] = Row(q[i], "stream")
  <2>1. /\ DOMAIN u = 1..(Len(rows \o new) + Len(q))
        /\ \A i \in 1..Len(rows \o new) : u[i] = (rows \o new)[i]
        /\ \A i \in 1..Len(q) : u[Len(rows \o new) + i] = Row(q[i], "stream")
    BY <1>3, TrailIs
  <2> QED
    BY <1>3, <2>1
<1> HIDE DEF m, n, d, t, u
<1>6. /\ \A i \in 1..m : u[i] = t[i]
      /\ \A i \in (m + 1)..(m + d) : u[i].from = "recent"
      /\ \A i \in (m + 1)..(m + n) : u[i + d] = t[i]
  <2>1. ASSUME NEW i \in 1..m PROVE u[i] = t[i]
    <3>1. i \in 1..(m + d) /\ i <= m
      BY <1>1
    <3> QED
      BY <1>3, <1>4, <1>5, <3>1
  <2>2. ASSUME NEW i \in (m + 1)..(m + d) PROVE u[i].from = "recent"
    <3>1. i \in 1..(m + d) /\ ~(i <= m) /\ i - m \in 1..d
      BY <1>1
    <3>2. u[i] = Row(r[i - m], "recent")
      BY <1>2, <1>3, <1>5, <3>1
    <3> QED
      BY <3>2 DEF Row
  <2>3. ASSUME NEW i \in (m + 1)..(m + n) PROVE u[i + d] = t[i]
    <3>1. i - m \in 1..n /\ m + (i - m) = i /\ (m + d) + (i - m) = i + d
      BY <1>1
    <3> QED
      BY <1>4, <1>5, <3>1
  <2> QED
    BY <2>1, <2>2, <2>3
<1> DEFINE old(i) == IF i <= m THEN i ELSE i - d
<1>7. ASSUME NEW i \in Carried(u, b)
      PROVE  /\ old(i) \in Carried(t, b) /\ u[i] = t[old(i)] /\ i \in Nat
             /\ i \in 1..m \/ i \in (m + d + 1)..(m + d + n)
  <2>1. i \in 1..((m + d) + n) /\ u[i].from = "stream" /\ u[i].of.bus = b
    BY <1>5 DEF Carried
  <2>2. i \notin (m + 1)..(m + d)
    BY <1>6, <2>1
  <2>3. i \in 1..m \/ i \in (m + d + 1)..(m + d + n)
    BY <1>1, <2>1, <2>2
  <2>4. CASE i \in 1..m
    <3>1. old(i) = i /\ i \in 1..(m + n)
      BY <1>1, <2>4
    <3> QED
      BY <1>4, <1>6, <2>1, <2>4, <3>1 DEF Carried
  <2>5. CASE i \in (m + d + 1)..(m + d + n)
    <3>1. old(i) = i - d /\ i - d \in (m + 1)..(m + n) /\ (i - d) + d = i /\ i - d \in 1..(m + n)
      BY <1>1, <2>5
    <3>2. u[i] = t[i - d]
      BY <1>6, <3>1
    <3> QED
      BY <1>4, <2>1, <2>5, <3>1, <3>2 DEF Carried
  <2> QED
    BY <2>3, <2>4, <2>5
<1>8. ASSUME NEW k \in Carried(t, b)
      PROVE  \E i \in Carried(u, b) : u[i] = t[k]
  <2>1. k \in 1..(m + n) /\ t[k].from = "stream" /\ t[k].of.bus = b
    BY <1>4 DEF Carried
  <2>2. CASE k <= m
    <3>1. k \in 1..m /\ k \in 1..((m + d) + n)
      BY <1>1, <2>1, <2>2
    <3> QED
      BY <1>5, <1>6, <2>1, <3>1 DEF Carried
  <2>3. CASE ~(k <= m)
    <3>1. k \in (m + 1)..(m + n) /\ k + d \in 1..((m + d) + n)
      BY <1>1, <2>1, <2>3
    <3> QED
      BY <1>5, <1>6, <2>1, <3>1 DEF Carried
  <2> QED
    BY <2>2, <2>3
<1>9. ASSUME NEW i \in Carried(u, b), NEW j \in Carried(u, b), i < j
      PROVE  old(i) < old(j)
  <2>1. /\ i \in 1..m \/ i \in (m + d + 1)..(m + d + n)
        /\ j \in 1..m \/ j \in (m + d + 1)..(m + d + n)
    BY <1>7
  <2> QED
    BY <1>1, <1>9, <2>1
<1> HIDE DEF old
<1>10. Same(t, u, b)
  BY <1>7, <1>8, <1>9 DEF Same
<1> QED
  BY <1>10 DEF t, u, new

\* An event takes the first frame of the queue to the end of the page.
LEMMA Delivered ==
  ASSUME NEW rows \in Seq(Rows), NEW q \in Seq(Frames), q # <<>>
  PROVE  TrailOf(Append(rows, Row(Head(q), "stream")), Tail(q)) = TrailOf(rows, q)
<1> DEFINE more == Append(rows, Row(Head(q), "stream"))
           t == TrailOf(rows, q)
           u == TrailOf(more, Tail(q))
           m == Len(rows)
           n == Len(q)
<1>1. /\ Head(q) = q[1] /\ Tail(q) \in Seq(Frames) /\ Len(Tail(q)) = n - 1
      /\ \A i \in 1..(n - 1) : Tail(q)[i] = q[i + 1]
      /\ m \in Nat /\ n \in Nat \ {0} /\ Head(q) \in Frames
  BY HeadTailProperties, LenProperties, EmptySeq
<1>2. Row(Head(q), "stream") \in Rows
  BY <1>1 DEF Row, Rows
<1>3. /\ more \in Seq(Rows) /\ Len(more) = m + 1 /\ more[m + 1] = Row(Head(q), "stream")
      /\ \A i \in 1..m : more[i] = rows[i]
  BY <1>1, <1>2, AppendProperties
<1> HIDE DEF more
<1>4. /\ t \in Seq(Rows) /\ Len(t) = m + n
      /\ \A i \in 1..m : t[i] = rows[i]
      /\ \A i \in 1..n : t[m + i] = Row(q[i], "stream")
  BY TrailIs
<1>5. /\ u \in Seq(Rows) /\ Len(u) = (m + 1) + (n - 1)
      /\ \A i \in 1..(m + 1) : u[i] = more[i]
      /\ \A i \in 1..(n - 1) : u[(m + 1) + i] = Row(Tail(q)[i], "stream")
  <2>1. /\ u \in Seq(Rows) /\ Len(u) = Len(more) + Len(Tail(q))
        /\ \A i \in 1..Len(more) : u[i] = more[i]
        /\ \A i \in 1..Len(Tail(q)) : u[Len(more) + i] = Row(Tail(q)[i], "stream")
    BY <1>1, <1>3, TrailIs
  <2> QED
    BY <1>1, <1>3, <2>1
<1> HIDE DEF m, n, t, u
<1>6. ASSUME NEW i \in 1..(m + n)
      PROVE  u[i] = t[i]
  <2>1. CASE i <= m
    <3>1. i \in 1..m /\ i \in 1..(m + 1)
      BY <1>1, <2>1
    <3> QED
      BY <1>3, <1>4, <1>5, <3>1
  <2>2. CASE i = m + 1
    <3>1. 1 \in 1..n /\ m + 1 \in 1..(m + 1)
      BY <1>1
    <3> QED
      BY <1>1, <1>3, <1>4, <1>5, <2>2, <3>1
  <2>3. CASE i > m + 1
    <3> DEFINE k == i - (m + 1)
    <3>1. k \in 1..(n - 1) /\ (m + 1) + k = i /\ k + 1 \in 1..n /\ m + (k + 1) = i
      BY <1>1, <2>3
    <3> HIDE DEF k
    <3>2. u[i] = Row(Tail(q)[k], "stream") /\ Tail(q)[k] = q[k + 1]
      BY <1>1, <1>5, <3>1
    <3> QED
      BY <1>4, <3>1, <3>2
  <2> QED
    BY <1>1, <2>1, <2>2, <2>3
<1>7. (m + 1) + (n - 1) = m + n
  BY <1>1
<1>8. u = t
  BY <1>4, <1>5, <1>6, <1>7, SeqEqual
<1> QED
  BY <1>8 DEF t, u, more

\* A frame that is handed over comes last.
LEMMA HandedOver ==
  ASSUME NEW rows \in Seq(Rows), NEW q \in Seq(Frames), NEW f \in Frames, NEW b
  PROVE  LET t == TrailOf(rows, q)
             u == TrailOf(rows, Append(q, f))
             z == Len(t) + 1
         IN  /\ Carried(u, b) = Carried(t, b) \cup (IF f.bus = b THEN {z} ELSE {})
             /\ \A i \in Carried(t, b) : u[i] = t[i] /\ i < z
             /\ z \in Nat /\ u[z].of = f /\ Carried(t, b) \subseteq Nat
<1> DEFINE t == TrailOf(rows, q)
           u == TrailOf(rows, Append(q, f))
           m == Len(rows)
           n == Len(q)
           z == Len(t) + 1
<1>1. /\ Append(q, f) \in Seq(Frames) /\ Len(Append(q, f)) = n + 1 /\ m \in Nat /\ n \in Nat
      /\ \A i \in 1..n : Append(q, f)[i] = q[i]
      /\ Append(q, f)[n + 1] = f
  BY AppendProperties, LenProperties
<1>2. /\ Len(t) = m + n /\ DOMAIN t = 1..(m + n)
      /\ \A i \in 1..m : t[i] = rows[i]
      /\ \A i \in 1..n : t[m + i] = Row(q[i], "stream")
  BY TrailIs
<1>3. /\ DOMAIN u = 1..(m + (n + 1))
      /\ \A i \in 1..m : u[i] = rows[i]
      /\ \A i \in 1..(n + 1) : u[m + i] = Row(Append(q, f)[i], "stream")
  BY <1>1, TrailIs
<1> HIDE DEF m, n, t, u
<1>4. ASSUME NEW i \in 1..(m + n)
      PROVE  u[i] = t[i]
  <2>1. CASE i <= m
    <3>1. i \in 1..m
      BY <1>1, <2>1
    <3> QED
      BY <1>2, <1>3, <3>1
  <2>2. CASE ~(i <= m)
    <3> DEFINE k == i - m
    <3>1. k \in 1..n /\ k \in 1..(n + 1) /\ m + k = i
      BY <1>1, <2>2
    <3> HIDE DEF k
    <3> QED
      BY <1>1, <1>2, <1>3, <3>1
  <2> QED
    BY <2>1, <2>2
<1>5. u[z] = Row(f, "stream")
  <2>1. n + 1 \in 1..(n + 1) /\ m + (n + 1) = z
    BY <1>1, <1>2
  <2> QED
    BY <1>1, <1>3, <2>1
<1>6. /\ z = m + n + 1 /\ z \in Nat
      /\ 1..(m + (n + 1)) = 1..(m + n) \cup {z} /\ \A i \in 1..(m + n) : i < z
  BY <1>1, <1>2
<1> HIDE DEF z
<1>7. Carried(t, b) \subseteq 1..(m + n)
  BY <1>2 DEF Carried
<1>8. Carried(u, b) = Carried(t, b) \cup (IF f.bus = b THEN {z} ELSE {})
  BY <1>2, <1>3, <1>4, <1>5, <1>6 DEF Carried, Row
<1>9. u[z].of = f
  BY <1>5 DEF Row
<1>10. \A i \in Carried(t, b) : u[i] = t[i] /\ i < z /\ i \in Nat
  BY <1>1, <1>4, <1>6, <1>7
<1> QED
  BY <1>6, <1>8, <1>9, <1>10 DEF t, u, z

\* A stream that has not subscribed has carried nothing.
LEMMA NothingCarried ==
  ASSUME TraceTypeOK, Subscribing, NEW s \in Streams, gen[s] \in {"unused", "asked"}, NEW b
  PROVE  Carried(Trail(s), b) = {}
<1>1. shown[s] \in Seq(Rows) /\ queue[s] \in Seq(Frames)
  BY DEF TraceTypeOK
<1>2. Len(queue[s]) = 0 /\ \A i \in DOMAIN shown[s] : shown[s][i].from = "recent"
  BY DEF Subscribing
<1>3. DOMAIN shown[s] = 1..Len(shown[s]) /\ Len(shown[s]) \in Nat
  BY <1>1, LenProperties
<1>4. /\ DOMAIN Trail(s) = 1..(Len(shown[s]) + Len(queue[s]))
      /\ \A i \in 1..Len(shown[s]) : Trail(s)[i] = shown[s][i]
  BY <1>1, TrailIs DEF Trail
<1>5. \A i \in DOMAIN Trail(s) : Trail(s)[i].from = "recent"
  BY <1>2, <1>3, <1>4
<1> QED
  BY <1>5 DEF Carried

\* What a stream has carried has a number.
LEMMA CarriedFrames ==
  ASSUME TraceTypeOK, NEW s \in Streams, NEW b, NEW i \in Carried(Trail(s), b)
  PROVE  Trail(s)[i].of.seq \in Nat
<1>1. shown[s] \in Seq(Rows) /\ queue[s] \in Seq(Frames)
  BY DEF TraceTypeOK
<1>2. Trail(s) \in Seq(Rows)
  BY <1>1, TrailIs DEF Trail
<1>3. i \in 1..Len(Trail(s))
  BY <1>2, LenProperties DEF Carried
<1>4. Trail(s)[i] \in Rows
  BY <1>2, <1>3, ElementOfSeq
<1> QED
  BY <1>4, TracerBounds DEF Rows, Frames

-----------------------------------------------------------------------------
(* The steps of a page and of its requests.                                *)

Asks(s) == \/ Open(s) \/ (\E b \in Buses : Copy(s, b)) \/ Recent(s) \/ ShowRecent(s)
           \/ Subscribe(s) \/ Generate(s) \/ CloseTab(s)

\* None of them changes what a stream has carried and will carry, and who
\* subscribes has carried nothing.
LEMMA PageSteps ==
  ASSUME TraceTypeOK, Subscribing, NEW s \in Streams, Asks(s)
  PROVE  /\ UNCHANGED readers
         /\ \A p \in Streams, b \in Buses : Same(Trail(p), Trail(p)', b)
         /\ \A p \in subs' \ subs, b \in Buses : Carried(Trail(p), b) = {}
<1>1. UNCHANGED readers
  BY DEF Asks, Open, Copy, Recent, ShowRecent, Subscribe, Generate, Start, Deliver, Finish, CloseTab
<1>2. ASSUME NEW p \in subs' \ subs, NEW b \in Buses
      PROVE  Carried(Trail(p), b) = {}
  <2>1. Subscribe(s) /\ p = s
    BY <1>2 DEF Asks, Open, Copy, Recent, ShowRecent, Subscribe, Generate, Start, Deliver, Finish, CloseTab
  <2> QED
    BY <2>1, NothingCarried DEF Subscribe
<1>3. ASSUME NEW p \in Streams, NEW b \in Buses
      PROVE  Same(Trail(p), Trail(p)', b)
  <2>1. CASE shown'[p] = shown[p] /\ queue'[p] = queue[p]
    <3>1. Trail(p)' = Trail(p)
      BY <2>1 DEF Trail
    <3> QED
      BY <3>1, SameAsBefore
  <2>2. CASE ShowRecent(s) /\ p = s
    <3>1. shown[s] \in Seq(Rows) /\ queue[s] \in Seq(Frames) /\ backfill[s] \in Seq(Frames)
      BY <2>2 DEF ShowRecent, TraceTypeOK
    <3>2. /\ queue'[s] = queue[s]
          /\ shown'[s] = shown[s] \o [i \in DOMAIN backfill[s] |-> Row(backfill[s][i], "recent")]
      BY <2>2 DEF ShowRecent, TraceTypeOK
    <3> QED
      BY <2>2, <3>1, <3>2, Backfilled DEF Trail
  <2>3. CASE Deliver(s) /\ p = s
    <3>1. shown[s] \in Seq(Rows) /\ queue[s] \in Seq(Frames) /\ queue[s] # <<>>
      BY <2>3 DEF Deliver, TraceTypeOK
    <3>2. queue'[s] = Tail(queue[s]) /\ shown'[s] = Append(shown[s], Row(Head(queue[s]), "stream"))
      BY <2>3 DEF Deliver, TraceTypeOK
    <3>3. Trail(s)' = Trail(s)
      BY <3>1, <3>2, Delivered DEF Trail
    <3> QED
      BY <2>3, <3>3, SameAsBefore
  <2>4. \/ shown'[p] = shown[p] /\ queue'[p] = queue[p]
        \/ ShowRecent(s) /\ p = s
        \/ Deliver(s) /\ p = s
    BY DEF Asks, Open, Copy, Recent, ShowRecent, Subscribe, Generate, Start, Deliver, Finish, CloseTab,
           TraceTypeOK
  <2> QED
    BY <2>1, <2>2, <2>3, <2>4
<1> QED
  BY <1>1, <1>2, <1>3

\* Nor does it disturb what the readers have promised of the streams.
LEMMA PageKept ==
  ASSUME Handed, Complete, StreamsHaveNoHole, subs' \subseteq Streams,
         UNCHANGED readers,
         \A p \in Streams, b \in Buses : Same(Trail(p), Trail(p)', b),
         \A p \in subs' \ subs, b \in Buses : Carried(Trail(p), b) = {}
  PROVE  Handed' /\ Complete' /\ StreamsHaveNoHole'
<1>1. frame' = frame /\ reader' = reader /\ history' = history
  BY DEF readers
<1>2. ASSUME NEW p \in Streams, NEW b \in Buses
      PROVE  HandedTo(p, b)'
  <2>1. \A i \in Carried(Trail(p)', b) : \E k \in Carried(Trail(p), b) : Trail(p)'[i] = Trail(p)[k]
    BY DEF Same
  <2> QED
    BY <1>1, <2>1 DEF Handed, HandedTo
<1>3. ASSUME NEW p \in subs', NEW b \in Buses
      PROVE  CompleteFor(p, b)'
  <2>1. /\ \A i \in Carried(Trail(p)', b) : \E k \in Carried(Trail(p), b) : Trail(p)'[i] = Trail(p)[k]
        /\ \A k \in Carried(Trail(p), b) : \E i \in Carried(Trail(p)', b) : Trail(p)'[i] = Trail(p)[k]
    BY DEF Same
  <2>2. CASE p \in subs
    <3>1. CompleteFor(p, b)
      BY <2>2 DEF Complete
    <3> QED
      BY <1>1, <2>1, <3>1 DEF CompleteFor
  <2>3. CASE p \notin subs
    <3>1. Carried(Trail(p), b) = {}
      BY <2>3
    <3> QED
      BY <2>1, <3>1 DEF CompleteFor
  <2> QED
    BY <2>2, <2>3
<1>4. ASSUME NEW p \in Streams, NEW b \in Buses,
             NEW i \in Carried(Trail(p)', b), NEW j \in Carried(Trail(p)', b)
      PROVE  /\ i < j => Trail(p)'[i].of.seq < Trail(p)'[j].of.seq
             /\ \A f \in Range(history'[b]) :
                  Trail(p)'[i].of.seq < f.seq /\ f.seq < Trail(p)'[j].of.seq
                    => \E k \in Carried(Trail(p)', b) : Trail(p)'[k].of = f
  <2>1. Same(Trail(p), Trail(p)', b)
    OBVIOUS
  <2>2. PICK k \in Carried(Trail(p), b) : Trail(p)'[i] = Trail(p)[k]
    BY <2>1 DEF Same
  <2>3. PICK l \in Carried(Trail(p), b) : Trail(p)'[j] = Trail(p)[l]
    BY <2>1 DEF Same
  <2>4. ASSUME i < j
        PROVE  Trail(p)'[i].of.seq < Trail(p)'[j].of.seq
    <3>1. PICK x \in Carried(Trail(p), b), y \in Carried(Trail(p), b) :
            x < y /\ Trail(p)'[i] = Trail(p)[x] /\ Trail(p)'[j] = Trail(p)[y]
      BY <2>1, <2>4 DEF Same
    <3> QED
      BY <3>1 DEF StreamsHaveNoHole
  <2>5. ASSUME NEW f \in Range(history'[b]),
               Trail(p)'[i].of.seq < f.seq, f.seq < Trail(p)'[j].of.seq
        PROVE  \E x \in Carried(Trail(p)', b) : Trail(p)'[x].of = f
    <3>1. f \in Range(history[b])
      BY <1>1, <2>5
    <3>2. Trail(p)[k].of.seq < f.seq /\ f.seq < Trail(p)[l].of.seq
      BY <2>2, <2>3, <2>5
    <3>3. PICK x \in Carried(Trail(p), b) : Trail(p)[x].of = f
      BY <3>1, <3>2 DEF StreamsHaveNoHole
    <3>4. PICK y \in Carried(Trail(p)', b) : Trail(p)'[y] = Trail(p)[x]
      BY <2>1, <3>3 DEF Same
    <3> QED
      BY <3>3, <3>4
  <2> QED
    BY <2>4, <2>5
<1> QED
  BY <1>2, <1>3, <1>4 DEF Handed, Complete, StreamsHaveNoHole

LEMMA OnlyRecent ==
  ASSUME NEW rows \in Seq(Rows), \A i \in DOMAIN rows : rows[i].from = "recent",
         NEW q \in Seq(Frames)
  PROVE  LET new == [i \in DOMAIN q |-> Row(q[i], "recent")]
         IN  \A i \in DOMAIN (rows \o new) : (rows \o new)[i].from = "recent"
<1> DEFINE new == [i \in DOMAIN q |-> Row(q[i], "recent")]
<1>1. /\ new \in Seq(Rows) /\ Len(new) = Len(q)
      /\ \A i \in 1..Len(q) : new[i] = Row(q[i], "recent")
  BY RowsOf
<1> HIDE DEF new
<1>2. /\ rows \o new \in Seq(Rows)
      /\ Len(rows \o new) = Len(rows) + Len(new)
      /\ \A i \in 1..(Len(rows) + Len(new)) :
           (rows \o new)[i] = IF i <= Len(rows) THEN rows[i] ELSE new[i - Len(rows)]
  BY <1>1, ConcatProperties
<1>3. /\ DOMAIN (rows \o new) = 1..(Len(rows) + Len(new))
      /\ DOMAIN rows = 1..Len(rows)
      /\ Len(rows) \in Nat /\ Len(new) \in Nat
  BY <1>1, <1>2, LenProperties
<1>4. ASSUME NEW i \in DOMAIN (rows \o new)
      PROVE  (rows \o new)[i].from = "recent"
  <2>1. CASE i <= Len(rows)
    <3>1. i \in DOMAIN rows /\ (rows \o new)[i] = rows[i]
      BY <1>2, <1>3, <2>1
    <3> QED
      BY <3>1
  <2>2. CASE ~(i <= Len(rows))
    <3> DEFINE k == i - Len(rows)
    <3>1. k \in 1..Len(new) /\ (rows \o new)[i] = new[k]
      BY <1>2, <1>3, <2>2
    <3> HIDE DEF k
    <3>2. new[k] = Row(q[k], "recent")
      BY <1>1, <3>1
    <3> QED
      BY <3>1, <3>2 DEF Row
  <2> QED
    BY <2>1, <2>2
<1> QED
  BY <1>4 DEF new

LEMMA SubscribingKept == TraceTypeOK /\ Subscribing /\ [TraceNext]_traceVars => Subscribing'
<1> SUFFICES ASSUME TraceTypeOK, Subscribing, [TraceNext]_traceVars,
                    NEW s \in Streams, gen'[s] \in {"unused", "asked"}
             PROVE  /\ s \notin subs' /\ queue'[s] = <<>>
                    /\ \A i \in DOMAIN shown'[s] : shown'[s][i].from = "recent"
  BY DEF Subscribing
<1>1. CASE \E b \in Buses : Hear(b) \/ Read(b)
  BY <1>1 DEF Hear, Read, Keep, FanOut, Subscribing
<1>2. ASSUME NEW p \in Streams, ShowRecent(p)
      PROVE  /\ s \notin subs' /\ queue'[s] = <<>>
             /\ \A i \in DOMAIN shown'[s] : shown'[s][i].from = "recent"
  <2>1. s \notin subs' /\ queue'[s] = <<>> /\ \A i \in DOMAIN shown[s] : shown[s][i].from = "recent"
    BY <1>2 DEF ShowRecent, readers, Subscribing
  <2>2. CASE p # s
    BY <1>2, <2>1, <2>2 DEF ShowRecent, TraceTypeOK
  <2>3. CASE p = s
    <3>1. /\ shown[s] \in Seq(Rows) /\ backfill[s] \in Seq(Frames)
          /\ shown'[s] = shown[s] \o [i \in DOMAIN backfill[s] |-> Row(backfill[s][i], "recent")]
      BY <1>2, <2>3 DEF ShowRecent, TraceTypeOK
    <3>2. \A i \in DOMAIN shown'[s] : shown'[s][i].from = "recent"
      BY <2>1, <3>1, OnlyRecent
    <3> QED
      BY <2>1, <3>2
  <2> QED
    BY <2>2, <2>3
<1>3. ASSUME NEW p \in Streams,
             Open(p) \/ Recent(p) \/ Subscribe(p) \/ Generate(p) \/ CloseTab(p)
      PROVE  /\ s \notin subs' /\ queue'[s] = <<>>
             /\ \A i \in DOMAIN shown'[s] : shown'[s][i].from = "recent"
  BY <1>3 DEF Open, Recent, Subscribe, Generate, Start, Deliver, Finish, CloseTab, Subscribing,
              TraceTypeOK
<1>4. CASE UNCHANGED traceVars
  BY <1>4 DEF traceVars, Subscribing
<1>5. ASSUME NEW p \in Streams, NEW b \in Buses, Copy(p, b)
      PROVE  /\ s \notin subs' /\ queue'[s] = <<>>
             /\ \A i \in DOMAIN shown'[s] : shown'[s][i].from = "recent"
  BY <1>5 DEF Copy, readers, Subscribing
<1> QED
  BY <1>1, <1>2, <1>3, <1>4, <1>5 DEF TraceNext

-----------------------------------------------------------------------------
(* The steps of a reader.                                                  *)

\* The frame that is heard has a number above all others.
LEMMA HearKept ==
  ASSUME TraceInv, NEW b \in Buses, Hear(b)
  PROVE  Handed' /\ Complete' /\ StreamsHaveNoHole'
<1>1. TraceTypeOK /\ Numbering /\ Handed /\ Complete /\ StreamsHaveNoHole
  BY DEF TraceInv
<1>2. /\ reader[b] = "recv" /\ reader'[b] = "record"
      /\ frame'[b].seq = seq + 1 /\ frame[b].seq <= seq
      /\ \A c \in Buses \ {b} : frame'[c] = frame[c] /\ reader'[c] = reader[c]
      /\ history' = history /\ subs' = subs
      /\ seq \in Nat /\ frame[b].seq \in Nat
  BY <1>1, TracerBounds DEF Hear, TraceTypeOK, Numbering, Frames, NoFrame
<1>3. \A s \in Streams : Trail(s)' = Trail(s)
  BY DEF Hear, Trail
<1>4. ASSUME NEW s \in Streams, NEW c \in Buses
      PROVE  HandedTo(s, c)'
  <2>1. HandedTo(s, c)
    BY <1>1 DEF Handed
  <2>2. \A i \in Carried(Trail(s), c) : Trail(s)[i].of.seq \in Nat
    BY <1>1, CarriedFrames
  <2>3. CASE c = b
    <3>1. ASSUME NEW i \in Carried(Trail(s), b)
          PROVE  Trail(s)[i].of.seq <= seq + 1 /\ Trail(s)[i].of.seq < seq + 1
      <4>1. Trail(s)[i].of.seq \in Nat
        BY <2>2, <2>3
      <4>2. Trail(s)[i].of.seq <= frame[b].seq
        BY <1>2, <2>1, <2>3, <4>1 DEF HandedTo
      <4> QED
        BY <1>2, <4>1, <4>2
    <3> QED
      BY <1>2, <1>3, <2>3, <3>1 DEF HandedTo
  <2>4. CASE c # b
    BY <1>2, <1>3, <2>1, <2>4 DEF HandedTo
  <2> QED
    BY <2>3, <2>4
<1>5. ASSUME NEW s \in subs', NEW c \in Buses
      PROVE  CompleteFor(s, c)'
  <2>1. CompleteFor(s, c) /\ s \in Streams
    BY <1>1, <1>2 DEF Complete, TraceTypeOK
  <2> QED
    BY <1>2, <1>3, <2>1 DEF CompleteFor
<1>6. StreamsHaveNoHole'
  BY <1>1, <1>2, <1>3 DEF StreamsHaveNoHole
<1> QED
  BY <1>4, <1>5, <1>6 DEF Handed, Complete

\* What joins the ring buffer is newer than all a stream has carried.
LEMMA KeepKept ==
  ASSUME TraceInv, NEW b \in Buses, Keep(b)
  PROVE  Handed' /\ Complete' /\ StreamsHaveNoHole'
<1>1. TraceTypeOK /\ Numbering /\ Handed /\ Complete /\ StreamsHaveNoHole
  BY DEF TraceInv
<1>2. /\ reader[b] = "record" /\ reader'[b] = "fanOut"
      /\ \A c \in Buses \ {b} : history'[c] = history[c] /\ reader'[c] = reader[c]
      /\ frame' = frame /\ subs' = subs
      /\ history[b] \in Seq(Frames) /\ frame[b] \in Frames
  BY <1>1 DEF Keep, TraceTypeOK, Numbering
<1>3. \A s \in Streams : Trail(s)' = Trail(s)
  BY DEF Keep, Trail
<1>4. Range(history'[b]) \subseteq Range(history[b]) \cup {frame[b]}
  <2>1. Append(history[b], frame[b]) \in Seq(Frames)
    BY <1>2, AppendProperties
  <2>2. Range(LastOf(Append(history[b], frame[b]), HistoryMax))
          \subseteq Range(Append(history[b], frame[b]))
    BY <2>1, LastOnes, TracerBounds
  <2>3. Range(Append(history[b], frame[b])) \subseteq Range(history[b]) \cup {frame[b]}
    BY <1>2, <2>1, AppendProperties, LenProperties DEF Range
  <2>4. history'[b] = LastOf(Append(history[b], frame[b]), HistoryMax)
    BY <1>1 DEF Keep, TraceTypeOK
  <2> QED
    BY <2>2, <2>3, <2>4
<1>5. ASSUME NEW s \in Streams, NEW c \in Buses
      PROVE  HandedTo(s, c)'
  <2>1. HandedTo(s, c)
    BY <1>1 DEF Handed
  <2>2. reader'[c] # "recv" => reader[c] # "recv"
    BY <1>2
  <2> QED
    BY <1>2, <1>3, <2>1, <2>2 DEF HandedTo
<1>6. ASSUME NEW s \in subs', NEW c \in Buses
      PROVE  CompleteFor(s, c)'
  <2>1. CompleteFor(s, c) /\ s \in Streams
    BY <1>1, <1>2 DEF Complete, TraceTypeOK
  <2>2. CASE c = b
    BY <1>2, <1>3, <1>4, <2>1, <2>2 DEF CompleteFor
  <2>3. CASE c # b
    BY <1>2, <1>3, <2>1, <2>3 DEF CompleteFor
  <2> QED
    BY <2>2, <2>3
<1>7. ASSUME NEW s \in Streams, NEW c \in Buses,
             NEW i \in Carried(Trail(s), c), NEW j \in Carried(Trail(s), c),
             NEW f \in Range(history'[c]),
             Trail(s)[i].of.seq < f.seq, f.seq < Trail(s)[j].of.seq
      PROVE  \E k \in Carried(Trail(s), c) : Trail(s)[k].of = f
  <2>1. CASE f \in Range(history[c])
    BY <1>1, <1>7, <2>1 DEF StreamsHaveNoHole
  <2>2. CASE f \notin Range(history[c])
    <3>1. c = b /\ f = frame[b]
      BY <1>2, <1>4, <2>2
    <3>2. Trail(s)[j].of.seq \in Nat /\ f.seq \in Nat /\ frame[b].seq \in Nat
      BY <1>1, <1>2, <3>1, CarriedFrames, TracerBounds DEF Frames
    <3>3. Trail(s)[j].of.seq < f.seq
      <4>1. HandedTo(s, b)
        BY <1>1 DEF Handed
      <4> QED
        BY <1>2, <3>1, <3>2, <4>1 DEF HandedTo
    <3> QED
      BY <1>7, <3>2, <3>3
  <2> QED
    BY <2>1, <2>2
<1>8. StreamsHaveNoHole'
  BY <1>1, <1>3, <1>7 DEF StreamsHaveNoHole
<1> QED
  BY <1>5, <1>6, <1>8 DEF Handed, Complete

\* What is handed over comes last in the queues that have room, and whose queue
\* has none hears no more.
LEMMA FanOutKept ==
  ASSUME TraceInv, NEW b \in Buses, FanOut(b)
  PROVE  Handed' /\ Complete' /\ StreamsHaveNoHole'
<1>1. TraceTypeOK /\ Numbering /\ Handed /\ Complete /\ StreamsHaveNoHole
  BY DEF TraceInv
<1>2. /\ reader[b] = "fanOut" /\ reader'[b] = "recv"
      /\ \A c \in Buses \ {b} : reader'[c] = reader[c]
      /\ frame' = frame /\ history' = history /\ shown' = shown
      /\ frame[b] \in Frames /\ frame[b].bus = b /\ frame[b].seq \in Nat
      /\ \A f \in Range(history[b]) : f.seq \in Nat /\ f.seq <= frame[b].seq
      /\ subs' \subseteq subs /\ subs \subseteq Streams
  <2>1. frame[b] \in Frames /\ frame[b].bus = b
    BY <1>1 DEF FanOut, TraceTypeOK, Numbering
  <2>2. history[b] \in Seq(Frames)
    BY <1>1 DEF TraceTypeOK
  <2>3. Range(history[b]) \subseteq Frames
    BY <2>2, LenProperties, ElementOfSeq DEF Range
  <2>4. \A f \in Frames : f.seq \in Nat
    BY TracerBounds DEF Frames
  <2>5. \A f \in Range(history[b]) : f.seq <= frame[b].seq
    BY <1>1 DEF Numbering
  <2> QED
    BY <1>1, <2>1, <2>3, <2>4, <2>5 DEF FanOut, TraceTypeOK
<1> DEFINE Fed == {s \in subs : ~Full(s)}
           z(s) == Len(Trail(s)) + 1
\* What becomes of a trail: for one that is fed the new frame comes after all
\* it has carried, and the others stay.
<1>3. ASSUME NEW s \in Streams, s \notin Fed
      PROVE  Trail(s)' = Trail(s) /\ s \notin subs'
  <2>1. queue'[s] = queue[s]
    BY <1>3 DEF FanOut
  <2> QED
    BY <1>2, <1>3, <2>1 DEF Trail, FanOut
<1>4. ASSUME NEW s \in Fed, NEW c \in Buses
      PROVE  /\ Carried(Trail(s)', c) = Carried(Trail(s), c) \cup (IF c = b THEN {z(s)} ELSE {})
             /\ \A i \in Carried(Trail(s), c) : Trail(s)'[i] = Trail(s)[i] /\ i < z(s) /\ i \in Nat
             /\ z(s) \in Nat /\ Trail(s)'[z(s)].of = frame[b]
  <2>1. /\ shown[s] \in Seq(Rows) /\ queue[s] \in Seq(Frames) /\ s \in Streams
        /\ queue'[s] = Append(queue[s], frame[b])
    BY <1>1, <1>2 DEF FanOut, TraceTypeOK
  <2>2. /\ Trail(s) = TrailOf(shown[s], queue[s])
        /\ Trail(s)' = TrailOf(shown[s], Append(queue[s], frame[b]))
    BY <1>2, <2>1 DEF Trail
  <2> DEFINE t == TrailOf(shown[s], queue[s])
             u == TrailOf(shown[s], Append(queue[s], frame[b]))
  <2>3. /\ Carried(u, c) = Carried(t, c) \cup (IF frame[b].bus = c THEN {Len(t) + 1} ELSE {})
        /\ \A i \in Carried(t, c) : u[i] = t[i] /\ i < Len(t) + 1
        /\ Len(t) + 1 \in Nat /\ u[Len(t) + 1].of = frame[b] /\ Carried(t, c) \subseteq Nat
    BY <1>2, <2>1, HandedOver
  <2> HIDE DEF t, u
  <2>4. Trail(s) = t /\ Trail(s)' = u /\ z(s) = Len(t) + 1
    BY <2>2 DEF t, u
  <2> QED
    BY <1>2, <2>3, <2>4
<1> HIDE DEF Fed, z
<1>5. ASSUME NEW s \in Streams, NEW c \in Buses, NEW i \in Carried(Trail(s), c)
      PROVE  Trail(s)[i].of.seq \in Nat /\ (c = b => Trail(s)[i].of.seq < frame[b].seq)
  <2>1. Trail(s)[i].of.seq \in Nat
    BY <1>1, CarriedFrames
  <2>2. HandedTo(s, c)
    BY <1>1 DEF Handed
  <2> QED
    BY <1>2, <2>1, <2>2 DEF HandedTo
<1>6. ASSUME NEW s \in Streams, NEW c \in Buses
      PROVE  HandedTo(s, c)'
  <2>1. HandedTo(s, c)
    BY <1>1 DEF Handed
  <2>2. reader'[c] # "recv" => reader[c] # "recv" /\ c # b
    BY <1>2
  <2>3. CASE s \notin Fed
    BY <1>2, <1>3, <2>1, <2>2, <2>3 DEF HandedTo
  <2>4. CASE s \in Fed
    <3>1. ASSUME NEW i \in Carried(Trail(s), c)
          PROVE  /\ Trail(s)'[i].of.seq <= frame[c].seq
                 /\ reader'[c] # "recv" => Trail(s)'[i].of.seq < frame[c].seq
      BY <1>4, <2>1, <2>2, <2>4 DEF HandedTo
    <3>2. ASSUME NEW i \in Carried(Trail(s)', c), i \notin Carried(Trail(s), c)
          PROVE  c = b /\ Trail(s)'[i].of = frame[b]
      BY <1>4, <2>4, <3>2
    <3>3. frame[b].seq <= frame[b].seq
      BY <1>2
    <3> QED
      BY <1>2, <3>1, <3>2, <3>3 DEF HandedTo
  <2> QED
    BY <2>3, <2>4
\* A fed stream has what came after the first frame it carried: the others by
\* what it had, this one because it has just been handed over.
<1>7. ASSUME NEW s \in Fed, NEW c \in Buses, NEW i \in Carried(Trail(s), c),
             NEW f \in Range(history[c]), Trail(s)[i].of.seq < f.seq,
             ~(reader'[c] = "fanOut" /\ f = frame[c])
      PROVE  \E k \in Carried(Trail(s)', c) : Trail(s)'[k].of = f
  <2>1. CompleteFor(s, c)
    BY <1>1 DEF Complete, Fed
  <2>2. CASE c = b /\ f = frame[b]
    BY <1>4, <2>2
  <2>3. CASE ~(reader[c] = "fanOut" /\ f = frame[c])
    <3>1. PICK k \in Carried(Trail(s), c) : Trail(s)[k].of = f
      BY <1>7, <2>1, <2>3 DEF CompleteFor
    <3> QED
      BY <1>4, <3>1
  <2>4. c = b \/ reader'[c] = reader[c]
    BY <1>2
  <2> QED
    BY <1>7, <2>2, <2>3, <2>4
<1>8. ASSUME NEW s \in Fed, NEW f \in Range(history[b])
      PROVE  ~(Trail(s)'[z(s)].of.seq < f.seq)
  BY <1>2, <1>4
<1>9. ASSUME NEW s \in subs', NEW c \in Buses
      PROVE  CompleteFor(s, c)'
  <2>1. s \in Fed
    BY <1>2, <1>3, <1>9
  <2>2. ASSUME NEW i \in Carried(Trail(s)', c), NEW f \in Range(history[c]),
               Trail(s)'[i].of.seq < f.seq, ~(reader'[c] = "fanOut" /\ f = frame[c])
        PROVE  \E k \in Carried(Trail(s)', c) : Trail(s)'[k].of = f
    <3>1. CASE i \in Carried(Trail(s), c)
      BY <1>4, <1>7, <2>1, <2>2, <3>1
    <3>2. CASE i \notin Carried(Trail(s), c)
      BY <1>4, <1>8, <2>1, <2>2, <3>2
    <3> QED
      BY <3>1, <3>2
  <2> QED
    BY <1>2, <2>2 DEF CompleteFor
<1>10. ASSUME NEW s \in Streams, NEW c \in Buses,
              NEW i \in Carried(Trail(s)', c), NEW j \in Carried(Trail(s)', c)
       PROVE  /\ i < j => Trail(s)'[i].of.seq < Trail(s)'[j].of.seq
              /\ \A f \in Range(history[c]) :
                   Trail(s)'[i].of.seq < f.seq /\ f.seq < Trail(s)'[j].of.seq
                     => \E k \in Carried(Trail(s)', c) : Trail(s)'[k].of = f
  <2>1. CASE s \notin Fed \/ c # b
    <3>1. /\ Carried(Trail(s)', c) = Carried(Trail(s), c)
          /\ \A k \in Carried(Trail(s), c) : Trail(s)'[k] = Trail(s)[k]
      <4>1. CASE s \notin Fed
        BY <1>3, <4>1
      <4>2. CASE s \in Fed
        <5>1. Carried(Trail(s)', c) = Carried(Trail(s), c) \cup {}
          BY <1>4, <2>1, <4>2
        <5> QED
          BY <1>4, <4>2, <5>1
      <4> QED
        BY <4>1, <4>2
    <3> QED
      BY <1>1, <3>1 DEF StreamsHaveNoHole
  <2>2. CASE s \in Fed /\ c = b
    <3>1. ASSUME i < j
          PROVE  Trail(s)'[i].of.seq < Trail(s)'[j].of.seq
      <4>1. CASE i \in Carried(Trail(s), b) /\ j \in Carried(Trail(s), b)
        <5>1. Trail(s)[i].of.seq < Trail(s)[j].of.seq
          BY <1>1, <3>1, <4>1 DEF StreamsHaveNoHole
        <5> QED
          BY <1>4, <2>2, <4>1, <5>1
      <4>2. CASE i \in Carried(Trail(s), b) /\ j = z(s)
        BY <1>4, <1>5, <2>2, <4>2
      <4>3. i \in Nat /\ j \in Nat /\ i # z(s)
        BY <1>4, <2>2, <3>1
      <4> QED
        BY <1>4, <2>2, <4>1, <4>2, <4>3
    <3>2. ASSUME NEW f \in Range(history[b]), Trail(s)'[i].of.seq < f.seq
          PROVE  \E k \in Carried(Trail(s)', b) : Trail(s)'[k].of = f
      <4>1. i \in Carried(Trail(s), b)
        BY <1>4, <1>8, <2>2, <3>2
      <4>2. Trail(s)[i].of.seq < f.seq
        BY <1>4, <2>2, <3>2, <4>1
      <4> QED
        BY <1>2, <1>7, <2>2, <4>1, <4>2
    <3> QED
      BY <2>2, <3>1, <3>2
  <2> QED
    BY <2>1, <2>2
<1>11. StreamsHaveNoHole'
  BY <1>2, <1>10 DEF StreamsHaveNoHole
<1> QED
  BY <1>6, <1>9, <1>11 DEF Handed, Complete

\* Every step of a reader, of a page and of its requests keeps the invariant.
LEMMA TraceKept == TraceInv /\ [TraceNext]_traceVars => TraceInv'
<1> SUFFICES ASSUME TraceInv, [TraceNext]_traceVars PROVE TraceInv'
  OBVIOUS
<1>1. TraceTypeOK /\ Numbering /\ Copying /\ Subscribing /\ Handed /\ Complete /\ StreamsHaveNoHole
  BY DEF TraceInv
<1>2. TraceTypeOK' /\ Numbering' /\ Copying' /\ Subscribing'
  BY <1>1, TraceTypingKept, NumberingKept, CopyingKept, SubscribingKept
<1>3. subs' \subseteq Streams
  BY <1>2 DEF TraceTypeOK
<1>4. ASSUME NEW b \in Buses, Hear(b) \/ Read(b)
      PROVE  Handed' /\ Complete' /\ StreamsHaveNoHole'
  BY <1>4, HearKept, KeepKept, FanOutKept DEF Read
<1>5. ASSUME NEW s \in Streams, Asks(s)
      PROVE  Handed' /\ Complete' /\ StreamsHaveNoHole'
  <2>1. /\ UNCHANGED readers
        /\ \A p \in Streams, b \in Buses : Same(Trail(p), Trail(p)', b)
        /\ \A p \in subs' \ subs, b \in Buses : Carried(Trail(p), b) = {}
    BY <1>1, <1>5, PageSteps
  <2> QED
    BY <1>1, <1>3, <2>1, PageKept
<1>6. ASSUME UNCHANGED traceVars
      PROVE  Handed' /\ Complete' /\ StreamsHaveNoHole'
  <2>1. UNCHANGED readers
    BY <1>6 DEF traceVars, readers
  <2>2. subs' = subs /\ \A p \in Streams : Trail(p)' = Trail(p)
    BY <1>6 DEF traceVars, Trail
  <2>3. \A p \in Streams, b \in Buses : Same(Trail(p), Trail(p)', b)
    BY <2>2, SameAsBefore
  <2>4. \A p \in subs' \ subs, b \in Buses : Carried(Trail(p), b) = {}
    BY <2>2
  <2> QED
    BY <1>1, <1>3, <2>1, <2>3, <2>4, PageKept
<1>7. \/ \E b \in Buses : Hear(b) \/ Read(b)
      \/ \E s \in Streams : Asks(s)
      \/ UNCHANGED traceVars
  BY DEF TraceNext, Asks
<1> QED
  BY <1>2, <1>4, <1>5, <1>6, <1>7 DEF TraceInv

\* can_tracer.py:216-245: a reader numbers, keeps and fans out each frame in
\* that order, so what its subscribers have is its ring buffer since their
\* first frame, but for the frame between the last two.
THEOREM Fanning == TraceSpec => []TraceInv
<1> QED
  BY TraceInitially, TraceKept, PTL DEF TraceSpec

\* The history of a bus and the queue of a subscriber stay within their bounds
\* (can_tracer.py's deque and Queue have a maxlen and a maxsize).
THEOREM TraceTyping == TraceSpec => []TraceTypeOK
<1>1. TraceInv => TraceTypeOK
  BY DEF TraceInv
<1> QED
  BY <1>1, Fanning, PTL

\* can_tracer.py:127, 232-245: live subscribers get every frame.  A subscriber
\* whose queue is full is dropped and not passed over, so its stream ends where
\* the other could have had a hole.
THEOREM NoHoles == TraceSpec => []StreamsHaveNoHole
<1>1. TraceInv => StreamsHaveNoHole
  BY DEF TraceInv
<1> QED
  BY <1>1, Fanning, PTL
=============================================================================

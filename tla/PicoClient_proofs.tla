--------------------------- MODULE PicoClient_proofs ---------------------------
(***************************************************************************)
(* No reply of the console is matched with its call, lines are obeyed late *)
(* and calls time out, and still the Pico ends up where the calls want it: *)
(* lines are obeyed in order, and none is lost without the defaults coming *)
(* back.  For all modules and cells and any number of calls, timeouts and  *)
(* resets of the Pico.                                                     *)
(***************************************************************************)
EXTENDS PicoClient, SequenceTheorems, TLAPS

\* Whether something holds after the lines of s, if those of S establish it and
\* those of C end it.
Latest(now, s, S, C) ==
  \/ now /\ \A i \in DOMAIN s : s[i] \notin C
  \/ \E i \in DOMAIN s : s[i] \in S /\ \A j \in DOMAIN s : i < j => s[j] \notin C

\* The lines that change a quantity, and those that set it to its default.
Sets(q) == {l \in Lines : l.cmd = "set" /\ l.to = Channel(q)}
Clears(q) == {l \in Lines : \/ l.cmd = "reset"
                            \/ l.cmd = "allCells" /\ q.kind = "cell"
                            \/ l.cmd = "allTemps" /\ q.kind = "temp"}

\* The lines that silence a module, and those that say which are silent.
Stops(m) == {l \in Lines : l.cmd = "stop" /\ m \in l.mask}
Turns == {l \in Lines : l.cmd \in {"stop", "resume", "reset"}}

\* What the Pico will have done once it has read what is on its way.
Foreseen ==
  /\ \A q \in Quantities :
       q \in meant.quantities <=> Latest(Channel(q) \in over, pipe, Sets(q), Clears(q))
  /\ \A m \in Modules :
       m \in meant.silent <=> Latest(m \in silent, pipe, Stops(m), Turns)

\* Unless somebody was late, a line is under way exactly while its call waits.
OneAtATime ==
  at # "closed" /\ ~tardy =>
    IF call = None THEN pipe = <<>> /\ replies = <<>>
                   ELSE \/ Len(pipe) = 1 /\ replies = <<>>
                        \/ pipe = <<>> /\ Len(replies) = 1

PicoInv == TypeOK /\ Foreseen /\ OneAtATime

-----------------------------------------------------------------------------
(* Lines in order.                                                         *)

\* The last line has the last word.
LEMMA LastLine ==
  ASSUME NEW T, NEW s \in Seq(T), NEW x \in T, NEW now \in BOOLEAN, NEW S, NEW C
  PROVE  Latest(now, Append(s, x), S, C) <=> x \in S \/ (Latest(now, s, S, C) /\ x \notin C)
<1> DEFINE t == Append(s, x)
           n == Len(s)
<1>1. /\ n \in Nat /\ DOMAIN s = 1..n /\ DOMAIN t = 1..(n + 1)
      /\ t[n + 1] = x /\ \A i \in 1..n : t[i] = s[i]
  OBVIOUS
<1> HIDE DEF t, n
<1>2. /\ \A i \in DOMAIN t : i \in DOMAIN s \/ i = n + 1
      /\ \A i \in DOMAIN s : i \in DOMAIN t /\ i < n + 1 /\ t[i] = s[i]
      /\ n + 1 \in DOMAIN t /\ t[n + 1] = x /\ \A j \in DOMAIN t : ~(n + 1 < j)
  BY <1>1
<1>3. Latest(now, t, S, C) => x \in S \/ (Latest(now, s, S, C) /\ x \notin C)
  <2>1. CASE now /\ \A i \in DOMAIN t : t[i] \notin C
    BY <1>2, <2>1 DEF Latest
  <2>2. ASSUME NEW i \in DOMAIN t, t[i] \in S, \A j \in DOMAIN t : i < j => t[j] \notin C
        PROVE  x \in S \/ (Latest(now, s, S, C) /\ x \notin C)
    BY <1>2, <2>2 DEF Latest
  <2> QED
    BY <2>1, <2>2 DEF Latest
<1>4. x \in S => Latest(now, t, S, C)
  BY <1>2 DEF Latest
<1>5. Latest(now, s, S, C) /\ x \notin C => Latest(now, t, S, C)
  BY <1>2 DEF Latest
<1> QED
  BY <1>3, <1>4, <1>5 DEF t

\* Obeying the first line changes what holds now, and nothing else.
LEMMA FirstLine ==
  ASSUME NEW T, NEW s \in Seq(T), s # <<>>, NEW now \in BOOLEAN, NEW S, NEW C
  PROVE  Latest(now, s, S, C)
           <=> Latest(Head(s) \in S \/ (now /\ Head(s) \notin C), Tail(s), S, C)
<1> DEFINE t == Tail(s)
           h == Head(s)
           n == Len(t)
<1>1. /\ n \in Nat /\ DOMAIN t = 1..n /\ DOMAIN s = 1..(n + 1)
      /\ h = s[1] /\ \A i \in 1..n : t[i] = s[i + 1]
  OBVIOUS
<1> HIDE DEF t, h, n
<1>2. /\ \A i \in DOMAIN t : i + 1 \in DOMAIN s /\ t[i] = s[i + 1] /\ 1 < i + 1
      /\ \A i \in DOMAIN s : i # 1 => i - 1 \in DOMAIN t /\ t[i - 1] = s[i]
      /\ 1 \in DOMAIN s /\ s[1] = h
      /\ \A i, j \in DOMAIN t : i < j <=> i + 1 < j + 1
      /\ \A i, j \in DOMAIN s : i < j /\ i # 1 => j # 1 /\ i - 1 < j - 1
      /\ \A i \in DOMAIN s : i = 1 \/ 1 < i
  BY <1>1
<1>3. Latest(now, s, S, C) => Latest(h \in S \/ (now /\ h \notin C), t, S, C)
  <2>1. CASE now /\ \A i \in DOMAIN s : s[i] \notin C
    BY <1>2, <2>1 DEF Latest
  <2>2. ASSUME NEW i \in DOMAIN s, s[i] \in S, \A j \in DOMAIN s : i < j => s[j] \notin C
        PROVE  Latest(h \in S \/ (now /\ h \notin C), t, S, C)
    <3>1. CASE i = 1
      BY <1>2, <2>2, <3>1 DEF Latest
    <3>2. CASE i # 1
      <4>1. i - 1 \in DOMAIN t /\ t[i - 1] \in S
        BY <1>2, <2>2, <3>2
      <4>2. \A j \in DOMAIN t : i - 1 < j => t[j] \notin C
        BY <1>1, <1>2, <2>2, <3>2
      <4> QED
        BY <4>1, <4>2 DEF Latest
    <3> QED
      BY <3>1, <3>2
  <2> QED
    BY <2>1, <2>2 DEF Latest
<1>4. Latest(h \in S \/ (now /\ h \notin C), t, S, C) => Latest(now, s, S, C)
  <2>1. ASSUME \A i \in DOMAIN t : t[i] \notin C
        PROVE  \A i \in DOMAIN s : 1 < i => s[i] \notin C
    BY <1>1, <1>2, <2>1
  <2>2. CASE (h \in S \/ (now /\ h \notin C)) /\ \A i \in DOMAIN t : t[i] \notin C
    BY <1>2, <2>1, <2>2 DEF Latest
  <2>3. ASSUME NEW i \in DOMAIN t, t[i] \in S, \A j \in DOMAIN t : i < j => t[j] \notin C
        PROVE  Latest(now, s, S, C)
    <3>1. i + 1 \in DOMAIN s /\ s[i + 1] \in S
      BY <1>2, <2>3
    <3>2. \A j \in DOMAIN s : i + 1 < j => s[j] \notin C
      BY <1>1, <1>2, <2>3
    <3> QED
      BY <3>1, <3>2 DEF Latest
  <2> QED
    BY <2>2, <2>3 DEF Latest
<1> QED
  BY <1>3, <1>4 DEF t, h

-----------------------------------------------------------------------------
(* Addresses.                                                              *)

\* A quantity has its fields.
LEMMA QuantityShape ==
  ASSUME NEW q \in Quantities
  PROVE  /\ q.kind \in {"cell", "temp"} /\ q.module \in Modules /\ q.module \in Nat
         /\ q.index \in 0..19 /\ (q.kind = "cell" => q.index \in 0..18)
         /\ q = [kind |-> q.kind, module |-> q.module, index |-> q.index]
BY PicoConstants DEF Quantities

\* The nineteen cells and twenty sensors of a module are where the AMS looks
\* for them: nine cells on the first chip and ten on the second, ten sensors
\* on either mux.
LEMMA Addressed ==
  ASSUME NEW q \in Quantities
  PROVE  Wiring(q.kind, q.module)[q.index + 1] = Channel(q)
<1> DEFINE m == q.module
           i == q.index + 1
<1>1. m \in Nat /\ q.index \in 0..19 /\ i \in 1..20 /\ q.index = i - 1
      /\ (q.kind = "cell" => i \in 1..19) /\ q.kind \in {"cell", "temp"}
  BY QuantityShape
<1> HIDE DEF m, i
<1>2. CASE q.kind = "cell"
  <2> DEFINE a == [k \in 1..9 |-> <<"cell", 2 * m, k - 1>>]
             b == [k \in 1..10 |-> <<"cell", 2 * m + 1, k - 1>>]
             T == {<<"cell", c, k>> : c \in Nat, k \in Nat}
  <2>1. a \in Seq(T) /\ b \in Seq(T) /\ Len(a) = 9 /\ Len(b) = 10
    BY <1>1
  <2>2. (a \o b)[i] = IF i < 10 THEN a[i] ELSE b[i - 9]
    <3>1. i \in 1..(Len(a) + Len(b)) /\ Len(a) = 9
      BY <1>1, <1>2, <2>1
    <3> HIDE DEF a, b, T
    <3>2. (a \o b)[i] = IF i <= Len(a) THEN a[i] ELSE b[i - Len(a)]
      BY <2>1, <3>1, ConcatProperties
    <3> QED
      BY <1>1, <3>1, <3>2
  <2>3. i < 10 => a[i] = <<"cell", 2 * m, q.index>>
    BY <1>1
  <2>4. ~(i < 10) => b[i - 9] = <<"cell", 2 * m + 1, q.index - 9>>
    BY <1>1, <1>2
  <2>5. i < 10 <=> q.index < 9
    BY <1>1
  <2>6. Wiring(q.kind, q.module) = a \o b
    BY <1>2 DEF Wiring, m
  <2> HIDE DEF a, b
  <2> QED
    BY <1>2, <2>2, <2>3, <2>4, <2>5, <2>6 DEF Channel, m, i
<1>3. CASE q.kind = "temp"
  <2> DEFINE a == [k \in 1..10 |-> <<"temp", 2 * m, k - 1>>]
             b == [k \in 1..10 |-> <<"temp", 2 * m, k + 15>>]
             T == {<<"temp", c, k>> : c \in Nat, k \in Nat}
  <2>1. a \in Seq(T) /\ b \in Seq(T) /\ Len(a) = 10 /\ Len(b) = 10
    BY <1>1
  <2>2. (a \o b)[i] = IF i < 11 THEN a[i] ELSE b[i - 10]
    <3>1. i \in 1..(Len(a) + Len(b)) /\ Len(a) = 10
      BY <1>1, <2>1
    <3> HIDE DEF a, b, T
    <3>2. (a \o b)[i] = IF i <= Len(a) THEN a[i] ELSE b[i - Len(a)]
      BY <2>1, <3>1, ConcatProperties
    <3> QED
      BY <1>1, <3>1, <3>2
  <2>3. i < 11 => a[i] = <<"temp", 2 * m, q.index>>
    BY <1>1
  <2>4. ~(i < 11) => b[i - 10] = <<"temp", 2 * m, q.index + 6>>
    <3>1. ~(i < 11) => i - 10 \in 1..10 /\ (i - 10) + 15 = q.index + 6
      BY <1>1
    <3> QED
      BY <3>1
  <2>5. i < 11 <=> q.index < 10
    BY <1>1
  <2>6. Wiring(q.kind, q.module) = a \o b
    BY <1>3 DEF Wiring, m
  <2> HIDE DEF a, b
  <2> QED
    BY <1>3, <2>2, <2>3, <2>4, <2>5, <2>6 DEF Channel, m, i
<1> QED
  BY <1>1, <1>2, <1>3

\* No two quantities share a channel, and a channel tells its kind.
LEMMA OneChannelEach ==
  ASSUME NEW p \in Quantities, NEW q \in Quantities
  PROVE  /\ Channel(p) = Channel(q) => p = q
         /\ Channel(q)[1] = q.kind
<1>1. Channel(q)[1] = q.kind
  BY QuantityShape DEF Channel
<1>2. ASSUME Channel(p) = Channel(q) PROVE p = q
  <2>1. p.kind = q.kind
    BY <1>2, QuantityShape DEF Channel
  <2>2. p.module = q.module /\ p.index = q.index
    <3> DEFINE P == p.module
               Q == q.module
               I == p.index
               J == q.index
    <3>1. /\ P \in Nat /\ Q \in Nat /\ I \in 0..19 /\ J \in 0..19
      BY QuantityShape
    <3> HIDE DEF P, Q, I, J
    <3>2. CASE q.kind = "temp"
      <4>1. 2 * P = 2 * Q /\ (IF I < 10 THEN I ELSE I + 6) = (IF J < 10 THEN J ELSE J + 6)
        BY <1>2, <2>1, <3>2 DEF Channel, P, Q, I, J
      <4> QED
        BY <3>1, <4>1 DEF P, Q, I, J
    <3>3. CASE q.kind = "cell"
      <4>1. /\ (IF I < 9 THEN 2 * P ELSE 2 * P + 1) = (IF J < 9 THEN 2 * Q ELSE 2 * Q + 1)
            /\ (IF I < 9 THEN I ELSE I - 9) = (IF J < 9 THEN J ELSE J - 9)
        BY <1>2, <2>1, <3>3 DEF Channel, P, Q, I, J
      <4>2. P = Q /\ I = J
        BY <3>1, <4>1
      <4> QED
        BY <4>2 DEF P, Q, I, J
    <3> QED
      BY <3>2, <3>3, QuantityShape
  <2> QED
    BY <2>1, <2>2, QuantityShape
<1> QED
  BY <1>1, <1>2

-----------------------------------------------------------------------------
\* The same of members of sets.
LEMMA LastLineIn ==
  ASSUME NEW T, NEW s \in Seq(T), NEW l \in T, NEW x, NEW A, NEW S, NEW C
  PROVE  Latest(x \in A, Append(s, l), S, C)
           <=> l \in S \/ (Latest(x \in A, s, S, C) /\ l \notin C)
<1>1. \A now \in BOOLEAN :
        Latest(now, Append(s, l), S, C) <=> l \in S \/ (Latest(now, s, S, C) /\ l \notin C)
  BY LastLine
<1>2. CASE x \in A
  BY <1>1, <1>2 DEF Latest
<1>3. CASE x \notin A
  BY <1>1, <1>3 DEF Latest
<1> QED
  BY <1>2, <1>3

LEMMA FirstLineIn ==
  ASSUME NEW T, NEW s \in Seq(T), s # <<>>, NEW x, NEW A, NEW S, NEW C
  PROVE  Latest(x \in A, s, S, C)
           <=> Latest(Head(s) \in S \/ (x \in A /\ Head(s) \notin C), Tail(s), S, C)
<1>1. (x \in A) \in BOOLEAN
  OBVIOUS
<1> QED
  BY <1>1, FirstLine

\* Without a line on its way, what holds is what is so now,
LEMMA NowOnly == \A x, A, S, C : Latest(x \in A, <<>>, S, C) <=> x \in A
<1>1. DOMAIN <<>> = {}
  OBVIOUS
<1> QED
  BY <1>1 DEF Latest

\* and the defaults are what nobody has asked to change.
LEMMA DefaultsForeseen ==
  ASSUME over = {}, silent = {}, pipe = <<>>, meant = Nothing
  PROVE  Foreseen
BY NowOnly DEF Foreseen, Nothing

LEMMA PicoInit == Init => PicoInv
<1> SUFFICES ASSUME Init PROVE PicoInv
  OBVIOUS
<1>1. TypeOK
  <2>1. <<>> \in Seq(Lines) /\ <<>> \in Seq(Plain)
    OBVIOUS
  <2>2. None \in Lines \cup {None} /\ Nothing \in [quantities : SUBSET Quantities, silent : SUBSET Modules]
    BY DEF Nothing
  <2>3. MaxCalls \in 0..MaxCalls /\ MaxLate \in 0..MaxLate /\ MaxPlugs \in 0..MaxPlugs
    BY PicoConstants
  <2> QED
    BY <2>1, <2>2, <2>3 DEF Init, TypeOK
<1>2. Foreseen
  BY DefaultsForeseen DEF Init
<1>3. OneAtATime
  BY DEF Init, OneAtATime
<1> QED
  BY <1>1, <1>2, <1>3 DEF PicoInv

\* Requests and lines have their fields, and a request becomes a line.
LEMMA RequestShape ==
  ASSUME NEW r \in Requests
  PROVE  /\ r.cmd \in {"ping", "status", "bad", "allCells", "allTemps", "resume", "reset",
                        "inject", "set", "stop"}
         /\ r.cmd = "inject" => r.of \in Quantities
         /\ r.cmd = "set" => r.to \in Raw
         /\ r.cmd = "stop" => r.mask \subseteq Modules
         /\ r.cmd = "inject" => Line(r) = [cmd |-> "set", to |-> Channel(r.of)]
         /\ r.cmd # "inject" => Line(r) = r
         /\ Line(r) \in Lines
<1>1. /\ r.cmd \in {"ping", "status", "bad", "allCells", "allTemps", "resume", "reset",
                    "inject", "set", "stop"}
      /\ r.cmd = "inject" => r.of \in Quantities
      /\ r.cmd = "set" => r.to \in Raw
      /\ r.cmd = "stop" => r.mask \subseteq Modules
  BY DEF Requests, Plain, Stopping
<1>2. r.cmd = "inject" => Line(r) = [cmd |-> "set", to |-> Channel(r.of)]
  BY DEF Line
<1>3. r.cmd # "inject" => Line(r) = r
  BY DEF Line
<1>4. CASE r.cmd = "inject"
  BY <1>1, <1>2, <1>4 DEF Lines, Addresses
<1>5. CASE r.cmd # "inject"
  BY <1>3, <1>5 DEF Requests, Lines, Plain, Stopping, Addresses
<1> QED
  BY <1>1, <1>2, <1>3, <1>4, <1>5

LEMMA LineShape ==
  ASSUME NEW l \in Lines
  PROVE  /\ l.cmd \in {"ping", "status", "bad", "allCells", "allTemps", "resume", "reset",
                        "set", "stop"}
         /\ l.cmd = "set" => l.to \in Addresses
         /\ l.cmd = "stop" => l.mask \subseteq Modules
BY DEF Lines, Plain, Stopping

\* What a caller means by a request is what its line will do to the cells and
\* sensors, be they named by module or by their place in the chain.
LEMMA MeantQuantities ==
  ASSUME NEW r \in Requests, NEW q \in Quantities,
         meant \in [quantities : SUBSET Quantities, silent : SUBSET Modules]
  PROVE  q \in Meant(r).quantities
           <=> Line(r) \in Sets(q) \/ (q \in meant.quantities /\ Line(r) \notin Clears(q))
<1> DEFINE line == Line(r)
<1>1. /\ line \in Sets(q) <=> line.cmd = "set" /\ line.to = Channel(q)
      /\ line \in Clears(q) <=> \/ line.cmd = "reset"
                                \/ line.cmd = "allCells" /\ q.kind = "cell"
                                \/ line.cmd = "allTemps" /\ q.kind = "temp"
  BY RequestShape DEF Sets, Clears
<1>2. q.kind \in {"cell", "temp"}
  BY QuantityShape
<1> HIDE DEF line
<1>3. CASE r.cmd = "inject"
  <2>1. line.cmd = "set" /\ line.to = Channel(r.of) /\ r.of \in Quantities
    BY <1>3, RequestShape DEF line
  <2>2. line.to = Channel(q) <=> r.of = q
    BY <2>1, OneChannelEach
  <2>3. Meant(r).quantities = meant.quantities \cup {r.of}
    BY <1>3 DEF Meant
  <2> QED
    BY <1>1, <2>1, <2>2, <2>3 DEF line
<1>4. CASE r.cmd = "set"
  <2>1. line = r
    BY <1>4, RequestShape DEF line
  <2>2. q \in Wired(r.to) <=> r.to = Channel(q)
    BY Addressed DEF Wired
  <2>3. Meant(r).quantities = meant.quantities \cup Wired(r.to)
    BY <1>4 DEF Meant
  <2> QED
    BY <1>1, <1>4, <2>1, <2>2, <2>3 DEF line
<1>5. CASE r.cmd \notin {"inject", "set"}
  <2>1. line = r
    BY <1>5, RequestShape DEF line
  <2>2. r.cmd \in {"ping", "status", "bad", "allCells", "allTemps", "resume", "reset", "stop"}
    BY <1>5, RequestShape
  <2>3. r.cmd \in {"ping", "status", "bad", "stop", "resume"} => Meant(r).quantities = meant.quantities
    BY DEF Meant
  <2>4. r.cmd = "reset" => Meant(r).quantities = {}
    BY DEF Meant, Nothing
  <2>5. r.cmd = "allCells" => Meant(r).quantities = {p \in meant.quantities : p.kind = "temp"}
    BY DEF Meant
  <2>6. r.cmd = "allTemps" => Meant(r).quantities = {p \in meant.quantities : p.kind = "cell"}
    BY DEF Meant
  <2> QED
    BY <1>1, <1>2, <2>1, <2>2, <2>3, <2>4, <2>5, <2>6 DEF line
<1> QED
  BY <1>3, <1>4, <1>5

\* and what its line will do to the modules.
LEMMA MeantIsForeseen ==
  ASSUME PicoInv, NEW r \in Requests, Sends(r), UNCHANGED <<over, silent>>
  PROVE  /\ Foreseen' /\ pipe' \in Seq(Lines)
         /\ meant' \in [quantities : SUBSET Quantities, silent : SUBSET Modules]
<1> DEFINE line == Line(r)
<1>1. /\ pipe \in Seq(Lines) /\ pipe' = Append(pipe, line) /\ meant' = Meant(r)
      /\ meant \in [quantities : SUBSET Quantities, silent : SUBSET Modules]
      /\ line \in Lines
  BY RequestShape DEF PicoInv, TypeOK, Sends
<1> HIDE DEF line
<1>3. meant' \in [quantities : SUBSET Quantities, silent : SUBSET Modules]
  BY <1>1, RequestShape DEF Meant, Nothing, Wired
<1>4. ASSUME NEW q \in Quantities
      PROVE  q \in meant'.quantities <=> Latest(Channel(q) \in over', pipe', Sets(q), Clears(q))
  <2>1. Latest(Channel(q) \in over, pipe', Sets(q), Clears(q))
          <=> \/ line \in Sets(q)
              \/ Latest(Channel(q) \in over, pipe, Sets(q), Clears(q)) /\ line \notin Clears(q)
    BY <1>1, LastLineIn
  <2>2. q \in meant.quantities <=> Latest(Channel(q) \in over, pipe, Sets(q), Clears(q))
    BY DEF PicoInv, Foreseen
  <2>3. q \in meant'.quantities <=> line \in Sets(q) \/ (q \in meant.quantities /\ line \notin Clears(q))
    BY <1>1, MeantQuantities DEF line
  <2> QED
    BY <2>1, <2>2, <2>3
<1>5. ASSUME NEW m \in Modules
      PROVE  m \in meant'.silent <=> Latest(m \in silent', pipe', Stops(m), Turns)
  <2>1. Latest(m \in silent, pipe', Stops(m), Turns)
          <=> \/ line \in Stops(m)
              \/ Latest(m \in silent, pipe, Stops(m), Turns) /\ line \notin Turns
    BY <1>1, LastLineIn
  <2>2. m \in meant.silent <=> Latest(m \in silent, pipe, Stops(m), Turns)
    BY DEF PicoInv, Foreseen
  <2>3. m \in meant'.silent <=> line \in Stops(m) \/ (m \in meant.silent /\ line \notin Turns)
    <3>1. /\ line \in Stops(m) <=> line.cmd = "stop" /\ m \in line.mask
          /\ line \in Turns <=> line.cmd \in {"stop", "resume", "reset"}
      BY <1>1 DEF Stops, Turns
    <3>2. CASE r.cmd = "inject"
      <4>1. line.cmd = "set" /\ meant'.silent = meant.silent
        BY <1>1, <3>2, RequestShape DEF Meant, line
      <4> QED
        BY <3>1, <4>1
    <3>3. CASE r.cmd # "inject"
      <4>1. line = r
        BY <3>3, RequestShape DEF line
      <4> QED
        BY <1>1, <3>1, <3>3, <4>1, RequestShape DEF Meant, Nothing
    <3> QED
      BY <3>2, <3>3
  <2> QED
    BY <2>1, <2>2, <2>3
<1> QED
  BY <1>1, <1>3, <1>4, <1>5 DEF Foreseen

\* What the Pico does with a line is what was foreseen.
LEMMA ObeyedIsForeseen ==
  ASSUME PicoInv, Dispatch
  PROVE  /\ Foreseen' /\ pipe' \in Seq(Lines)
         /\ over' \subseteq Addresses /\ silent' \subseteq Modules
<1> DEFINE line == Head(pipe)
<1>1. /\ pipe \in Seq(Lines) /\ pipe # <<>> /\ pipe' = Tail(pipe) /\ meant' = meant
      /\ over \subseteq Addresses /\ silent \subseteq Modules
  BY DEF PicoInv, TypeOK, Dispatch
<1>2. line \in Lines /\ pipe' \in Seq(Lines)
  BY <1>1
<1>3. Applied(line)
  BY DEF Dispatch
<1> HIDE DEF line
<1>4. /\ line.cmd \in {"ping", "status", "bad", "allCells", "allTemps", "resume", "reset", "set", "stop"}
      /\ line.cmd = "set" => line.to \in Addresses
      /\ line.cmd = "stop" => line.mask \subseteq Modules
  BY <1>2, LineShape
<1>5. over' \subseteq Addresses /\ silent' \subseteq Modules
  BY <1>1, <1>3, <1>4 DEF Applied, Cells
<1>6. ASSUME NEW q \in Quantities
      PROVE  q \in meant'.quantities <=> Latest(Channel(q) \in over', pipe', Sets(q), Clears(q))
  <2>1. Latest(Channel(q) \in over, pipe, Sets(q), Clears(q))
          <=> Latest(line \in Sets(q) \/ (Channel(q) \in over /\ line \notin Clears(q)),
                     pipe', Sets(q), Clears(q))
    BY <1>1, FirstLineIn DEF line
  <2>2. Channel(q) \in over' <=> line \in Sets(q) \/ (Channel(q) \in over /\ line \notin Clears(q))
    <3>1. /\ line \in Sets(q) <=> line.cmd = "set" /\ line.to = Channel(q)
          /\ line \in Clears(q) <=> \/ line.cmd = "reset"
                                    \/ line.cmd = "allCells" /\ q.kind = "cell"
                                    \/ line.cmd = "allTemps" /\ q.kind = "temp"
      BY <1>2 DEF Sets, Clears
    <3>2. Channel(q)[1] = q.kind /\ q.kind \in {"cell", "temp"}
      BY OneChannelEach, QuantityShape
    <3>3. CASE line.cmd = "set"
      <4>1. over' = over \cup {line.to}
        BY <1>3, <3>3 DEF Applied
      <4> QED
        BY <3>1, <3>3, <4>1
    <3>4. CASE line.cmd = "allCells"
      BY <1>3, <3>1, <3>2, <3>4 DEF Applied, Cells
    <3>5. CASE line.cmd = "allTemps"
      BY <1>3, <3>1, <3>2, <3>5 DEF Applied, Cells
    <3>6. CASE line.cmd = "reset"
      BY <1>3, <3>1, <3>6 DEF Applied
    <3>7. CASE line.cmd \in {"ping", "status", "bad", "resume", "stop"}
      <4>1. over' = over
        BY <1>3, <3>7 DEF Applied
      <4> QED
        BY <3>1, <3>7, <4>1
    <3> QED
      BY <1>4, <3>3, <3>4, <3>5, <3>6, <3>7
  <2> QED
    BY <1>1, <2>1, <2>2 DEF PicoInv, Foreseen
<1>7. ASSUME NEW m \in Modules
      PROVE  m \in meant'.silent <=> Latest(m \in silent', pipe', Stops(m), Turns)
  <2>1. Latest(m \in silent, pipe, Stops(m), Turns)
          <=> Latest(line \in Stops(m) \/ (m \in silent /\ line \notin Turns),
                     pipe', Stops(m), Turns)
    BY <1>1, FirstLineIn DEF line
  <2>2. m \in silent' <=> line \in Stops(m) \/ (m \in silent /\ line \notin Turns)
    BY <1>2, <1>3, <1>4 DEF Applied, Stops, Turns
  <2> QED
    BY <1>1, <2>1, <2>2 DEF PicoInv, Foreseen
<1> QED
  BY <1>2, <1>5, <1>6, <1>7 DEF Foreseen

\* Calls and cleanups are requests.
LEMMA WhatIsSaid ==
  /\ Calls \subseteq Requests /\ Plain \subseteq Requests /\ None \notin Lines
  /\ Fixture \in Seq(Plain) /\ Temporarily \in Seq(Plain)
<1>1. Calls \subseteq Requests /\ Plain \subseteq Requests
  BY DEF Calls, Requests, Plain, Stopping
<1>2. None \notin Lines
  BY DEF None, Lines, Plain, Stopping
<1>3. /\ [cmd |-> "resume"] \in Plain /\ [cmd |-> "reset"] \in Plain
      /\ [cmd |-> "allCells"] \in Plain /\ [cmd |-> "allTemps"] \in Plain
  BY DEF Plain
<1> QED
  BY <1>1, <1>2, <1>3 DEF Fixture, Temporarily

\* A line that waits alone leaves nothing behind when it is read.
LEMMA OneLine ==
  ASSUME NEW T, NEW s \in Seq(T), s # <<>>
  PROVE  /\ Tail(s) \in Seq(T) /\ Head(s) \in T
         /\ Len(s) = 1 => Tail(s) = <<>>
         /\ Len(s) # 0
<1>1. Tail(s) \in Seq(T) /\ Head(s) \in T /\ Len(Tail(s)) = Len(s) - 1 /\ Len(s) # 0
  BY EmptySeq
<1> QED
  BY <1>1, EmptySeq

\* Every step keeps the invariant.
LEMMA PicoKept ==
  ASSUME PicoInv, [Next]_vars
  PROVE  PicoInv'
<1>1. TypeOK /\ Foreseen /\ OneAtATime
  BY DEF PicoInv
<1>2. CASE Open
  <2>1. Foreseen'
    BY <1>1, <1>2 DEF Open, Foreseen
  <2>2. TypeOK'
    BY <1>1, <1>2 DEF Open, TypeOK
  <2>3. OneAtATime'
    BY <1>1, <1>2 DEF Open, OneAtATime, TypeOK
  <2> QED
    BY <2>1, <2>2, <2>3 DEF PicoInv
<1>3. ASSUME NEW r \in Calls, Call(r)
      PROVE  PicoInv'
  <2> DEFINE line == Line(r)
  <2>0. r \in Requests
    BY WhatIsSaid
  <2>1. line \in Lines /\ line # None
    BY <2>0, WhatIsSaid, RequestShape
  <2>2. Foreseen' /\ pipe' \in Seq(Lines)
          /\ meant' \in [quantities : SUBSET Quantities, silent : SUBSET Modules]
    BY <1>3, <2>0, MeantIsForeseen DEF Call
  <2>3. calls' \in 0..MaxCalls
    BY <1>1, <1>3, PicoConstants DEF Call, TypeOK
  <2>4. TypeOK'
    BY <1>1, <1>3, <2>1, <2>2, <2>3 DEF Call, Sends, TypeOK
  <2>5. ~tardy => Len(pipe') = 1 /\ replies = <<>>
    <3>1. ~tardy => pipe = <<>> /\ replies = <<>>
      BY <1>1, <1>3 DEF Call, Sends, OneAtATime
    <3>2. pipe = <<>> => Len(Append(pipe, line)) = 1
      OBVIOUS
    <3> QED
      BY <1>3, <3>1, <3>2 DEF Call, Sends
  <2>6. OneAtATime'
    BY <1>3, <2>1, <2>5 DEF Call, Sends, OneAtATime
  <2> QED
    BY <2>2, <2>4, <2>6 DEF PicoInv
<1>4. ASSUME Raises \/ Returns
      PROVE  PicoInv'
  <2>1. /\ replies # <<>> /\ replies' = Tail(replies) /\ call # None /\ call' = None
        /\ UNCHANGED <<pipe, over, silent, meant, tardy, calls, late, plugs>>
    BY <1>4 DEF Raises, Returns
  <2>2. replies \in Seq(Lines) /\ pipe \in Seq(Lines)
    BY <1>1 DEF TypeOK
  <2>3. Tail(replies) \in Seq(Lines) /\ (Len(replies) = 1 => Tail(replies) = <<>>) /\ Len(replies) # 0
    BY <2>1, <2>2, OneLine
  <2>4. at # "closed" /\ at' # "closed"
    BY <1>1, <1>4, <2>1 DEF Raises, Returns, Leaves, TypeOK
  <2>5. (at' = at /\ due' = due) \/ (at' = "cleanup" /\ due' \in {Fixture, Temporarily})
    BY <1>4 DEF Raises, Returns, Leaves
  <2>6. Foreseen'
    BY <1>1, <2>1 DEF Foreseen
  <2>7. TypeOK'
    BY <1>1, <2>1, <2>3, <2>5, WhatIsSaid DEF TypeOK
  <2>8. OneAtATime'
    <3>1. ~tardy => pipe = <<>> /\ Len(replies) = 1
      BY <1>1, <2>1, <2>3, <2>4 DEF OneAtATime
    <3> QED
      BY <2>1, <2>3, <3>1 DEF OneAtATime
  <2> QED
    BY <2>6, <2>7, <2>8 DEF PicoInv
<1>5. CASE TimesOut
  <2>1. (at' = at /\ due' = due) \/ (at' = "cleanup" /\ due' \in {Fixture, Temporarily})
    BY <1>5 DEF TimesOut, Leaves
  <2>2. late' \in 0..MaxLate
    BY <1>1, <1>5, PicoConstants DEF TimesOut, TypeOK
  <2>3. TypeOK'
    BY <1>1, <1>5, <2>1, <2>2, WhatIsSaid DEF TypeOK, TimesOut
  <2>4. Foreseen' /\ OneAtATime'
    BY <1>1, <1>5 DEF TimesOut, Foreseen, OneAtATime
  <2> QED
    BY <2>3, <2>4 DEF PicoInv
<1>6. CASE BodyEnds
  <2>1. TypeOK'
    BY <1>1, <1>6, WhatIsSaid DEF BodyEnds, Leaves, TypeOK
  <2>2. Foreseen' /\ OneAtATime'
    BY <1>1, <1>6 DEF BodyEnds, Leaves, Foreseen, OneAtATime
  <2> QED
    BY <2>1, <2>2 DEF PicoInv
<1>7. CASE Cleanup
  <2> DEFINE r == Head(due)
             line == Line(r)
  <2>0. r \in Requests /\ Tail(due) \in Seq(Plain)
    BY <1>1, <1>7, OneLine, WhatIsSaid DEF Cleanup, TypeOK
  <2>1. line \in Lines /\ line # None
    BY <2>0, WhatIsSaid, RequestShape
  <2>2. Sends(r) /\ UNCHANGED <<at, replies, over, silent, tardy, calls, late, plugs>>
          /\ due' = Tail(due) /\ at = "cleanup"
    BY <1>7 DEF Cleanup
  <2> HIDE DEF r
  <2>3. Foreseen' /\ pipe' \in Seq(Lines)
          /\ meant' \in [quantities : SUBSET Quantities, silent : SUBSET Modules]
    BY <2>0, <2>2, MeantIsForeseen
  <2>4. TypeOK'
    BY <1>1, <2>0, <2>1, <2>2, <2>3 DEF Sends, TypeOK
  <2>5. ~tardy => Len(pipe') = 1 /\ replies = <<>>
    <3>1. ~tardy => pipe = <<>> /\ replies = <<>>
      BY <1>1, <2>2 DEF Sends, OneAtATime
    <3>2. pipe = <<>> => Len(Append(pipe, line)) = 1
      OBVIOUS
    <3> QED
      BY <2>2, <3>1, <3>2 DEF Sends
  <2>6. OneAtATime'
    BY <2>1, <2>2, <2>5 DEF Sends, OneAtATime
  <2> QED
    BY <2>3, <2>4, <2>6 DEF PicoInv
<1>8. CASE Close
  <2>1. TypeOK'
    BY <1>1, <1>8 DEF Close, TypeOK
  <2>2. Foreseen' /\ OneAtATime'
    BY <1>1, <1>8 DEF Close, Foreseen, OneAtATime
  <2> QED
    BY <2>1, <2>2 DEF PicoInv
<1>9. CASE Dispatch
  <2>1. /\ Foreseen' /\ pipe' \in Seq(Lines)
        /\ over' \subseteq Addresses /\ silent' \subseteq Modules
    BY <1>9, ObeyedIsForeseen
  <2>2. /\ pipe # <<>> /\ pipe' = Tail(pipe) /\ replies' = Append(replies, Head(pipe))
        /\ UNCHANGED <<at, due, call, meant, tardy, calls, late, plugs>>
    BY <1>9 DEF Dispatch
  <2>3. pipe \in Seq(Lines) /\ replies \in Seq(Lines)
    BY <1>1 DEF TypeOK
  <2>4. Head(pipe) \in Lines /\ Len(pipe) # 0 /\ (Len(pipe) = 1 => Tail(pipe) = <<>>)
    BY <2>2, <2>3, OneLine
  <2>5. replies' \in Seq(Lines) /\ (replies = <<>> => Len(replies') = 1)
    BY <2>2, <2>3, <2>4
  <2>6. TypeOK'
    BY <1>1, <2>1, <2>2, <2>5 DEF TypeOK
  <2>7. OneAtATime'
    BY <1>1, <2>2, <2>4, <2>5 DEF OneAtATime
  <2> QED
    BY <2>1, <2>6, <2>7 DEF PicoInv
<1>10. CASE PicoResets
  <2>1. plugs' \in 0..MaxPlugs
    BY <1>1, <1>10, PicoConstants DEF PicoResets, TypeOK
  <2>2. TypeOK'
    BY <1>1, <1>10, <2>1 DEF PicoResets, TypeOK, Nothing
  <2>3. Foreseen'
    <3>1. over' = {} /\ silent' = {} /\ pipe' = <<>> /\ meant' = Nothing
      BY <1>10 DEF PicoResets
    <3>2. DOMAIN pipe' = {}
      BY <3>1
    <3>3. ASSUME NEW q \in Quantities
          PROVE  q \in meant'.quantities
                   <=> Latest(Channel(q) \in over', pipe', Sets(q), Clears(q))
      BY <3>1, <3>2 DEF Latest, Nothing
    <3>4. ASSUME NEW m \in Modules
          PROVE  m \in meant'.silent <=> Latest(m \in silent', pipe', Stops(m), Turns)
      BY <3>1, <3>2 DEF Latest, Nothing
    <3> QED
      BY <3>3, <3>4 DEF Foreseen
  <2>4. OneAtATime'
    BY <1>10 DEF PicoResets, OneAtATime
  <2> QED
    BY <2>2, <2>3, <2>4 DEF PicoInv
<1>11. CASE UNCHANGED vars
  BY <1>1, <1>11 DEF vars, PicoInv, TypeOK, Foreseen, OneAtATime
<1> QED
  BY <1>2, <1>3, <1>4, <1>5, <1>6, <1>7, <1>8, <1>9, <1>10, <1>11 DEF Next, Session

-----------------------------------------------------------------------------
\* Whatever was late, what is on its way adds up to what was asked.
THEOREM Obeying == Spec => []PicoInv
BY PicoInit, PicoKept, PTL DEF Spec

\* The variables keep their types.
THEOREM Typing == Spec => []TypeOK
BY Obeying, PTL DEF PicoInv

\* When the Pico has read its lines, the AMS sees changed exactly the cells
\* and sensors that were asked for, those named by module at the split of nine
\* and ten of the code and those named by chain as they are wired, and silent
\* exactly the modules that were stopped (pico_ltc_client.py:157-161, 215-253).
THEOREM AsMeant == Spec => []SeenAsMeant
<1>1. PicoInv => SeenAsMeant
  <2> SUFFICES ASSUME PicoInv, pipe = <<>> PROVE Seen = meant
    BY DEF SeenAsMeant
  <2>1. /\ \A q \in Quantities : q \in meant.quantities <=> Channel(q) \in over
        /\ \A m \in Modules : m \in meant.silent <=> m \in silent
    BY NowOnly DEF PicoInv, Foreseen
  <2>2. meant \in [quantities : SUBSET Quantities, silent : SUBSET Modules] /\ silent \subseteq Modules
    BY DEF PicoInv, TypeOK
  <2>3. Seen.quantities = meant.quantities
    BY <2>1, <2>2, Addressed DEF Seen
  <2>4. Seen.silent = meant.silent
    BY <2>1, <2>2 DEF Seen
  <2> QED
    BY <2>2, <2>3, <2>4 DEF Seen
<1> QED
  BY <1>1, Obeying, PTL

\* Without a timeout a call that has returned has been obeyed, because only
\* one line is ever under way.
THEOREM ReturnedIsDone == Spec => []ReturnMeansDone
<1>1. PicoInv => ReturnMeansDone
  BY DEF PicoInv, OneAtATime, ReturnMeansDone
<1> QED
  BY <1>1, Obeying, PTL

=============================================================================

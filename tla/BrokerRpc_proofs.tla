--------------------------- MODULE BrokerRpc_proofs ---------------------------
(***************************************************************************)
(* Nobody compares the ids of replies, and still every answer is the       *)
(* caller's own: for every number of clients, calls, timeouts and stops of *)
(* the broker.  It rests on the order of what is under way on a connection *)
(* and on who still reads from it.  With that the broker keeps what        *)
(* BrokerCall promises.                                                    *)
(***************************************************************************)
EXTENDS BrokerRpc, FiniteSetTheorems, TLAPS

Elems(s) == {s[i] : i \in DOMAIN s}
Ascending(s) == \A i, j \in DOMAIN s : i < j => s[i] < s[j]

\* A client that has ever sent a request without an id.
Noisy(c) == \E m \in Numbers : <<c, m>> \in quiet

\* Requests are asked in order, each once the one before it is over.
Numbered ==
  /\ \A c \in Clients : opened[c] <= sent[c]
  /\ \A c \in Clients, n \in Numbers : /\ outcome[c][n] = "unsent" <=> n > sent[c]
                                       /\ n < sent[c] => outcome[c][n] # "asked"
  /\ \A x \in quiet : outcome[x[1]][x[2]] = "unanswered"

\* What is under way on a connection is in the order of its requests: replies,
\* then what runs, then what has not been read yet.
Pipe(k) ==
  /\ Ascending(inbox[k]) /\ Ascending(outbox[k])
  /\ \A m \in Elems(outbox[k]), n \in Elems(inbox[k]) : m < n
  /\ running[k] # 0 => /\ \A m \in Elems(outbox[k]) : m < running[k]
                       /\ \A n \in Elems(inbox[k]) : running[k] < n
  /\ \A n \in Elems(inbox[k]) \cup Elems(outbox[k]) \cup {running[k]} : n <= sent[k[1]]
  /\ k[2] > opened[k[1]] => /\ inbox[k] = <<>> /\ outbox[k] = <<>> /\ running[k] = 0
                            /\ k \notin hung /\ k \notin served

\* A request is on one connection, has not acted while it waits there, and
\* acts once; only what has acted is replied to.
Once ==
  /\ \A k \in Conns, n \in Numbers :
       n \in Elems(inbox[k]) => /\ <<k[1], n>> \notin Elems(acted)
                                /\ \A l \in Conns \ {k} : l[1] = k[1] => n \notin Elems(inbox[l])
  /\ \A k \in Conns, n \in Numbers :
       n \in Elems(outbox[k]) \/ n = running[k] => <<k[1], n>> \in Elems(acted)
  /\ \A x \in Elems(acted) : x[2] <= sent[x[1]]
  /\ \A i, j \in DOMAIN acted : i # j => acted[i] # acted[j]

\* On a connection that still hears, nothing is under way but the request that
\* is waited for.
OwnOf(c) ==
  /\ conn[c] # 0 /\ c \notin deaf /\ ~Noisy(c) =>
       /\ Waiting(c) => Elems(inbox[Held(c)]) \cup Elems(outbox[Held(c)]) \cup {running[Held(c)]}
                          \subseteq {0, sent[c]}
       /\ ~Waiting(c) /\ Held(c) \in served =>
            inbox[Held(c)] = <<>> /\ outbox[Held(c)] = <<>> /\ running[Held(c)] = 0
  /\ c \in deaf => ~Waiting(c) /\ c \notin Cached /\ conn[c] # 0
  /\ Waiting(c) => conn[c] # 0
  /\ \A n \in Numbers : outcome[c][n] = "answered" /\ ~AfterQuiet(c, n)
                          => answer[c][n] = n /\ <<c, n>> \in Elems(acted)

Own == \A c \in Clients : OwnOf(c)

\* A client held for life has one connection, and what waits on it comes after
\* all that has acted.
Ordered ==
  /\ \A c \in Clients \ Cached : opened[c] <= 1 /\ (conn[c] = 0 => opened[c] = 0)
  /\ \A k \in Conns : k[1] \notin Cached =>
       \A x \in Elems(acted) : x[1] = k[1] => \A n \in Elems(inbox[k]) : x[2] < n
  /\ OrderOnOneConnection

RpcInv == TypeOK /\ Numbered /\ (\A k \in Conns : Pipe(k)) /\ Once /\ Own /\ Ordered

-----------------------------------------------------------------------------
(* Sequences of requests.                                                  *)

\* Writing at the end of a line.
LEMMA Appended ==
  ASSUME NEW S, NEW s \in Seq(S), NEW n \in S
  PROVE  /\ Append(s, n) \in Seq(S) /\ Elems(Append(s, n)) = Elems(s) \cup {n}
         /\ Append(s, n) # <<>>
<1> DEFINE t == Append(s, n)
<1>1. /\ t \in Seq(S) /\ Len(t) = Len(s) + 1 /\ t # <<>>
      /\ \A i \in 1..Len(s) : t[i] = s[i]
      /\ t[Len(s) + 1] = n
  OBVIOUS
<1>2. DOMAIN s = 1..Len(s) /\ DOMAIN t = 1..(Len(s) + 1) /\ Len(s) \in Nat
  BY <1>1
<1> HIDE DEF t
<1>3. Elems(t) = Elems(s) \cup {n}
  BY <1>1, <1>2 DEF Elems
<1> QED
  BY <1>1, <1>3 DEF t

\* A larger request behind smaller ones.
LEMMA AppendedLast ==
  ASSUME NEW s \in Seq(Numbers), NEW n \in Numbers, Ascending(s), \A m \in Elems(s) : m < n
  PROVE  Ascending(Append(s, n))
<1> DEFINE t == Append(s, n)
<1>1. /\ Len(t) = Len(s) + 1
      /\ \A i \in 1..Len(s) : t[i] = s[i]
      /\ t[Len(s) + 1] = n
      /\ DOMAIN s = 1..Len(s) /\ DOMAIN t = 1..(Len(s) + 1) /\ Len(s) \in Nat
  OBVIOUS
<1> HIDE DEF t
<1>2. \A i \in 1..Len(s) : s[i] < n
  BY <1>1 DEF Elems
<1>3. Ascending(t)
  BY <1>1, <1>2 DEF Ascending, Numbers
<1> QED
  BY <1>3 DEF t

\* Reading from its front.
LEMMA Taken ==
  ASSUME NEW s \in Seq(Numbers), s # <<>>
  PROVE  /\ Head(s) \in Numbers /\ Tail(s) \in Seq(Numbers)
         /\ Elems(s) = {Head(s)} \cup Elems(Tail(s))
         /\ Ascending(s) => Ascending(Tail(s)) /\ \A m \in Elems(Tail(s)) : Head(s) < m
<1> DEFINE t == Tail(s)
<1>1. /\ t \in Seq(Numbers) /\ Len(t) = Len(s) - 1 /\ Head(s) = s[1] /\ s[1] \in Numbers
      /\ \A i \in 1..Len(t) : t[i] = s[i + 1]
      /\ Len(s) \in Nat \ {0}
  OBVIOUS
<1>2. DOMAIN s = 1..Len(s) /\ DOMAIN t = 1..(Len(s) - 1) /\ Len(s) \in Nat \ {0}
  BY <1>1
<1> HIDE DEF t
<1>3. Elems(s) \subseteq {s[1]} \cup Elems(t)
  <2> SUFFICES ASSUME NEW i \in 1..Len(s), i # 1 PROVE s[i] \in Elems(t)
    BY <1>2 DEF Elems
  <2>1. i - 1 \in 1..Len(t) /\ t[i - 1] = s[i]
    BY <1>1, <1>2
  <2> QED BY <2>1, <1>1, <1>2 DEF Elems
<1>4. Elems(t) \subseteq Elems(s) /\ s[1] \in Elems(s)
  BY <1>1, <1>2 DEF Elems
<1>5. Ascending(s) => Ascending(t) /\ \A m \in Elems(t) : s[1] < m
  <2> SUFFICES ASSUME Ascending(s) PROVE Ascending(t) /\ \A m \in Elems(t) : s[1] < m
    OBVIOUS
  <2>1. \A i \in DOMAIN t : i + 1 \in DOMAIN s /\ 1 < i + 1 /\ t[i] = s[i + 1] /\ i \in Nat
    BY <1>1, <1>2
  <2>2. Ascending(t)
    <3> SUFFICES ASSUME NEW i \in DOMAIN t, NEW j \in DOMAIN t, i < j PROVE t[i] < t[j]
      BY DEF Ascending
    <3>1. i + 1 < j + 1
      BY <2>1
    <3> QED
      BY <2>1, <3>1 DEF Ascending
  <2>3. \A i \in DOMAIN t : s[1] < t[i]
    BY <1>2, <2>1 DEF Ascending
  <2> QED
    BY <2>2, <2>3 DEF Elems
<1> QED
  BY <1>1, <1>3, <1>4, <1>5 DEF t

\* A line with nothing on it.
LEMMA NothingThere ==
  /\ Elems(<<>>) = {} /\ Ascending(<<>>)
  /\ \A s \in Seq(Numbers) : Elems(s) \subseteq Numbers /\ (Elems(s) = {} => s = <<>>)
<1>1. DOMAIN <<>> = {}
  OBVIOUS
<1>2. ASSUME NEW s \in Seq(Numbers)
      PROVE  Elems(s) \subseteq Numbers /\ (Elems(s) = {} => s = <<>>)
  <2>1. DOMAIN s = 1..Len(s) /\ Len(s) \in Nat /\ \A i \in 1..Len(s) : s[i] \in Numbers
    OBVIOUS
  <2>2. Elems(s) \subseteq Numbers
    BY <2>1 DEF Elems
  <2>3. ASSUME s # <<>> PROVE s[1] \in Elems(s)
    <3>1. Len(s) # 0
      BY <2>3
    <3> QED
      BY <2>1, <3>1 DEF Elems
  <2> QED
    BY <2>2, <2>3
<1> QED
  BY <1>1, <1>2 DEF Elems, Ascending

\* What the type invariant says of the numbers and pairs below.
LEMMA Known ==
  ASSUME TypeOK
  PROVE  /\ MaxCalls \in Nat
         /\ \A n \in Numbers : n \in Nat /\ 1 <= n /\ n <= MaxCalls
         /\ \A n \in Nat : 1 <= n /\ n <= MaxCalls => n \in Numbers
         /\ \A c \in Clients : /\ sent[c] \in Nat /\ sent[c] <= MaxCalls
                                /\ opened[c] \in Nat /\ opened[c] <= MaxCalls
                                /\ conn[c] \in Nat /\ conn[c] <= opened[c]
         /\ \A c \in Clients, j \in Numbers : /\ <<c, j>> \in Conns
                                              /\ <<c, j>>[1] = c /\ <<c, j>>[2] = j
         /\ \A k \in Conns : /\ k[1] \in Clients /\ k[2] \in Numbers /\ k = <<k[1], k[2]>>
                             /\ inbox[k] \in Seq(Numbers) /\ outbox[k] \in Seq(Numbers)
                             /\ running[k] \in Nat
         /\ \A x \in Elems(acted) : x[1] \in Clients /\ x[2] \in Numbers /\ x = <<x[1], x[2]>>
         /\ \A x \in quiet : x[1] \in Clients /\ x[2] \in Numbers /\ x = <<x[1], x[2]>>
<1>1. \A n \in Numbers : n \in Nat /\ 1 <= n /\ n <= MaxCalls
  BY RpcBounds DEF Numbers
<1>2. \A n \in Nat : 1 <= n /\ n <= MaxCalls => n \in Numbers
  BY RpcBounds DEF Numbers
<1>3. \A c \in Clients : /\ sent[c] \in 0..MaxCalls /\ opened[c] \in 0..MaxCalls
                         /\ conn[c] \in 0..MaxCalls /\ conn[c] <= opened[c]
  BY DEF TypeOK
<1>4. \A c \in Clients, j \in Numbers : <<c, j>> \in Conns
  BY DEF Conns
<1>5. \A k \in Conns : /\ k[1] \in Clients /\ k[2] \in Numbers /\ k = <<k[1], k[2]>>
                      /\ inbox[k] \in Seq(Numbers) /\ outbox[k] \in Seq(Numbers)
                      /\ running[k] \in 0..MaxCalls
  BY DEF TypeOK, Conns
<1>6. Elems(acted) \subseteq Clients \X Numbers
  <2>1. \A i \in DOMAIN acted : acted[i] \in Clients \X Numbers
    BY DEF TypeOK
  <2> QED
    BY <2>1 DEF Elems
<1>7. quiet \subseteq Clients \X Numbers
  BY DEF TypeOK
<1>8. \A x \in Clients \X Numbers : x[1] \in Clients /\ x[2] \in Numbers /\ x = <<x[1], x[2]>>
  OBVIOUS
<1> QED
  BY <1>1, <1>2, <1>3, <1>4, <1>5, <1>6, <1>7, <1>8, RpcBounds

\* What is under way has been sent.
LEMMA Bounded ==
  ASSUME TypeOK, \A k \in Conns : Pipe(k), NEW l \in Conns,
         NEW m \in Elems(inbox[l]) \cup Elems(outbox[l]) \cup {running[l]}
  PROVE  m \in Nat /\ m <= sent[l[1]]
<1>1. m \in Numbers \/ m = running[l]
  BY Known, NothingThere
<1>2. m \in Nat
  BY <1>1, Known
<1>3. m <= sent[l[1]]
  BY DEF Pipe
<1> QED
  BY <1>2, <1>3

-----------------------------------------------------------------------------
\* The broker starts in a state that satisfies the invariant.
LEMMA RpcInit == Init => RpcInv
<1> SUFFICES ASSUME Init PROVE RpcInv
  OBVIOUS
<1> USE RpcBounds DEF Init
<1>1. TypeOK
  <2>1. <<>> \in Seq(Numbers) /\ <<>> \in Seq(Clients \X Numbers)
    OBVIOUS
  <2> QED
    BY <2>1 DEF TypeOK, Conns
<1>2. Numbered
  BY DEF Numbered, Numbers
<1>3. \A k \in Conns : Pipe(k)
  BY NothingThere DEF Pipe, Conns, Numbers
<1>4. Elems(acted) = {} /\ \A k \in Conns : Elems(inbox[k]) = {} /\ Elems(outbox[k]) = {}
  BY NothingThere
<1>5. DOMAIN acted = {}
  OBVIOUS
<1>6. Once
  BY <1>4, <1>5 DEF Once, Numbers
<1>7. Own
  BY DEF Own, OwnOf, Waiting
<1>8. Ordered
  BY <1>4, <1>5 DEF Ordered, OrderOnOneConnection
<1> QED
  BY <1>1, <1>2, <1>3, <1>6, <1>7, <1>8 DEF RpcInv

-----------------------------------------------------------------------------
(* Every step keeps it.                                                    *)

\* A request is written on the connection in the client's hand, which may be
\* a new one.
Says(c, j, how) ==
  /\ Begin(c) /\ Outcome(c, sent[c] + 1, how)
  /\ conn' = [conn EXCEPT ![c] = j]
  /\ inbox' = [inbox EXCEPT ![<<c, j>>] = Append(@, sent[c] + 1)]
  /\ \/ conn[c] = j /\ <<c, j>> \in served /\ UNCHANGED <<opened, served>>
     \/ /\ conn[c] = 0 /\ j = opened[c] + 1
        /\ opened' = [opened EXCEPT ![c] = j] /\ served' = served \cup {<<c, j>>}
  /\ \/ UNCHANGED quiet /\ how = IF c \in deaf THEN "unanswered" ELSE "asked"
     \/ quiet' = quiet \cup {<<c, sent[c] + 1>>} /\ how = "unanswered"
  /\ UNCHANGED <<broker, answer, deaf, hung, running, outbox, acted, timeouts, stops>>

\* A client that is dropped has no connection, and one held for life keeps it.
LEMMA Dropped ==
  ASSUME TypeOK, NEW c \in Clients,
         UNCHANGED <<conn, hung>> \/ (conn[c] # 0 /\ Drop(c))
  PROVE  /\ conn' \in [Clients -> 0..MaxCalls] /\ hung' \subseteq Conns
         /\ \A d \in Clients : /\ conn'[d] <= opened[d] /\ <<d, conn'[d]>> \notin hung'
                               /\ conn'[d] \in {0, conn[d]}
                               /\ d # c \/ c \notin Cached => conn'[d] = conn[d]
<1>1. CASE UNCHANGED <<conn, hung>>
  BY <1>1 DEF TypeOK
<1>2. CASE conn[c] # 0 /\ c \notin Cached /\ Drop(c)
  BY <1>2 DEF TypeOK, Drop
<1>3. CASE conn[c] # 0 /\ c \in Cached /\ Drop(c)
  <2>1. conn' = [conn EXCEPT ![c] = 0] /\ hung' = hung \cup {<<c, conn[c]>>}
    BY <1>3 DEF Drop, Held
  <2>2. /\ \A d \in Clients : /\ conn[d] \in 0..MaxCalls /\ opened[d] \in Nat
                              /\ conn[d] <= opened[d] /\ <<d, conn[d]>> \notin hung
        /\ 0 \in 0..MaxCalls /\ conn[c] \in Numbers
    BY <1>3, RpcBounds DEF TypeOK, Numbers
  <2>3. <<c, conn[c]>> \in Conns /\ \A d \in Clients : <<d, 0>> \notin Conns
    BY <2>2, RpcBounds DEF Conns, Numbers
  <2>4. conn' \in [Clients -> 0..MaxCalls] /\ hung' \subseteq Conns
    BY <2>1, <2>2, <2>3 DEF TypeOK
  <2>5. \A d \in Clients : conn'[d] = IF d = c THEN 0 ELSE conn[d]
    BY <2>1 DEF TypeOK
  <2>6. \A d \in Clients : <<d, conn'[d]>> \notin hung'
    <3>1. <<c, 0>> \notin hung /\ <<c, 0>> # <<c, conn[c]>>
      BY <1>3, <2>3 DEF TypeOK
    <3>2. \A d \in Clients : d # c => <<d, conn[d]>> # <<c, conn[c]>>
      OBVIOUS
    <3> QED
      BY <2>1, <2>2, <2>5, <3>1, <3>2
  <2>7. \A d \in Clients : conn'[d] <= opened[d]
    <3>1. \A d \in Clients : opened[d] \in Nat /\ conn[d] <= opened[d]
      BY <2>2
    <3> QED
      BY <2>5, <3>1
  <2> QED
    BY <1>3, <2>4, <2>5, <2>6, <2>7
<1> QED
  BY <1>1, <1>2, <1>3

LEMMA SaysKept ==
  ASSUME RpcInv, NEW c \in Clients, NEW j \in Numbers,
         NEW how \in {"asked", "unanswered"}, Says(c, j, how)
  PROVE  RpcInv'
<1> DEFINE r == sent[c] + 1
           h == <<c, j>>
<1>1. TypeOK
  BY DEF RpcInv
<1>2. /\ r \in Numbers /\ r \in Nat /\ sent[c] < r /\ h \in Conns /\ h[1] = c /\ h[2] = j
      /\ inbox[h] \in Seq(Numbers)
  <2>1. sent[c] < MaxCalls /\ sent[c] \in Nat /\ MaxCalls \in Nat
    BY <1>1, Known DEF Says, Begin
  <2>2. r \in Nat /\ 1 <= r /\ r <= MaxCalls /\ sent[c] < r
    BY <2>1
  <2> QED
    BY <1>1, <2>2, Known
<1>3. \A d \in Clients : sent'[d] = IF d = c THEN r ELSE sent[d]
  BY DEF Says, Begin, RpcInv, TypeOK
<1>4. /\ inbox'[h] = Append(inbox[h], r)
      /\ \A l \in Conns \ {h} : inbox'[l] = inbox[l]
  BY <1>2 DEF Says, RpcInv, TypeOK
<1>5. /\ inbox'[h] \in Seq(Numbers)
      /\ Elems(inbox'[h]) = Elems(inbox[h]) \cup {r}
  <2> HIDE DEF r, h
  <2> QED
    BY <1>2, <1>4, Appended
<1>6. /\ \A d \in Clients : d # c => opened'[d] = opened[d] /\ conn'[d] = conn[d]
      /\ conn'[c] = j /\ j <= opened'[c] /\ opened'[c] \in Numbers /\ opened'[c] <= r
      /\ opened[c] <= opened'[c]
      /\ \/ opened'[c] = opened[c] /\ conn[c] = j
         \/ opened[c] < j /\ conn[c] = 0 /\ opened'[c] = j
  <2>1. /\ \A d \in Clients : d # c => opened'[d] = opened[d] /\ conn'[d] = conn[d]
        /\ conn'[c] = j
        /\ \/ conn[c] = j /\ opened'[c] = opened[c]
           \/ conn[c] = 0 /\ opened'[c] = j /\ j = opened[c] + 1
    BY DEF Says, RpcInv, TypeOK
  <2>2. /\ opened[c] <= sent[c] /\ opened[c] \in Nat /\ j \in Nat /\ 1 <= j /\ conn[c] <= opened[c]
        /\ opened[c] <= MaxCalls /\ MaxCalls \in Nat /\ sent[c] \in Nat /\ j <= MaxCalls
    BY <1>1, Known DEF RpcInv, Numbered
  <2>3. opened'[c] \in Nat /\ 1 <= opened'[c] /\ opened'[c] <= MaxCalls
    BY <2>1, <2>2
  <2>4. opened'[c] \in Numbers
    BY <1>1, <2>3, Known
  <2>5. /\ j <= opened'[c] /\ opened'[c] <= r /\ opened[c] <= opened'[c]
        /\ \/ opened'[c] = opened[c] /\ conn[c] = j
           \/ opened[c] < j /\ conn[c] = 0 /\ opened'[c] = j
    BY <2>1, <2>2
  <2> QED
    BY <2>1, <2>4, <2>5
<1>7. \A d \in Clients, n \in Numbers :
        outcome'[d][n] = IF d = c /\ n = r THEN how ELSE outcome[d][n]
  BY <1>2 DEF Says, RpcInv, TypeOK, Outcome
<1>8. quiet' = quiet \/ (quiet' = quiet \cup {<<c, r>>} /\ how = "unanswered")
  BY DEF Says
<1>9. TypeOK'
  <2>1. inbox' \in [Conns -> Seq(Numbers)]
    BY <1>2, <1>4, <1>5 DEF Says, RpcInv, TypeOK
  <2>2. sent' \in [Clients -> 0..MaxCalls] /\ conn' \in [Clients -> 0..MaxCalls]
    BY <1>2 DEF Says, Begin, RpcInv, TypeOK, Numbers
  <2>3. opened' \in [Clients -> 0..MaxCalls]
    <3>1. opened'[c] \in 0..MaxCalls
      BY <1>6 DEF Numbers
    <3> QED
      BY <3>1 DEF Says, RpcInv, TypeOK
  <2>4. \A d \in Clients : conn'[d] <= opened'[d] /\ <<d, conn'[d]>> \notin hung'
    <3>1. h \notin hung
      <4>1. j > opened[c] => h \notin hung
        BY <1>2 DEF RpcInv, Pipe
      <4>2. conn[c] = j => h \notin hung
        BY DEF RpcInv, TypeOK
      <4>3. conn[c] = j \/ (j = opened[c] + 1 /\ opened[c] \in Nat)
        BY <1>1, Known DEF Says
      <4> QED
        BY <4>1, <4>2, <4>3
    <3>2. hung' = hung
      BY DEF Says
    <3> QED
      BY <1>6, <3>1, <3>2 DEF RpcInv, TypeOK
  <2>5. quiet' \subseteq Clients \X Numbers
    BY <1>2, <1>8 DEF RpcInv, TypeOK
  <2>6. outcome' \in [Clients -> [Numbers -> {"unsent", "asked", "answered", "unanswered"}]]
    BY <1>2 DEF Says, RpcInv, TypeOK, Outcome
  <2>7. served' \subseteq Conns
    BY <1>2 DEF Says, RpcInv, TypeOK
  <2> QED
    BY <2>1, <2>2, <2>3, <2>4, <2>5, <2>6, <2>7 DEF Says, RpcInv, TypeOK
<1>10. \A d \in Clients : /\ sent[d] \in Nat /\ sent'[d] \in Nat /\ sent[d] <= sent'[d]
                          /\ opened[d] \in Nat /\ opened'[d] \in Nat /\ opened[d] <= opened'[d]
  <2> HIDE DEF r, h
  <2> SUFFICES ASSUME NEW d \in Clients
               PROVE  /\ sent[d] \in Nat /\ sent'[d] \in Nat /\ sent[d] <= sent'[d]
                      /\ opened[d] \in Nat /\ opened'[d] \in Nat /\ opened[d] <= opened'[d]
    OBVIOUS
  <2>1. sent[d] \in Nat /\ opened[d] \in Nat
    BY <1>1, Known
  <2>2. d = c => opened'[d] \in Nat
    BY <1>1, <1>6, Known
  <2> QED
    BY <1>2, <1>3, <1>6, <2>1, <2>2
<1>11. sent[c] \in Nat /\ r = sent[c] + 1
  BY <1>1, Known
<1> HIDE DEF r, h
\* Everything under way was sent before.
<1>12. \A l \in Conns : \A m \in Elems(inbox[l]) \cup Elems(outbox[l]) \cup {running[l]} :
         m \in Nat /\ m <= sent[l[1]]
  BY Bounded DEF RpcInv
<1>13. Ascending(inbox'[h])
  <2>1. \A m \in Elems(inbox[h]) : m < r
    <3>1. \A m \in Elems(inbox[h]) : m \in Nat /\ m <= sent[c]
      BY <1>2, <1>12
    <3> QED
      BY <1>2, <1>11, <3>1
  <2>2. Ascending(inbox[h])
    BY <1>2 DEF RpcInv, Pipe
  <2> QED
    BY <1>2, <1>4, <2>1, <2>2, AppendedLast
<1>14. Numbered'
  <2>1. \A d \in Clients : opened'[d] <= sent'[d]
    BY <1>3, <1>6 DEF RpcInv, Numbered
  <2>2. ASSUME NEW d \in Clients, NEW n \in Numbers
        PROVE  /\ outcome'[d][n] = "unsent" <=> n > sent'[d]
               /\ n < sent'[d] => outcome'[d][n] # "asked"
    <3>1. /\ outcome[d][n] = "unsent" <=> n > sent[d]
          /\ n < sent[d] => outcome[d][n] # "asked"
      BY DEF RpcInv, Numbered
    <3>2. CASE d # c
      BY <1>3, <1>7, <3>1, <3>2
    <3>3. CASE d = c
      <4>1. n \in Nat /\ 1 <= n
        BY <1>1, Known
      <4>2. sent[c] > 0 => outcome[c][sent[c]] # "asked"
        BY DEF Says, Begin, Waiting
      <4> QED
        BY <1>2, <1>3, <1>7, <1>11, <3>1, <3>3, <4>1, <4>2
    <3> QED
      BY <3>2, <3>3
  <2>3. ASSUME NEW x \in quiet' PROVE outcome'[x[1]][x[2]] = "unanswered"
    <3>1. x \in quiet => /\ x[1] \in Clients /\ x[2] \in Numbers /\ x = <<x[1], x[2]>>
                         /\ outcome[x[1]][x[2]] = "unanswered"
      BY <1>1, Known DEF RpcInv, Numbered
    <3>2. outcome[c][r] = "unsent"
      BY <1>2 DEF RpcInv, Numbered
    <3>3. x \notin quiet => x = <<c, r>> /\ how = "unanswered"
      BY <1>8, <2>3
    <3> QED
      BY <1>2, <1>7, <3>1, <3>2, <3>3
  <2> QED
    BY <2>1, <2>2, <2>3 DEF Numbered
<1>15. ASSUME NEW k \in Conns PROVE Pipe(k)'
  <2>1. /\ k[1] \in Clients /\ k[2] \in Nat /\ k = <<k[1], k[2]>>
        /\ sent[k[1]] \in Nat /\ sent'[k[1]] \in Nat /\ sent[k[1]] <= sent'[k[1]]
        /\ opened[k[1]] \in Nat /\ opened'[k[1]] \in Nat /\ opened[k[1]] <= opened'[k[1]]
    BY <1>1, <1>10, Known
  <2>2. Pipe(k) /\ outbox'[k] = outbox[k] /\ running'[k] = running[k] /\ hung' = hung
    BY DEF RpcInv, Says
  <2>3. k[2] > opened'[k[1]] => k # h /\ k[2] > opened[k[1]] /\ k \notin served'
    <3> SUFFICES ASSUME k[2] > opened'[k[1]]
                 PROVE  k # h /\ k[2] > opened[k[1]] /\ k \notin served'
      OBVIOUS
    <3>1. k # h
      BY <1>1, <1>2, <1>6, <2>1, Known
    <3>2. k[2] > opened[k[1]]
      BY <2>1
    <3>3. k \notin served
      BY <2>2, <3>2 DEF Pipe
    <3> QED
      BY <3>1, <3>2, <3>3 DEF Says, h
  <2>4. \A n \in Elems(inbox[k]) \cup Elems(outbox[k]) \cup {running[k]} :
          n \in Nat /\ n <= sent[k[1]] /\ n <= sent'[k[1]]
    BY <1>12, <2>1
  <2>5. CASE k = h
    <3>1. sent'[k[1]] = r /\ \A n \in Elems(outbox[k]) \cup {running[k]} : n < r
      BY <1>2, <1>3, <1>11, <2>1, <2>4, <2>5
    <3>2. Elems(inbox'[k]) = Elems(inbox[k]) \cup {r} /\ Ascending(inbox'[k])
      BY <1>5, <1>13, <2>5
    <3> QED
      BY <1>2, <2>2, <2>3, <2>4, <2>5, <3>1, <3>2 DEF Pipe
  <2>6. CASE k # h
    <3>1. inbox'[k] = inbox[k]
      BY <1>4, <2>6
    <3> QED
      BY <2>2, <2>3, <2>4, <3>1 DEF Pipe
  <2> QED
    BY <2>5, <2>6
<1>16. Once'
  <2>1. <<c, r>> \notin Elems(acted) /\ \A l \in Conns : l[1] = c => r \notin Elems(inbox[l])
    <3>1. ~(r <= sent[c])
      BY <1>2, <1>11
    <3>2. <<c, r>>[2] = r /\ <<c, r>>[1] = c
      OBVIOUS
    <3> QED
      BY <1>12, <3>1, <3>2 DEF RpcInv, Once
  <2>2. ASSUME NEW k \in Conns, NEW n \in Numbers, n \in Elems(inbox'[k])
        PROVE  /\ <<k[1], n>> \notin Elems(acted)
               /\ \A l \in Conns \ {k} : l[1] = k[1] => n \notin Elems(inbox'[l])
    <3>1. CASE n \in Elems(inbox[k])
      <4>1. \A l \in Conns \ {k} : l[1] = k[1] => n \notin Elems(inbox[l])
        BY <3>1 DEF RpcInv, Once
      <4>2. k[1] = c => n # r
        BY <2>1, <3>1
      <4> QED
        BY <1>2, <1>4, <1>5, <3>1, <4>1, <4>2 DEF RpcInv, Once
    <3>2. CASE n \notin Elems(inbox[k])
      <4>1. k = h /\ n = r
        BY <1>4, <1>5, <2>2, <3>2
      <4> QED
        BY <1>2, <1>4, <2>1, <4>1
    <3> QED
      BY <3>1, <3>2
  <2>3. \A x \in Elems(acted) : x[2] <= sent'[x[1]]
    BY <1>1, <1>10, Known DEF RpcInv, Once
  <2> QED
    BY <2>2, <2>3 DEF Says, RpcInv, Once
<1>17. ASSUME NEW d \in Clients PROVE OwnOf(d)'
  <2>1. \A n \in Numbers : outcome'[d][n] = "answered" /\ ~AfterQuiet(d, n)'
                             => answer'[d][n] = n /\ <<d, n>> \in Elems(acted')
    <3>1. OwnOf(d) /\ quiet \subseteq quiet' /\ answer' = answer /\ acted' = acted
      BY <1>8 DEF Says, RpcInv, Own
    <3> QED
      BY <1>7, <3>1 DEF OwnOf, AfterQuiet
  <2>2. Noisy(d) => Noisy(d)'
    BY <1>8 DEF Noisy
  <2>3. CASE d # c
    <3>1. Waiting(d)' <=> Waiting(d)
      BY <1>1, <1>3, <1>7, <2>3, Known DEF Waiting
    <3>2. Held(d)' = Held(d) /\ Held(d) # h
      BY <1>6, <2>3 DEF Held, h
    <3>3. conn[d] # 0 => Held(d) \in Conns
      BY <1>1, Known DEF Held
    <3>4. Held(d) \in served' => Held(d) \in served
      BY <3>2 DEF Says, h
    <3>5. /\ deaf' = deaf /\ outbox' = outbox /\ running' = running
          /\ sent'[d] = sent[d] /\ conn'[d] = conn[d]
      BY <1>3, <1>6, <2>3 DEF Says
    <3>6. conn[d] # 0 => inbox'[Held(d)] = inbox[Held(d)]
      BY <1>4, <3>2, <3>3
    <3>7. OwnOf(d)
      BY DEF RpcInv, Own
    <3> QED
      BY <2>1, <2>2, <3>1, <3>2, <3>4, <3>5, <3>6, <3>7 DEF OwnOf
  <2>4. CASE d = c
    <3>1. Waiting(c)' <=> how = "asked"
      BY <1>1, <1>2, <1>3, <1>7, Known DEF Waiting
    <3>2. Held(c)' = h /\ conn'[c] # 0
      BY <1>1, <1>6, Known DEF Held, h
    <3>3. c \in deaf' => ~Waiting(c)' /\ c \notin Cached
      BY <3>1 DEF Says, RpcInv, Own, OwnOf
    <3>4. ASSUME c \notin deaf', ~Noisy(c)'
          PROVE  /\ how = "asked"
                 /\ Elems(inbox'[h]) \cup Elems(outbox'[h]) \cup {running'[h]} \subseteq {0, r}
      <4>1. how = "asked"
        BY <1>2, <3>4 DEF Says, Noisy, r
      <4>2. inbox[h] = <<>> /\ outbox[h] = <<>> /\ running[h] = 0
        <5>1. CASE conn[c] = j
          <6>1. Held(c) = h /\ conn[c] # 0 /\ h \in served
            BY <1>6, <3>2, <5>1 DEF Held, Says, h
          <6> QED
            BY <2>2, <2>4, <3>4, <6>1 DEF Says, Begin, RpcInv, Own, OwnOf
        <5>2. CASE conn[c] # j
          <6>1. h[2] > opened[h[1]]
            BY <1>2, <1>6, <1>10, <5>2
          <6> QED
            BY <1>2, <6>1 DEF RpcInv, Pipe
        <5> QED
          BY <5>1, <5>2
      <4> QED
        BY <1>5, <4>1, <4>2, NothingThere DEF Says
    <3> QED
      BY <1>3, <2>1, <2>4, <3>1, <3>2, <3>3, <3>4 DEF OwnOf
  <2> QED
    BY <2>3, <2>4
<1>18. Ordered'
  <2>1. ASSUME NEW d \in Clients \ Cached
        PROVE  opened'[d] <= 1 /\ (conn'[d] = 0 => opened'[d] = 0)
    <3>1. opened[d] <= 1 /\ (conn[d] = 0 => opened[d] = 0)
      BY DEF RpcInv, Ordered
    <3>2. d = c => j # 0 /\ (conn[c] = 0 => j = 1 \/ opened'[c] = opened[c])
      BY <1>1, <3>1, Known DEF Says
    <3> QED
      BY <1>6, <3>1, <3>2
  <2>2. ASSUME NEW k \in Conns, k[1] \notin Cached, NEW x \in Elems(acted), x[1] = k[1],
               NEW n \in Elems(inbox'[k])
        PROVE  x[2] < n
    <3>1. x[1] \in Clients /\ x[2] \in Nat /\ x[2] <= sent[x[1]] /\ sent[x[1]] \in Nat
      BY <1>1, Known DEF RpcInv, Once
    <3>2. CASE n \in Elems(inbox[k])
      BY <2>2, <3>2 DEF RpcInv, Ordered
    <3>3. CASE n \notin Elems(inbox[k])
      <4>1. k = h /\ n = r
        BY <1>4, <1>5, <2>2, <3>3
      <4> QED
        BY <1>2, <1>11, <2>2, <3>1, <4>1
    <3> QED
      BY <3>2, <3>3
  <2> QED
    BY <2>1, <2>2 DEF Says, RpcInv, Ordered, OrderOnOneConnection
<1> QED
  BY <1>9, <1>14, <1>15, <1>16, <1>17, <1>18 DEF RpcInv, Own

\* A request that nobody hears, to a broker or a connection that is gone.
LEMMA SpeaksToNobody ==
  ASSUME RpcInv, NEW c \in Clients, Begin(c), Outcome(c, sent[c] + 1, "unanswered"),
         \/ UNCHANGED <<conn, hung>> /\ conn[c] = 0
         \/ conn[c] # 0 /\ Held(c) \notin served /\ Drop(c),
         UNCHANGED <<broker, answer, opened, deaf, served, running, inbox, outbox,
                     quiet, acted, timeouts, stops>>
  PROVE  RpcInv'
<1> DEFINE r == sent[c] + 1
<1>1. TypeOK
  BY DEF RpcInv
<1>2. r \in Numbers /\ r \in Nat /\ sent[c] < r
  <2>1. sent[c] < MaxCalls /\ sent[c] \in Nat /\ MaxCalls \in Nat
    BY <1>1, Known DEF Begin
  <2>2. r \in Nat /\ 1 <= r /\ r <= MaxCalls /\ sent[c] < r
    BY <2>1
  <2> QED
    BY <1>1, <2>2, Known
<1>3. \A d \in Clients : sent'[d] = IF d = c THEN r ELSE sent[d]
  BY DEF Begin, RpcInv, TypeOK
<1>4. \A d \in Clients, n \in Numbers :
        outcome'[d][n] = IF d = c /\ n = r THEN "unanswered" ELSE outcome[d][n]
  BY <1>2 DEF RpcInv, TypeOK, Outcome
<1>5. /\ conn' \in [Clients -> 0..MaxCalls] /\ hung' \subseteq Conns
      /\ \A d \in Clients : /\ conn'[d] <= opened[d] /\ <<d, conn'[d]>> \notin hung'
                            /\ conn'[d] \in {0, conn[d]}
                            /\ d # c \/ c \notin Cached => conn'[d] = conn[d]
  BY <1>1, Dropped DEF RpcInv
<1>6. TypeOK'
  <2>1. sent' \in [Clients -> 0..MaxCalls]
    BY <1>2 DEF Begin, RpcInv, TypeOK, Numbers
  <2>2. outcome' \in [Clients -> [Numbers -> {"unsent", "asked", "answered", "unanswered"}]]
    BY <1>2 DEF RpcInv, TypeOK, Outcome
  <2> QED
    BY <1>5, <2>1, <2>2 DEF RpcInv, TypeOK
<1>7. \A d \in Clients : /\ sent[d] \in Nat /\ sent'[d] \in Nat /\ sent[d] <= sent'[d]
  BY <1>1, <1>2, <1>3, Known
<1>8. sent[c] \in Nat /\ r = sent[c] + 1
  BY <1>1, Known
<1> HIDE DEF r
<1>9. Numbered'
  <2>1. \A d \in Clients : opened'[d] <= sent'[d]
    BY <1>1, <1>7, Known DEF RpcInv, Numbered
  <2>2. ASSUME NEW d \in Clients, NEW n \in Numbers
        PROVE  /\ outcome'[d][n] = "unsent" <=> n > sent'[d]
               /\ n < sent'[d] => outcome'[d][n] # "asked"
    <3>1. /\ outcome[d][n] = "unsent" <=> n > sent[d]
          /\ n < sent[d] => outcome[d][n] # "asked"
      BY DEF RpcInv, Numbered
    <3>2. CASE d # c
      BY <1>3, <1>4, <3>1, <3>2
    <3>3. CASE d = c
      <4>1. n \in Nat /\ 1 <= n
        BY <1>1, Known
      <4>2. sent[c] > 0 => outcome[c][sent[c]] # "asked"
        BY DEF Begin, Waiting
      <4> QED
        BY <1>2, <1>3, <1>4, <1>8, <3>1, <3>3, <4>1, <4>2
    <3> QED
      BY <3>2, <3>3
  <2>3. \A x \in quiet' : outcome'[x[1]][x[2]] = "unanswered"
    BY <1>1, <1>4, Known DEF RpcInv, Numbered
  <2> QED
    BY <2>1, <2>2, <2>3 DEF Numbered
<1>10. ASSUME NEW k \in Conns PROVE Pipe(k)'
  <2>1. /\ k[1] \in Clients /\ k[2] \in Numbers /\ k = <<k[1], k[2]>>
        /\ sent[k[1]] \in Nat /\ sent'[k[1]] \in Nat /\ sent[k[1]] <= sent'[k[1]]
    BY <1>1, <1>7, Known
  <2>2. \A n \in Elems(inbox[k]) \cup Elems(outbox[k]) \cup {running[k]} :
          n \in Nat /\ n <= sent[k[1]]
    BY Bounded DEF RpcInv
  <2>3. \A n \in Elems(inbox[k]) \cup Elems(outbox[k]) \cup {running[k]} : n <= sent'[k[1]]
    BY <2>1, <2>2
  <2>4. k[2] > opened[k[1]] => k \notin hung'
    <3>1. hung' = hung \/ (hung' = hung \cup {Held(c)} /\ conn[c] <= opened[c])
      BY <1>1, Known DEF Drop
    <3>2. k = Held(c) => k[2] = conn[c] /\ k[1] = c
      BY DEF Held
    <3>3. conn[c] <= opened[c] /\ conn[c] \in Nat /\ opened[c] \in Nat
      BY <1>1, Known
    <3> QED
      BY <3>1, <3>2, <3>3 DEF RpcInv, Pipe
  <2> QED
    BY <2>3, <2>4 DEF RpcInv, Pipe
<1>11. Once'
  BY <1>1, <1>7, Known DEF RpcInv, Once
<1>12. ASSUME NEW d \in Clients PROVE OwnOf(d)'
  <2>1. OwnOf(d) /\ (Noisy(d)' <=> Noisy(d))
    BY DEF RpcInv, Own, Noisy
  <2>2. \A n \in Numbers : outcome'[d][n] = "answered" /\ ~AfterQuiet(d, n)'
                             => answer'[d][n] = n /\ <<d, n>> \in Elems(acted')
    BY <1>4, <2>1 DEF OwnOf, AfterQuiet
  <2>3. d \in deaf => d \notin Cached /\ conn'[d] # 0
    BY <1>5, <2>1 DEF OwnOf
  <2>4. conn'[d] # 0 => conn'[d] = conn[d] /\ Held(d)' = Held(d)
    BY <1>5 DEF Held
  <2>5. CASE d # c
    <3>1. Waiting(d)' <=> Waiting(d)
      BY <1>1, <1>3, <1>4, <2>5, Known DEF Waiting
    <3>2. sent'[d] = sent[d] /\ conn'[d] = conn[d]
      BY <1>3, <1>5, <2>5
    <3> QED
      BY <2>1, <2>2, <2>3, <2>4, <3>1, <3>2 DEF OwnOf
  <2>6. CASE d = c
    <3>1. ~Waiting(c)'
      BY <1>2, <1>3, <1>4 DEF Waiting
    <3>2. conn'[c] # 0 => Held(c) \notin served
      BY <1>5
    <3> QED
      BY <2>1, <2>2, <2>3, <2>4, <2>6, <3>1, <3>2 DEF OwnOf
  <2> QED
    BY <2>5, <2>6
<1>13. Ordered'
  BY <1>5 DEF RpcInv, Ordered, OrderOnOneConnection
<1> QED
  BY <1>6, <1>9, <1>10, <1>11, <1>12, <1>13 DEF RpcInv, Own

\* A caller stops waiting, because nothing comes or because nothing will.
LEMMA GivesUpKept ==
  ASSUME RpcInv, NEW c \in Clients, Waiting(c), Outcome(c, sent[c], "unanswered"), Drop(c),
         \/ deaf' = deaf /\ Held(c) \notin served
         \/ deaf' = IF c \in Cached THEN deaf ELSE deaf \cup {c},
         timeouts' \in 0..MaxTimeouts,
         UNCHANGED <<sent, answer, opened, quiet, inbox, outbox, serverSide>>
  PROVE  RpcInv'
<1>1. TypeOK
  BY DEF RpcInv
<1>2. sent[c] \in Numbers /\ sent[c] \in Nat /\ conn[c] # 0 /\ conn[c] \in Nat
  <2>1. sent[c] \in Nat /\ sent[c] <= MaxCalls /\ 1 <= sent[c] /\ conn[c] \in Nat
    BY <1>1, Known DEF Waiting
  <2> QED
    BY <1>1, <2>1, Known DEF RpcInv, Own, OwnOf
<1>3. \A d \in Clients, n \in Numbers :
        outcome'[d][n] = IF d = c /\ n = sent[c] THEN "unanswered" ELSE outcome[d][n]
  BY <1>2 DEF RpcInv, TypeOK, Outcome
<1>4. /\ conn' \in [Clients -> 0..MaxCalls] /\ hung' \subseteq Conns
      /\ \A d \in Clients : /\ conn'[d] <= opened[d] /\ <<d, conn'[d]>> \notin hung'
                            /\ conn'[d] \in {0, conn[d]}
                            /\ d # c \/ c \notin Cached => conn'[d] = conn[d]
  BY <1>1, <1>2, Dropped
<1>5. TypeOK'
  <2>1. outcome' \in [Clients -> [Numbers -> {"unsent", "asked", "answered", "unanswered"}]]
    BY <1>2 DEF RpcInv, TypeOK, Outcome
  <2>2. deaf' \subseteq Clients
    BY DEF RpcInv, TypeOK
  <2> QED
    BY <1>4, <2>1, <2>2 DEF RpcInv, TypeOK, serverSide
<1>6. Numbered'
  <2>1. outcome[c][sent[c]] = "asked"
    BY DEF Waiting
  <2>2. \A d \in Clients, n \in Numbers : outcome'[d][n] = "unsent" <=> n > sent'[d]
    BY <1>2, <1>3, <2>1 DEF RpcInv, Numbered
  <2> QED
    BY <1>1, <1>3, <2>2, Known DEF RpcInv, Numbered
<1>7. ASSUME NEW k \in Conns PROVE Pipe(k)'
  <2>1. k[1] \in Clients /\ k[2] \in Numbers /\ k = <<k[1], k[2]>>
    BY <1>1, Known
  <2>2. k[2] > opened[k[1]] => k \notin hung'
    <3>1. hung' = hung \/ hung' = hung \cup {Held(c)}
      BY DEF Drop
    <3>2. k = Held(c) => k[2] = conn[c] /\ k[1] = c
      BY DEF Held
    <3>3. conn[c] <= opened[c] /\ conn[c] \in Nat /\ opened[c] \in Nat
      BY <1>1, Known
    <3> QED
      BY <3>1, <3>2, <3>3 DEF RpcInv, Pipe
  <2> QED
    BY <2>2 DEF RpcInv, Pipe, serverSide
<1>8. Once'
  BY DEF RpcInv, Once, serverSide
<1>9. ASSUME NEW d \in Clients PROVE OwnOf(d)'
  <2>1. OwnOf(d) /\ (Noisy(d)' <=> Noisy(d))
    BY DEF RpcInv, Own, Noisy
  <2>2. \A n \in Numbers : outcome'[d][n] = "answered" /\ ~AfterQuiet(d, n)'
                             => answer'[d][n] = n /\ <<d, n>> \in Elems(acted')
    BY <1>3, <2>1 DEF OwnOf, AfterQuiet, serverSide
  <2>3. conn'[d] # 0 => conn'[d] = conn[d] /\ Held(d)' = Held(d)
    BY <1>4 DEF Held
  <2>4. CASE d # c
    <3>1. Waiting(d)' <=> Waiting(d)
      <4>1. sent[d] > 0 => sent[d] \in Numbers
        BY <1>1, Known
      <4> QED
        BY <1>3, <2>4, <4>1 DEF Waiting
    <3>2. conn'[d] = conn[d] /\ (d \in deaf' <=> d \in deaf)
      BY <1>4, <2>4
    <3> QED
      BY <2>1, <2>2, <2>3, <3>1, <3>2 DEF OwnOf, serverSide
  <2>5. CASE d = c
    <3>1. ~Waiting(c)'
      BY <1>2, <1>3 DEF Waiting
    <3>2. c \in deaf' => c \notin Cached
      BY <2>1, <2>5 DEF OwnOf
    <3>3. c \in Cached => conn'[c] = 0
      BY <1>1 DEF Drop, TypeOK
    <3>4. c \notin Cached => conn'[c] # 0
      BY <1>2, <1>4
    <3>5. conn'[c] # 0 => c \in deaf' \/ Held(c) \notin served
      BY <3>3
    <3> QED
      BY <2>1, <2>2, <2>3, <2>5, <3>1, <3>2, <3>4, <3>5 DEF OwnOf, serverSide
  <2> QED
    BY <2>4, <2>5
<1>10. Ordered'
  BY <1>4 DEF RpcInv, Ordered, OrderOnOneConnection, serverSide
<1> QED
  BY <1>5, <1>6, <1>7, <1>8, <1>9, <1>10 DEF RpcInv, Own

\* A line is read, and it is the answer.
LEMMA ReturnKept ==
  ASSUME RpcInv, NEW c \in Clients, Return(c)
  PROVE  RpcInv'
<1> DEFINE h == Held(c)
           m == Head(outbox[h])
<1>1. TypeOK
  BY DEF RpcInv
<1>2. sent[c] \in Numbers /\ sent[c] \in Nat /\ conn[c] # 0 /\ conn[c] \in Numbers
  <2>1. sent[c] \in Nat /\ sent[c] <= MaxCalls /\ 1 <= sent[c] /\ conn[c] \in Nat /\ conn[c] <= MaxCalls
    BY <1>1, Known DEF Return, Waiting, TypeOK
  <2>2. conn[c] # 0
    BY DEF Return, RpcInv, Own, OwnOf
  <2> QED
    BY <1>1, <2>1, <2>2, Known
<1>3. h \in Conns /\ h[1] = c /\ outbox[h] \in Seq(Numbers) /\ outbox[h] # <<>>
  BY <1>1, <1>2, Known DEF Held, Return
<1> HIDE DEF h
<1>4. /\ m \in Numbers /\ Tail(outbox[h]) \in Seq(Numbers)
      /\ Elems(outbox[h]) = {m} \cup Elems(Tail(outbox[h]))
      /\ Ascending(Tail(outbox[h])) /\ \A l \in Elems(Tail(outbox[h])) : m < l
  BY <1>3, Taken DEF RpcInv, Pipe
<1>5. /\ outbox'[h] = Tail(outbox[h])
      /\ \A k \in Conns \ {h} : outbox'[k] = outbox[k]
  BY <1>3 DEF Return, RpcInv, TypeOK, h
<1>6. \A k \in Conns : Elems(outbox'[k]) \subseteq Elems(outbox[k])
  BY <1>4, <1>5
<1>7. /\ \A d \in Clients, n \in Numbers :
           outcome'[d][n] = IF d = c /\ n = sent[c] THEN "answered" ELSE outcome[d][n]
      /\ \A d \in Clients, n \in Numbers :
           answer'[d][n] = IF d = c /\ n = sent[c] THEN m ELSE answer[d][n]
  BY <1>2 DEF Return, RpcInv, TypeOK, Outcome, h
<1>8. TypeOK'
  <2>1. outcome' \in [Clients -> [Numbers -> {"unsent", "asked", "answered", "unanswered"}]]
    BY <1>2 DEF Return, RpcInv, TypeOK, Outcome
  <2>2. answer' \in [Clients -> [Numbers -> 0..MaxCalls]]
    <3>1. m \in 0..MaxCalls
      BY <1>4 DEF Numbers
    <3> QED
      BY <1>2, <3>1 DEF Return, RpcInv, TypeOK, h
  <2>3. outbox' \in [Conns -> Seq(Numbers)]
    BY <1>3, <1>4, <1>5 DEF Return, RpcInv, TypeOK
  <2> QED
    BY <2>1, <2>2, <2>3 DEF Return, RpcInv, TypeOK, serverSide
<1>9. Numbered'
  <2>1. outcome[c][sent[c]] = "asked"
    BY DEF Return, Waiting
  <2>2. \A d \in Clients, n \in Numbers : outcome'[d][n] = "unsent" <=> n > sent[d]
    BY <1>2, <1>7, <2>1 DEF RpcInv, Numbered
  <2>3. \A d \in Clients, n \in Numbers : n < sent[d] => outcome'[d][n] # "asked"
    BY <1>7 DEF RpcInv, Numbered
  <2>4. \A x \in quiet : outcome'[x[1]][x[2]] = "unanswered"
    BY <1>1, <1>7, <2>1, Known DEF RpcInv, Numbered
  <2> QED
    BY <2>2, <2>3, <2>4 DEF Return, RpcInv, Numbered
<1>10. ASSUME NEW k \in Conns PROVE Pipe(k)'
  <2>1. Ascending(outbox'[k])
    BY <1>4, <1>5 DEF RpcInv, Pipe
  <2>2. k[2] > opened[k[1]] => outbox'[k] = <<>>
    BY <1>3, <1>5 DEF RpcInv, Pipe
  <2> QED
    BY <1>6, <2>1, <2>2 DEF Return, RpcInv, Pipe, serverSide
<1>11. Once'
  BY <1>6 DEF Return, RpcInv, Once, serverSide
<1>12. ASSUME NEW d \in Clients PROVE OwnOf(d)'
  <2>1. OwnOf(d) /\ (Noisy(d)' <=> Noisy(d)) /\ Held(d)' = Held(d)
    BY DEF Return, RpcInv, Own, Noisy, Held
  <2>2. CASE d # c
    <3>1. Waiting(d)' <=> Waiting(d)
      BY <1>1, <1>7, <2>2, Known DEF Waiting, Return
    <3>2. Held(d) # h
      BY <2>2 DEF Held, h
    <3>3. conn[d] # 0 => outbox'[Held(d)] = outbox[Held(d)]
      <4>1. conn[d] # 0 => Held(d) \in Conns
        <5>1. conn[d] # 0 => conn[d] \in Numbers
          BY <1>1 DEF TypeOK, Numbers
        <5> QED
          BY <1>1, <5>1, Known DEF Held
      <4> QED
        BY <1>5, <3>2, <4>1
    <3>4. \A n \in Numbers : outcome'[d][n] = "answered" /\ ~AfterQuiet(d, n)'
                               => answer'[d][n] = n /\ <<d, n>> \in Elems(acted')
      BY <1>7, <2>1, <2>2 DEF OwnOf, AfterQuiet, Return, serverSide
    <3> QED
      BY <2>1, <3>1, <3>3, <3>4 DEF OwnOf, Return, serverSide
  <2>3. CASE d = c
    <3>1. ~Waiting(c)'
      BY <1>2, <1>7 DEF Waiting, Return
    <3>2. c \notin deaf
      BY <2>1, <2>3 DEF OwnOf, Return
    <3>3. Noisy(c) => AfterQuiet(c, sent[c])
      <4> SUFFICES ASSUME NEW l \in Numbers, <<c, l>> \in quiet PROVE l \in 1..(sent[c] - 1)
        BY DEF Noisy, AfterQuiet
      <4>1. outcome[c][l] = "unanswered"
        <5>1. <<c, l>>[1] = c /\ <<c, l>>[2] = l
          OBVIOUS
        <5> QED
          BY <5>1 DEF RpcInv, Numbered
      <4>2. ~(l > sent[c]) /\ l # sent[c]
        BY <1>2, <4>1 DEF RpcInv, Numbered, Return, Waiting
      <4>3. l \in Nat /\ 1 <= l
        BY <1>1, Known
      <4> QED
        BY <1>2, <4>2, <4>3
    <3>4. ASSUME ~Noisy(c)
          PROVE  /\ m = sent[c] /\ <<c, m>> \in Elems(acted)
                 /\ inbox[h] = <<>> /\ Tail(outbox[h]) = <<>> /\ running[h] = 0
      <4>1. Elems(inbox[h]) \cup Elems(outbox[h]) \cup {running[h]} \subseteq {0, sent[c]}
        BY <1>2, <2>1, <2>3, <3>2, <3>4 DEF OwnOf, Return, h
      <4>2. m = sent[c]
        <5>1. m # 0
          BY <1>1, <1>4, Known
        <5> QED
          BY <1>4, <4>1, <5>1
      <4>3. <<c, m>> \in Elems(acted)
        BY <1>3, <1>4 DEF RpcInv, Once
      <4>4. running[h] = 0
        <5>1. running[h] # 0 => m < running[h]
          BY <1>3, <1>4 DEF RpcInv, Pipe
        <5> QED
          BY <1>2, <4>1, <4>2, <5>1
      <4>5. Elems(Tail(outbox[h])) = {}
        <5>1. Elems(Tail(outbox[h])) \subseteq {0, sent[c]} /\ 0 \notin Elems(Tail(outbox[h]))
          BY <1>1, <1>4, <4>1, Known, NothingThere
        <5> QED
          BY <1>2, <1>4, <4>2, <5>1
      <4>6. Elems(inbox[h]) = {}
        <5>1. \A n \in Elems(inbox[h]) : m < n /\ n \in {0, sent[c]}
          BY <1>3, <1>4, <4>1 DEF RpcInv, Pipe
        <5> QED
          BY <1>2, <4>2, <5>1
      <4>7. inbox[h] \in Seq(Numbers)
        BY <1>1, <1>3, Known
      <4> QED
        BY <1>4, <4>2, <4>3, <4>4, <4>5, <4>6, <4>7, NothingThere
    <3>5. \A n \in Numbers : outcome'[c][n] = "answered" /\ ~AfterQuiet(c, n)'
                               => answer'[c][n] = n /\ <<c, n>> \in Elems(acted')
      <4> SUFFICES ASSUME NEW n \in Numbers, outcome'[c][n] = "answered", ~AfterQuiet(c, n)'
                   PROVE  answer'[c][n] = n /\ <<c, n>> \in Elems(acted')
        OBVIOUS
      <4>1. ~AfterQuiet(c, n) /\ acted' = acted
        BY DEF AfterQuiet, Return, serverSide
      <4>2. CASE n = sent[c]
        BY <1>7, <3>3, <3>4, <4>1, <4>2
      <4>3. CASE n # sent[c]
        BY <1>7, <2>1, <2>3, <4>1, <4>3 DEF OwnOf
      <4> QED
        BY <4>2, <4>3
    <3>6. UNCHANGED <<conn, deaf, inbox, running, served, quiet>>
      BY DEF Return, serverSide
    <3>7. conn[c] # 0 /\ c \notin deaf /\ ~Noisy(c)
            => inbox[h] = <<>> /\ outbox'[h] = <<>> /\ running[h] = 0
      BY <1>5, <3>4
    <3> QED
      BY <1>2, <2>1, <2>3, <3>1, <3>2, <3>5, <3>6, <3>7 DEF OwnOf, h
  <2> QED
    BY <2>2, <2>3
<1>13. Ordered'
  BY DEF Return, RpcInv, Ordered, OrderOnOneConnection, serverSide
<1> QED
  BY <1>8, <1>9, <1>10, <1>11, <1>12, <1>13 DEF RpcInv, Own

-----------------------------------------------------------------------------
\* A request acts: it leaves the line, and nothing that acted comes after it.
LEMMA ExecuteKept ==
  ASSUME RpcInv, NEW k \in Conns, Execute(k)
  PROVE  RpcInv'
<1> DEFINE n == Head(inbox[k])
           c == k[1]
<1>1. TypeOK
  BY DEF RpcInv
<1>2. /\ c \in Clients /\ k[2] \in Numbers /\ k = <<c, k[2]>> /\ inbox[k] \in Seq(Numbers)
      /\ inbox[k] # <<>> /\ running[k] = 0
  BY <1>1, Known DEF Execute
<1>3. /\ n \in Numbers /\ Tail(inbox[k]) \in Seq(Numbers)
      /\ Elems(inbox[k]) = {n} \cup Elems(Tail(inbox[k]))
      /\ Ascending(Tail(inbox[k])) /\ \A l \in Elems(Tail(inbox[k])) : n < l
  BY <1>2, Taken DEF RpcInv, Pipe
<1>4. /\ inbox'[k] = Tail(inbox[k]) /\ running'[k] = n
      /\ \A l \in Conns \ {k} : inbox'[l] = inbox[l] /\ running'[l] = running[l]
  BY DEF Execute, RpcInv, TypeOK
<1>5. /\ <<c, n>> \in Clients \X Numbers /\ acted \in Seq(Clients \X Numbers)
      /\ acted' = Append(acted, <<c, n>>)
  BY <1>1, <1>2, <1>3 DEF Execute, TypeOK
<1> HIDE DEF n, c
<1>6. acted' \in Seq(Clients \X Numbers) /\ Elems(acted') = Elems(acted) \cup {<<c, n>>}
  <2>1. \A x : x = <<c, n>> => /\ Append(acted, x) \in Seq(Clients \X Numbers)
                               /\ Elems(Append(acted, x)) = Elems(acted) \cup {x}
    BY <1>5, Appended
  <2> QED
    BY <1>5, <2>1
<1>7. /\ Len(acted) \in Nat /\ DOMAIN acted = 1..Len(acted)
      /\ DOMAIN acted' = 1..(Len(acted) + 1) /\ acted'[Len(acted) + 1] = <<c, n>>
      /\ \A i \in DOMAIN acted : acted'[i] = acted[i] /\ acted[i] \in Elems(acted)
  BY <1>5 DEF Elems
<1>8. <<c, n>> \notin Elems(acted) /\ \A l \in Conns : l # k /\ l[1] = c => n \notin Elems(inbox[l])
  BY <1>3 DEF RpcInv, Once, c
<1>9. n <= sent[c] /\ n \in Nat /\ n # 0
  <2>1. n \in Nat /\ n # 0
    BY <1>1, <1>3, Known
  <2>2. n \in Elems(inbox[k])
    BY <1>3
  <2> QED
    BY <2>1, <2>2 DEF RpcInv, Pipe, c
<1>10. \A l \in Conns : Elems(inbox'[l]) \subseteq Elems(inbox[l])
  BY <1>3, <1>4
<1>11. TypeOK'
  <2>1. inbox' \in [Conns -> Seq(Numbers)]
    BY <1>3, <1>4 DEF Execute, RpcInv, TypeOK
  <2>2. running' \in [Conns -> 0..MaxCalls]
    <3>1. n \in 0..MaxCalls
      BY <1>3 DEF Numbers
    <3> QED
      BY <1>4, <3>1 DEF Execute, RpcInv, TypeOK
  <2> QED
    BY <1>6, <2>1, <2>2 DEF Execute, RpcInv, TypeOK, clientSide
<1>12. Numbered'
  BY DEF Execute, RpcInv, Numbered, clientSide
<1>13. ASSUME NEW l \in Conns PROVE Pipe(l)'
  <2>1. Pipe(l)
    BY DEF RpcInv
  <2>2. CASE l = k
    <3>1. ~(k[2] > opened[k[1]])
      BY <1>2, <2>1, <2>2 DEF Pipe
    <3> QED
      BY <1>3, <1>4, <1>9, <2>1, <2>2, <3>1 DEF Pipe, Execute, clientSide, c
  <2>3. CASE l # k
    BY <1>4, <2>1, <2>3 DEF Pipe, Execute, clientSide
  <2> QED
    BY <2>2, <2>3
<1>14. Once'
  <2>1. ASSUME NEW l \in Conns, NEW m \in Numbers, m \in Elems(inbox'[l])
        PROVE  /\ <<l[1], m>> \notin Elems(acted')
               /\ \A i \in Conns \ {l} : i[1] = l[1] => m \notin Elems(inbox'[i])
    <3>1. /\ m \in Elems(inbox[l]) /\ <<l[1], m>> \notin Elems(acted)
          /\ \A i \in Conns \ {l} : i[1] = l[1] => m \notin Elems(inbox[i])
      BY <1>10, <2>1 DEF RpcInv, Once
    <3>2. ~(l[1] = c /\ m = n)
      <4>1. CASE l = k
        <5>1. n < m
          BY <1>3, <1>4, <2>1, <4>1
        <5> QED
          BY <1>9, <5>1
      <4>2. CASE l # k
        BY <1>8, <3>1, <4>2
      <4> QED
        BY <4>1, <4>2
    <3> QED
      BY <1>6, <1>10, <3>1, <3>2
  <2>2. ASSUME NEW l \in Conns, NEW m \in Numbers, m \in Elems(outbox'[l]) \/ m = running'[l]
        PROVE  <<l[1], m>> \in Elems(acted')
    BY <1>4, <1>6, <2>2 DEF Execute, RpcInv, Once, c
  <2>3. \A x \in Elems(acted') : x[2] <= sent'[x[1]]
    <3>1. <<c, n>>[1] = c /\ <<c, n>>[2] = n /\ sent' = sent
      BY DEF Execute, clientSide
    <3> QED
      BY <1>6, <1>9, <3>1 DEF RpcInv, Once
  <2>4. \A i, j \in DOMAIN acted' : i # j => acted'[i] # acted'[j]
    <3>1. \A i \in DOMAIN acted' : i \in DOMAIN acted \/ i = Len(acted) + 1
      BY <1>7
    <3> QED
      BY <1>7, <1>8, <3>1 DEF RpcInv, Once
  <2> QED
    BY <2>1, <2>2, <2>3, <2>4 DEF Once
<1>15. ASSUME NEW d \in Clients PROVE OwnOf(d)'
  <2>1. OwnOf(d) /\ (Noisy(d)' <=> Noisy(d)) /\ Held(d)' = Held(d) /\ (Waiting(d)' <=> Waiting(d))
    BY DEF Execute, RpcInv, Own, Noisy, Held, Waiting, clientSide
  <2>2. \A m \in Numbers : outcome'[d][m] = "answered" /\ ~AfterQuiet(d, m)'
                              => answer'[d][m] = m /\ <<d, m>> \in Elems(acted')
    BY <1>6, <2>1 DEF OwnOf, AfterQuiet, Execute, clientSide
  <2>3. /\ UNCHANGED <<conn, deaf, sent, outbox, served>>
    BY DEF Execute, clientSide
  <2>4. CASE Held(d) = k
    <3>1. Held(d) \in served /\ Elems(inbox[k]) # {} /\ inbox[k] # <<>>
      BY <1>2, <1>3, <2>4 DEF Execute
    <3>2. Elems(inbox'[k]) \cup {running'[k]} \subseteq Elems(inbox[k])
      BY <1>3, <1>4
    <3> QED
      BY <2>1, <2>2, <2>3, <2>4, <3>1, <3>2 DEF OwnOf
  <2>5. CASE Held(d) # k
    <3>1. conn[d] # 0 => inbox'[Held(d)] = inbox[Held(d)] /\ running'[Held(d)] = running[Held(d)]
      <4>1. conn[d] # 0 => conn[d] \in Numbers
        BY <1>1 DEF TypeOK, Numbers
      <4> QED
        BY <1>1, <1>4, <2>5, <4>1, Known DEF Held
    <3> QED
      BY <2>1, <2>2, <2>3, <3>1 DEF OwnOf
  <2> QED
    BY <2>4, <2>5
<1>16. Ordered'
  \* Another connection of a client held for life has nothing on it.
  <2>1. \A l \in Conns : l # k /\ l[1] = c /\ c \notin Cached => Elems(inbox[l]) = {}
    <3> SUFFICES ASSUME NEW l \in Conns, l # k, l[1] = c, c \notin Cached
                 PROVE  Elems(inbox[l]) = {}
      OBVIOUS
    <3>1. opened[c] <= 1 /\ opened[c] \in Nat /\ k[2] \in Nat /\ l[2] \in Nat /\ 1 <= k[2] /\ 1 <= l[2]
          /\ l = <<l[1], l[2]>>
      BY <1>1, <1>2, Known DEF RpcInv, Ordered
    <3>2. ~(k[2] > opened[c])
      BY <1>2 DEF RpcInv, Pipe, c
    <3>3. l[2] # k[2]
      BY <1>2, <3>1
    <3>4. l[2] > opened[l[1]]
      BY <3>1, <3>2, <3>3
    <3> QED
      BY <3>4, NothingThere DEF RpcInv, Pipe
  <2>2. ASSUME NEW l \in Conns, l[1] \notin Cached, NEW x \in Elems(acted'), x[1] = l[1],
               NEW m \in Elems(inbox'[l])
        PROVE  x[2] < m
    <3>1. CASE x \in Elems(acted)
      BY <1>10, <2>2, <3>1 DEF RpcInv, Ordered
    <3>2. CASE x = <<c, n>>
      <4>1. x[1] = c /\ x[2] = n
        BY <3>2
      <4>2. l = k
        BY <1>10, <2>1, <2>2, <4>1
      <4> QED
        BY <1>3, <1>4, <2>2, <4>1, <4>2
    <3> QED
      BY <1>6, <3>1, <3>2
  <2>3. OrderOnOneConnection'
    <3> SUFFICES ASSUME NEW i \in DOMAIN acted', NEW j \in DOMAIN acted', i < j,
                        acted'[i][1] = acted'[j][1], acted'[i][1] \notin Cached
                 PROVE  acted'[i][2] < acted'[j][2]
      BY DEF OrderOnOneConnection
    <3>1. i \in DOMAIN acted /\ (j \in DOMAIN acted \/ j = Len(acted) + 1)
      BY <1>7
    <3>2. CASE j \in DOMAIN acted
      BY <1>7, <3>1, <3>2 DEF RpcInv, Ordered, OrderOnOneConnection
    <3>3. CASE j = Len(acted) + 1
      <4>1. acted'[j][1] = c /\ acted'[j][2] = n
        BY <1>7, <3>3
      <4>2. acted'[i] \in Elems(acted) /\ acted'[i][1] = c /\ c \notin Cached
        BY <1>7, <3>1, <4>1
      <4> QED
        BY <1>3, <4>1, <4>2 DEF RpcInv, Ordered, c
    <3> QED
      BY <3>1, <3>2, <3>3
  <2>4. \A d \in Clients \ Cached : opened'[d] <= 1 /\ (conn'[d] = 0 => opened'[d] = 0)
    BY DEF Execute, RpcInv, Ordered, clientSide
  <2> QED
    BY <2>2, <2>3, <2>4 DEF Ordered
<1> QED
  BY <1>11, <1>12, <1>13, <1>14, <1>15, <1>16 DEF RpcInv, Own

\* The reply of what ran is written, or a broken pipe ends its handler.
LEMMA WriteKept ==
  ASSUME RpcInv, NEW k \in Conns, Write(k)
  PROVE  RpcInv'
<1> DEFINE n == running[k]
<1>1. TypeOK
  BY DEF RpcInv
<1>2. /\ n \in Numbers /\ outbox[k] \in Seq(Numbers) /\ k[1] \in Clients /\ k[2] \in Numbers
      /\ running'[k] = 0 /\ \A l \in Conns \ {k} : running'[l] = running[l]
      /\ served' \subseteq served
  <2>1. running[k] \in 0..MaxCalls /\ running[k] # 0
    BY DEF Write, RpcInv, TypeOK
  <2>2. n \in Numbers
    BY <2>1, RpcBounds DEF Numbers
  <2>3. running'[k] = 0 /\ \A l \in Conns \ {k} : running'[l] = running[l]
    BY DEF Write, RpcInv, TypeOK
  <2>4. served' \subseteq served
    BY DEF Write
  <2> QED
    BY <1>1, <2>2, <2>3, <2>4, Known
<1>3. \A m \in Elems(outbox[k]) : m < n
  BY <1>2 DEF Write, RpcInv, Pipe
<1>4. Ascending(Append(outbox[k], n))
  BY <1>2, <1>3, AppendedLast DEF RpcInv, Pipe
<1>5. Append(outbox[k], n) \in Seq(Numbers) /\ Elems(Append(outbox[k], n)) = Elems(outbox[k]) \cup {n}
  BY <1>2, Appended
<1>6. /\ \A l \in Conns \ {k} : outbox'[l] = outbox[l]
      /\ outbox' \in [Conns -> Seq(Numbers)]
      /\ outbox'[k] = Append(outbox[k], n) \/ outbox'[k] = outbox[k]
  <2>1. outbox' = outbox \/ outbox' = [outbox EXCEPT ![k] = Append(@, n)]
    BY DEF Write, Replies
  <2> QED
    BY <1>5, <2>1 DEF RpcInv, TypeOK
<1>7. n \in Nat /\ n # 0
  BY <1>1, <1>2, Known
<1> HIDE DEF n
<1>8. TypeOK'
  <2>1. running' \in [Conns -> 0..MaxCalls]
    BY RpcBounds DEF Write, RpcInv, TypeOK
  <2>2. served' \subseteq Conns
    BY <1>2 DEF RpcInv, TypeOK
  <2> QED
    BY <1>6, <2>1, <2>2 DEF Write, RpcInv, TypeOK, clientSide
<1>9. Numbered'
  BY DEF Write, RpcInv, Numbered, clientSide
<1>10. ASSUME NEW l \in Conns PROVE Pipe(l)'
  <2>1. Pipe(l) /\ UNCHANGED <<sent, opened, hung, inbox>>
    BY DEF RpcInv, Write, clientSide
  <2>2. CASE l # k
    BY <1>2, <1>6, <2>1, <2>2 DEF Pipe
  <2>3. CASE l = k
    <3>1. ~(k[2] > opened[k[1]]) /\ n <= sent[k[1]] /\ 0 <= sent[k[1]] /\ \A m \in Elems(inbox[k]) : n < m
      <4>1. sent[k[1]] \in Nat
        BY <1>1, <1>2, Known
      <4> QED
        BY <1>7, <2>1, <2>3, <4>1 DEF Pipe, n
    <3>2. /\ Ascending(outbox'[k]) /\ running'[k] = 0
          /\ \A m \in Elems(outbox'[k]) : m = n \/ m \in Elems(outbox[k])
      BY <1>2, <1>4, <1>5, <1>6, <2>1, <2>3 DEF Pipe
    <3> QED
      BY <2>1, <2>3, <3>1, <3>2 DEF Pipe
  <2> QED
    BY <2>2, <2>3
<1>11. Once'
  <2>1. ASSUME NEW l \in Conns, NEW m \in Numbers, m \in Elems(outbox'[l]) \/ m = running'[l]
        PROVE  m \in Elems(outbox[l]) \/ m = running[l]
    <3>1. m # 0
      BY <1>1, Known
    <3> QED
      BY <1>2, <1>5, <1>6, <2>1, <3>1 DEF n
  <2> QED
    BY <2>1 DEF Write, RpcInv, Once, clientSide
<1>12. ASSUME NEW d \in Clients PROVE OwnOf(d)'
  <2>1. OwnOf(d) /\ (Noisy(d)' <=> Noisy(d)) /\ Held(d)' = Held(d) /\ (Waiting(d)' <=> Waiting(d))
    BY DEF Write, RpcInv, Own, Noisy, Held, Waiting, clientSide
  <2>2. \A m \in Numbers : outcome'[d][m] = "answered" /\ ~AfterQuiet(d, m)'
                              => answer'[d][m] = m /\ <<d, m>> \in Elems(acted')
    BY <2>1 DEF OwnOf, AfterQuiet, Write, clientSide
  <2>3. UNCHANGED <<conn, deaf, sent, inbox>>
    BY DEF Write, clientSide
  <2>4. CASE Held(d) = k
    <3>1. k \in served /\ n # 0
      BY <1>7 DEF Write
    <3>2. Elems(outbox'[k]) \cup {running'[k]} \subseteq Elems(outbox[k]) \cup {running[k], 0}
      BY <1>2, <1>5, <1>6 DEF n
    <3> QED
      BY <2>1, <2>2, <2>3, <2>4, <3>1, <3>2 DEF OwnOf, n
  <2>5. CASE Held(d) # k
    <3>1. conn[d] # 0 => outbox'[Held(d)] = outbox[Held(d)] /\ running'[Held(d)] = running[Held(d)]
      <4>1. conn[d] # 0 => conn[d] \in Numbers
        BY <1>1 DEF TypeOK, Numbers
      <4> QED
        BY <1>1, <1>2, <1>6, <2>5, <4>1, Known DEF Held
    <3> QED
      BY <1>2, <2>1, <2>2, <2>3, <3>1 DEF OwnOf
  <2> QED
    BY <2>4, <2>5
<1>13. Ordered'
  BY DEF Write, RpcInv, Ordered, OrderOnOneConnection, clientSide
<1> QED
  BY <1>8, <1>9, <1>10, <1>11, <1>12, <1>13 DEF RpcInv, Own

\* The broker dies with what runs, and what is on the lines stays there.
LEMMA StopsKept ==
  ASSUME RpcInv, BrokerStops
  PROVE  RpcInv'
<1>1. TypeOK
  BY DEF RpcInv
<1>2. running' = [k \in Conns |-> 0] /\ served' = {} /\ stops' \in 0..MaxStops
  BY <1>1, RpcBounds DEF BrokerStops, TypeOK
<1>3. TypeOK'
  <2>1. running' \in [Conns -> 0..MaxCalls]
    BY <1>2, RpcBounds
  <2> QED
    BY <1>2, <2>1 DEF BrokerStops, RpcInv, TypeOK, clientSide
<1>4. Numbered'
  BY DEF BrokerStops, RpcInv, Numbered, clientSide
<1>5. ASSUME NEW k \in Conns PROVE Pipe(k)'
  <2>1. sent[k[1]] \in Nat
    BY <1>1, Known
  <2> QED
    BY <1>2, <2>1 DEF BrokerStops, RpcInv, Pipe, clientSide
<1>6. Once'
  <2>1. \A n \in Numbers : n # 0
    BY <1>1, Known
  <2> QED
    BY <1>2, <2>1 DEF BrokerStops, RpcInv, Once, clientSide
<1>7. ASSUME NEW d \in Clients PROVE OwnOf(d)'
  <2>1. OwnOf(d) /\ (Noisy(d)' <=> Noisy(d)) /\ Held(d)' = Held(d) /\ (Waiting(d)' <=> Waiting(d))
    BY DEF BrokerStops, RpcInv, Own, Noisy, Held, Waiting, clientSide
  <2>2. \A m \in Numbers : outcome'[d][m] = "answered" /\ ~AfterQuiet(d, m)'
                              => answer'[d][m] = m /\ <<d, m>> \in Elems(acted')
    BY <2>1 DEF OwnOf, AfterQuiet, BrokerStops, clientSide
  <2>3. UNCHANGED <<conn, deaf, sent, inbox, outbox>>
    BY DEF BrokerStops, clientSide
  <2>4. conn[d] # 0 => running'[Held(d)] = 0
    <3>1. conn[d] # 0 => conn[d] \in Numbers
      BY <1>1 DEF TypeOK, Numbers
    <3> QED
      BY <1>1, <1>2, <3>1, Known DEF Held
  <2> QED
    BY <1>2, <2>1, <2>2, <2>3, <2>4 DEF OwnOf
<1>8. Ordered'
  BY DEF BrokerStops, RpcInv, Ordered, OrderOnOneConnection, clientSide
<1> QED
  BY <1>3, <1>4, <1>5, <1>6, <1>7, <1>8 DEF RpcInv, Own

LEMMA RpcSame ==
  ASSUME RpcInv, broker' \in BOOLEAN,
         UNCHANGED <<served, running, acted, stops, inbox, outbox, clientSide>>
  PROVE  RpcInv'
<1>1. TypeOK'
  BY DEF RpcInv, TypeOK, clientSide
<1>2. Numbered'
  BY DEF RpcInv, Numbered, clientSide
<1>3. \A k \in Conns : Pipe(k)'
  BY DEF RpcInv, Pipe, clientSide
<1>4. Once'
  BY DEF RpcInv, Once, clientSide
<1>5. \A d \in Clients : OwnOf(d)'
  BY DEF RpcInv, Own, OwnOf, Waiting, Held, Noisy, AfterQuiet, clientSide
<1>6. Ordered'
  BY DEF RpcInv, Ordered, OrderOnOneConnection, clientSide
<1> QED
  BY <1>1, <1>2, <1>3, <1>4, <1>5, <1>6 DEF RpcInv, Own

\* The three ways of asking: what is written, and where.
LEMMA AsksHow ==
  ASSUME RpcInv, NEW c \in Clients, CallConnecting(c) \/ Call(c) \/ Notify(c)
  PROVE  \/ \E j \in Numbers, how \in {"asked", "unanswered"} : Says(c, j, how)
         \/ /\ Begin(c) /\ Outcome(c, sent[c] + 1, "unanswered")
            /\ \/ UNCHANGED <<conn, hung>> /\ conn[c] = 0
               \/ conn[c] # 0 /\ Held(c) \notin served /\ Drop(c)
            /\ UNCHANGED <<broker, answer, opened, deaf, served, running, inbox, outbox,
                           quiet, acted, timeouts, stops>>
<1>1. TypeOK
  BY DEF RpcInv
<1>2. conn[c] \in 0..MaxCalls /\ conn = [conn EXCEPT ![c] = conn[c]]
  BY <1>1 DEF TypeOK
<1>3. CASE CallConnecting(c) /\ broker
  <2> DEFINE j == opened[c] + 1
  <2>1. /\ sent[c] \in Nat /\ sent[c] < MaxCalls /\ opened[c] \in Nat /\ opened[c] <= sent[c]
        /\ MaxCalls \in Nat
    BY <1>1, <1>3, Known DEF CallConnecting, Begin, RpcInv, Numbered
  <2>2. j \in Nat /\ 1 <= j /\ j <= MaxCalls /\ j > opened[c]
    BY <2>1
  <2>3. j \in Numbers
    BY <1>1, <2>2, Known
  <2>4. <<c, j>> \in Conns /\ inbox[<<c, j>>] = <<>>
    <3>1. <<c, j>> \in Conns /\ <<c, j>>[1] = c /\ <<c, j>>[2] = j
      BY <1>1, <2>3, Known
    <3> QED
      BY <2>2, <3>1 DEF RpcInv, Pipe
  <2>5. inbox' = [inbox EXCEPT ![<<c, j>>] = Append(@, sent[c] + 1)]
    <3>1. Append(<<>>, sent[c] + 1) = <<sent[c] + 1>>
      OBVIOUS
    <3> QED
      BY <1>3, <2>4, <3>1 DEF CallConnecting
  <2>6. c \notin deaf
    BY <1>3 DEF CallConnecting, RpcInv, Own, OwnOf
  <2>7. Says(c, j, "asked")
    BY <1>3, <2>5, <2>6 DEF CallConnecting, Says
  <2> QED
    BY <2>3, <2>7
<1>4. CASE CallConnecting(c) /\ ~broker
  BY <1>4 DEF CallConnecting
<1>5. conn[c] # 0 => conn[c] \in Numbers
  BY <1>2 DEF Numbers
<1>6. CASE Call(c) /\ Held(c) \in served
  <2>1. Says(c, conn[c], IF c \in deaf THEN "unanswered" ELSE "asked")
    BY <1>2, <1>6 DEF Call, Says, Held, serverSide
  <2> QED
    BY <1>5, <1>6, <2>1 DEF Call
<1>7. CASE Call(c) /\ Held(c) \notin served
  BY <1>7 DEF Call, serverSide
<1>8. CASE Notify(c)
  <2>1. Says(c, conn[c], "unanswered")
    BY <1>2, <1>8 DEF Notify, Says, Held, serverSide
  <2> QED
    BY <1>5, <1>8, <2>1 DEF Notify
<1> QED
  BY <1>3, <1>4, <1>6, <1>7, <1>8

LEMMA RpcKept ==
  ASSUME RpcInv, [Next]_vars
  PROVE  RpcInv'
<1>1. ASSUME NEW c \in Clients, CallConnecting(c) \/ Call(c) \/ Notify(c)
      PROVE  RpcInv'
  BY <1>1, AsksHow, SaysKept, SpeaksToNobody
<1>2. ASSUME NEW c \in Clients, Read(c)
      PROVE  RpcInv'
  <2>1. timeouts \in 0..MaxTimeouts
    BY DEF RpcInv, TypeOK
  <2>2. ASSUME Eof(c) PROVE RpcInv'
    BY <2>1, <2>2, GivesUpKept DEF Eof
  <2> QED
    BY <1>2, <2>2, ReturnKept DEF Read
<1>3. ASSUME NEW c \in Clients, Timeout(c)
      PROVE  RpcInv'
  <2>1. timeouts' \in 0..MaxTimeouts
    BY <1>3, RpcBounds DEF Timeout, RpcInv, TypeOK
  <2> QED
    BY <1>3, <2>1, GivesUpKept DEF Timeout
<1>4. ASSUME NEW k \in Conns, Handle(k)
      PROVE  RpcInv'
  BY <1>4, ExecuteKept, WriteKept DEF Handle
<1>5. CASE BrokerStarts
  BY <1>5, RpcSame DEF BrokerStarts
<1>6. CASE UNCHANGED vars
  <2>1. broker' \in BOOLEAN
    BY <1>6 DEF vars, RpcInv, TypeOK
  <2> QED
    BY <1>6, <2>1, RpcSame DEF vars, clientSide
<1> QED
  BY <1>1, <1>2, <1>3, <1>4, <1>5, <1>6, StopsKept DEF Next

-----------------------------------------------------------------------------
\* Whoever calls, however often the broker dies and whatever times out: what
\* is on a connection is in order and belongs to who reads there.
THEOREM Piping == Spec => []RpcInv
BY RpcInit, RpcKept, PTL DEF Spec

\* The variables keep their types.
THEOREM Typing == Spec => []TypeOK
BY Piping, PTL DEF RpcInv

\* A caller that got an answer got its own, although nobody compares the ids
\* of replies: on every error hil_client._call leaves its connection, and a
\* client held for life never reads again after a timeout.
THEOREM EachItsOwn == Spec => []OwnAnswer
<1>1. RpcInv => OwnAnswer
  BY DEF RpcInv, Own, OwnOf, OwnAnswer
<1> QED
  BY <1>1, Piping, PTL

\* Operations of a client held for life reach the hardware in the order in
\* which it called them, because it has one connection and one handler.
THEOREM InOrder == Spec => []OrderOnOneConnection
<1>1. RpcInv => OrderOnOneConnection
  BY DEF RpcInv, Ordered
<1> QED
  BY <1>1, Piping, PTL

-----------------------------------------------------------------------------
(* The refinement of BrokerCall.                                           *)

\* Without repetition, counting is membership.
LEMMA CountedOnce ==
  ASSUME NEW s, \A i, j \in DOMAIN s : i # j => s[i] # s[j], NEW x
  PROVE  Cardinality({i \in DOMAIN s : s[i] = x}) = IF x \in Elems(s) THEN 1 ELSE 0
<1> DEFINE Places == {i \in DOMAIN s : s[i] = x}
<1>1. CASE x \notin Elems(s)
  <2>1. Places = {}
    BY <1>1 DEF Elems
  <2> HIDE DEF Places
  <2>2. Cardinality(Places) = 0
    BY <2>1, FS_EmptySet
  <2> QED
    BY <1>1, <2>2 DEF Places
<1>2. CASE x \in Elems(s)
  <2>1. PICK i \in DOMAIN s : s[i] = x
    BY <1>2 DEF Elems
  <2>2. Places = {i}
    BY <2>1
  <2> HIDE DEF Places
  <2>3. Cardinality(Places) = 1
    BY <2>2, FS_Singleton
  <2> QED
    BY <1>2, <2>3 DEF Places
<1> QED
  BY <1>1, <1>2

\* What the caller is told, and what it has done,
LEMMA Seen ==
  ASSUME RpcInv
  PROVE  /\ \A c \in Clients, n \in Numbers :
              Told[c][n] = IF outcome[c][n] = "answered" /\ AfterQuiet(c, n) THEN "unanswered"
                                                                        ELSE outcome[c][n]
         /\ \A x \in Clients \X Numbers : Effects[x] = IF x \in Elems(acted) THEN 1 ELSE 0
<1>1. \A i, j \in DOMAIN acted : i # j => acted[i] # acted[j]
  BY DEF RpcInv, Once
<1>2. \A x : Cardinality({i \in DOMAIN acted : acted[i] = x}) = IF x \in Elems(acted) THEN 1 ELSE 0
  BY <1>1, CountedOnce
<1> QED
  BY <1>2 DEF Told, Effects

\* and the same in the next state.
LEMMA SeenNext ==
  ASSUME RpcInv'
  PROVE  /\ \A c \in Clients, n \in Numbers :
              Told'[c][n] = IF outcome'[c][n] = "answered" /\ AfterQuiet(c, n)' THEN "unanswered"
                                                                          ELSE outcome'[c][n]
         /\ \A x \in Clients \X Numbers : Effects'[x] = IF x \in Elems(acted') THEN 1 ELSE 0
<1>1. \A i, j \in DOMAIN acted' : i # j => acted'[i] # acted'[j]
  BY DEF RpcInv, Once
<1>2. \A x : Cardinality({i \in DOMAIN acted' : acted'[i] = x}) = IF x \in Elems(acted') THEN 1 ELSE 0
  BY <1>1, CountedOnce
<1> QED
  BY <1>2 DEF Told, Effects

\* For the contract one call changes,
LEMMA OneTold ==
  ASSUME NEW c \in Clients, NEW r \in Numbers, NEW how \in {"asked", "answered", "unanswered"},
         \A d \in Clients, n \in Numbers :
           Told'[d][n] = IF d = c /\ n = r THEN how ELSE Told[d][n]
  PROVE  Told' = [Told EXCEPT ![c][r] = how]
<1>1. /\ Told = [d \in Clients |-> [n \in Numbers |-> Told[d][n]]]
      /\ Told' = [d \in Clients |-> [n \in Numbers |-> Told'[d][n]]]
  BY DEF Told
<1>2. \A d \in Clients : d # c => Told'[d] = Told[d]
  BY <1>1
<1>3. Told'[c] = [Told[c] EXCEPT ![r] = how]
  BY <1>1
<1> QED
  BY <1>1, <1>2, <1>3

\* and as long as nothing acts the effects stay.
LEMMA SameEffects == acted' = acted => Effects' = Effects
BY DEF Effects

\* Asking.
LEMMA AsksAllowed ==
  ASSUME RpcInv, RpcInv', NEW c \in Clients, NEW how \in {"asked", "unanswered"},
         Begin(c), Outcome(c, sent[c] + 1, how), acted' = acted,
         quiet' = quiet \/ quiet' = quiet \cup {<<c, sent[c] + 1>>}
  PROVE  \E n \in Numbers : Calls!Ask(c, n)
<1> DEFINE r == sent[c] + 1
<1>1. TypeOK
  BY DEF RpcInv
<1>2. r \in Numbers /\ sent[c] \in Nat /\ sent[c] < r
  <2>1. sent[c] < MaxCalls /\ sent[c] \in Nat /\ MaxCalls \in Nat
    BY <1>1, Known DEF Begin
  <2>2. r \in Nat /\ 1 <= r /\ r <= MaxCalls /\ sent[c] < r
    BY <2>1
  <2> QED
    BY <1>1, <2>1, <2>2, Known
<1>3. \A d \in Clients, n \in Numbers :
        outcome'[d][n] = IF d = c /\ n = r THEN how ELSE outcome[d][n]
  BY <1>2 DEF RpcInv, TypeOK, Outcome
<1>4. r = sent[c] + 1
  OBVIOUS
<1>10. quiet' = quiet \/ quiet' = quiet \cup {<<c, r>>}
  OBVIOUS
<1> HIDE DEF r
<1>5. \A n \in Numbers : n > sent[c] <=> outcome[c][n] = "unsent"
  BY DEF RpcInv, Numbered
<1>6. \A d \in Clients, n \in Numbers :
        Told'[d][n] = IF d = c /\ n = r THEN how ELSE Told[d][n]
  <2> SUFFICES ASSUME NEW d \in Clients, NEW n \in Numbers
               PROVE  Told'[d][n] = IF d = c /\ n = r THEN how ELSE Told[d][n]
    OBVIOUS
  <2>1. outcome[d][n] = "answered" => (AfterQuiet(d, n)' <=> AfterQuiet(d, n))
    <3> SUFFICES ASSUME outcome[d][n] = "answered", NEW m \in 1..(n - 1), <<d, m>> \in quiet'
                 PROVE  <<d, m>> \in quiet
      BY <1>10 DEF AfterQuiet
    <3>1. d = c => n <= sent[c] /\ m < n
      BY <1>1, <1>2, <1>5, Known
    <3>2. <<d, m>> # <<c, r>>
      BY <1>2, <3>1, <1>1, Known
    <3> QED
      BY <1>10, <3>2
  <2> QED
    BY <1>3, <2>1, Seen, SeenNext
<1>7. Told[c][r] = "unsent"
  BY <1>2, <1>5, Seen
<1>8. \A m \in 1..(r - 1) : Told[c][m] \in {"answered", "unanswered"}
  <2> SUFFICES ASSUME NEW m \in 1..(r - 1)
               PROVE  Told[c][m] \in {"answered", "unanswered"}
    OBVIOUS
  <2>1. m \in Numbers /\ m <= sent[c] /\ m \in Nat /\ 0 < m
    <3>1. m \in Nat /\ 1 <= m /\ m <= sent[c] /\ sent[c] <= MaxCalls
      BY <1>1, <1>2, <1>4, Known
    <3> QED
      BY <1>1, <3>1, Known
  <2>2. outcome[c][m] \in {"unsent", "asked", "answered", "unanswered"}
    BY <2>1 DEF RpcInv, TypeOK
  <2>3. outcome[c][m] # "unsent"
    BY <1>2, <1>5, <2>1
  <2>4. outcome[c][m] # "asked"
    BY <1>2, <2>1 DEF Begin, Waiting, RpcInv, Numbered
  <2> QED
    BY <2>1, <2>2, <2>3, <2>4, Seen
<1>9. Told' = [Told EXCEPT ![c][r] = how]
  <2>1. how \in {"asked", "answered", "unanswered"}
    OBVIOUS
  <2> QED
    BY <1>2, <1>6, <2>1, OneTold
<1> QED
  BY <1>2, <1>7, <1>8, <1>9, SameEffects DEF Calls!Ask, Calls!Becomes

\* The end of a call without an answer.
LEMMA AbandonAllowed ==
  ASSUME RpcInv, RpcInv', NEW c \in Clients, Waiting(c), acted' = acted, quiet' = quiet,
         \A n \in Numbers : Told'[c][n] = IF n = sent[c] THEN "unanswered" ELSE Told[c][n],
         \A d \in Clients \ {c} : outcome'[d] = outcome[d]
  PROVE  \E n \in Numbers : Calls!Abandon(c, n)
<1>1. TypeOK
  BY DEF RpcInv
<1>2. sent[c] \in Numbers
  <2>1. sent[c] \in Nat /\ sent[c] <= MaxCalls /\ 1 <= sent[c]
    BY <1>1, Known DEF Waiting
  <2> QED
    BY <1>1, <2>1, Known
<1>3. \A d \in Clients, n \in Numbers :
        Told'[d][n] = IF d = c /\ n = sent[c] THEN "unanswered" ELSE Told[d][n]
  <2>1. \A d \in Clients, n \in Numbers : AfterQuiet(d, n)' <=> AfterQuiet(d, n)
    BY DEF AfterQuiet
  <2>2. \A d \in Clients, n \in Numbers : d # c => Told'[d][n] = Told[d][n]
    BY <2>1, Seen, SeenNext
  <2> QED
    BY <2>2
<1>4. Told' = [Told EXCEPT ![c][sent[c]] = "unanswered"]
  BY <1>2, <1>3, OneTold
<1>5. Told[c][sent[c]] = "asked"
  BY <1>2, Seen DEF Waiting
<1> QED
  BY <1>2, <1>4, <1>5, SameEffects DEF Calls!Abandon, Calls!Becomes

\* Every step of clients and broker is one of the contract or none.
LEMMA CallAllowed ==
  ASSUME RpcInv, [Next]_vars
  PROVE  [Calls!Next]_(Calls!vars)
<1> DEFINE Allowed == [Calls!Next]_(Calls!vars)
<1> SUFFICES Allowed
  OBVIOUS
<1>0. RpcInv' /\ TypeOK
  BY RpcKept DEF RpcInv
<1>1. Numbers = Calls!Numbers
  BY DEF Numbers, Calls!Numbers
<1>2. ASSUME NEW c \in Clients, CallConnecting(c) \/ Call(c) \/ Notify(c)
      PROVE  Allowed
  <2>1. Begin(c) /\ acted' = acted
    BY <1>2 DEF CallConnecting, Call, Notify, serverSide
  <2>2. quiet' = quiet \/ quiet' = quiet \cup {<<c, sent[c] + 1>>}
    BY <1>2 DEF CallConnecting, Call, Notify
  <2>3. \E how \in {"asked", "unanswered"} : Outcome(c, sent[c] + 1, how)
    BY <1>2 DEF CallConnecting, Call, Notify
  <2>4. \E n \in Numbers : Calls!Ask(c, n)
    BY <1>0, <2>1, <2>2, <2>3, AsksAllowed
  <2> QED
    BY <1>1, <2>4 DEF Calls!Next
<1>3. ASSUME NEW c \in Clients, Eof(c) \/ Timeout(c)
      PROVE  Allowed
  <2>1. Waiting(c) /\ acted' = acted /\ quiet' = quiet /\ Outcome(c, sent[c], "unanswered")
    BY <1>3 DEF Eof, Timeout, serverSide
  <2>2. sent[c] \in Numbers
    <3>1. sent[c] \in Nat /\ sent[c] <= MaxCalls /\ 1 <= sent[c]
      BY <1>0, <2>1, Known DEF Waiting
    <3> QED
      BY <1>0, <3>1, Known
  <2>3. /\ \A d \in Clients \ {c} : outcome'[d] = outcome[d]
        /\ \A n \in Numbers : outcome'[c][n] = IF n = sent[c] THEN "unanswered" ELSE outcome[c][n]
    BY <1>0, <2>1, <2>2 DEF TypeOK, Outcome
  <2>4. \A n \in Numbers : Told'[c][n] = IF n = sent[c] THEN "unanswered" ELSE Told[c][n]
    BY <1>0, <2>1, <2>3, Seen, SeenNext DEF AfterQuiet
  <2>5. \E n \in Numbers : Calls!Abandon(c, n)
    BY <1>0, <2>1, <2>3, <2>4, AbandonAllowed
  <2> QED
    BY <1>1, <2>5 DEF Calls!Next
<1>4. ASSUME NEW c \in Clients, Return(c)
      PROVE  Allowed
  <2>1. Waiting(c) /\ acted' = acted /\ quiet' = quiet /\ Outcome(c, sent[c], "answered")
    BY <1>4 DEF Return, serverSide
  <2>2. sent[c] \in Numbers
    <3>1. sent[c] \in Nat /\ sent[c] <= MaxCalls /\ 1 <= sent[c]
      BY <1>0, <2>1, Known DEF Waiting
    <3> QED
      BY <1>0, <3>1, Known
  <2>3. /\ \A d \in Clients \ {c} : outcome'[d] = outcome[d]
        /\ \A n \in Numbers : outcome'[c][n] = IF n = sent[c] THEN "answered" ELSE outcome[c][n]
    BY <1>0, <2>1, <2>2 DEF TypeOK, Outcome
  <2>4. \A n \in Numbers : n # sent[c] => Told'[c][n] = Told[c][n]
    BY <1>0, <2>1, <2>3, Seen, SeenNext DEF AfterQuiet
  <2>5. CASE AfterQuiet(c, sent[c])
    <3>1. Told'[c][sent[c]] = "unanswered"
      BY <1>0, <2>1, <2>2, <2>3, <2>5, SeenNext DEF AfterQuiet, Return
    <3>2. \E n \in Numbers : Calls!Abandon(c, n)
      BY <1>0, <2>1, <2>3, <2>4, <3>1, AbandonAllowed
    <3> QED
      BY <1>1, <3>2 DEF Calls!Next
  <2>6. CASE ~AfterQuiet(c, sent[c])
    <3>1. \A d \in Clients, n \in Numbers :
            Told'[d][n] = IF d = c /\ n = sent[c] THEN "answered" ELSE Told[d][n]
      BY <1>0, <2>1, <2>3, <2>4, <2>6, Seen, SeenNext DEF AfterQuiet
    <3>2. Told' = [Told EXCEPT ![c][sent[c]] = "answered"]
      BY <2>2, <3>1, OneTold
    <3>3. Told[c][sent[c]] = "asked"
      BY <2>1, <2>2, Seen DEF Waiting
    \* An answer is to a request that has acted.
    <3>4. <<c, sent[c]>> \in Elems(acted)
      <4>1. sent' = sent
        BY <1>4 DEF Return
      <4>2. ~AfterQuiet(c, sent[c])' /\ outcome'[c][sent[c]] = "answered"
        BY <2>1, <2>2, <2>3, <2>6, <4>1 DEF AfterQuiet
      <4> QED
        BY <1>0, <2>1, <2>2, <4>1, <4>2 DEF RpcInv, Own, OwnOf
    <3>5. Effects[<<c, sent[c]>>] = 1
      BY <2>2, <3>4, Seen
    <3>6. Calls!Answer(c, sent[c])
      BY <2>1, <3>2, <3>3, <3>5, SameEffects DEF Calls!Answer, Calls!Becomes
    <3> QED
      BY <1>1, <2>2, <3>6 DEF Calls!Next
  <2> QED
    BY <2>5, <2>6
<1>5. ASSUME NEW k \in Conns, Execute(k)
      PROVE  Allowed
  <2> DEFINE c == k[1]
             n == Head(inbox[k])
  <2>1. c \in Clients /\ inbox[k] \in Seq(Numbers) /\ inbox[k] # <<>> /\ acted' = Append(acted, <<c, n>>)
    BY <1>0, <1>5, Known DEF Execute
  <2>2. n \in Numbers /\ n \in Elems(inbox[k])
    BY <2>1, Taken
  <2>3. <<c, n>> \in Clients \X Numbers /\ acted \in Seq(Clients \X Numbers)
    BY <1>0, <2>1, <2>2 DEF TypeOK
  <2> HIDE DEF c, n
  <2>4. Elems(acted') = Elems(acted) \cup {<<c, n>>}
    <3>1. \A x : x = <<c, n>> => Elems(Append(acted, x)) = Elems(acted) \cup {x}
      BY <2>3, Appended
    <3> QED
      BY <2>1, <3>1
  <2>5. <<c, n>> \notin Elems(acted)
    BY <2>2 DEF RpcInv, Once, c
  <2>6. Told' = Told
    BY <1>5 DEF Told, AfterQuiet, Execute, clientSide
  <2>7. Effects' = [Effects EXCEPT ![<<c, n>>] = 1]
    <3>1. \A x \in Clients \X Numbers : Effects'[x] = IF x = <<c, n>> THEN 1 ELSE Effects[x]
      BY <1>0, <2>4, Seen, SeenNext
    <3> QED
      BY <3>1 DEF Effects
  <2>8. Told[c][n] \in {"asked", "unanswered"}
    <3>1. n <= sent[c] /\ sent[c] \in Nat /\ n \in Nat
      <4>1. n <= sent[c]
        BY <2>2 DEF RpcInv, Pipe, c
      <4> QED
        BY <1>0, <2>1, <2>2, <4>1, Known
    <3>2. outcome[c][n] # "unsent"
      BY <2>1, <2>2, <3>1 DEF RpcInv, Numbered
    <3>3. ~(outcome[c][n] = "answered" /\ ~AfterQuiet(c, n))
      BY <2>1, <2>2, <2>5 DEF RpcInv, Own, OwnOf
    <3>4. outcome[c][n] \in {"unsent", "asked", "answered", "unanswered"}
      BY <1>0, <2>1, <2>2 DEF TypeOK
    <3> QED
      BY <2>1, <2>2, <3>2, <3>3, <3>4, Seen
  <2>9. Calls!Effect(c, n)
    BY <2>3, <2>5, <2>6, <2>7, <2>8, Seen DEF Calls!Effect
  <2> QED
    BY <1>1, <2>1, <2>2, <2>9 DEF Calls!Next
<1>6. ASSUME outcome' = outcome, quiet' = quiet, acted' = acted
      PROVE  Allowed
  <2>1. Told' = Told
    BY <1>6 DEF Told, AfterQuiet
  <2> QED
    BY <1>6, <2>1, SameEffects DEF Calls!vars
<1>7. ASSUME NEW k \in Conns, Write(k)
      PROVE  Allowed
  BY <1>6, <1>7 DEF Write, clientSide
<1>8. CASE BrokerStops \/ BrokerStarts \/ UNCHANGED vars
  BY <1>6, <1>8 DEF BrokerStops, BrokerStarts, clientSide, vars
<1> QED
  BY <1>2, <1>3, <1>4, <1>5, <1>7, <1>8 DEF Next, Read, Handle

\* The broker keeps what a call promises: the operation happens at most once,
\* an answer means that it happened, and the calls of a client end in order.
THEOREM CallsKept == Spec => KeepsCallContract
<1>1. Init => Calls!Init
  <2> SUFFICES ASSUME Init PROVE Calls!Init
    OBVIOUS
  <2>1. \A c \in Clients, n \in Numbers : outcome[c][n] = "unsent"
    BY DEF Init
  <2>2. Told = [c \in Clients |-> [n \in Numbers |-> "unsent"]]
    BY <2>1 DEF Told
  <2>3. \A x \in Clients \X Numbers : Effects[x] = 0
    <3>1. Elems(acted) = {}
      BY NothingThere DEF Init
    <3> QED
      BY <3>1, RpcInit, Seen
  <2>4. Effects = [x \in Clients \X Numbers |-> 0]
    BY <2>3 DEF Effects
  <2> QED
    BY <2>2, <2>4 DEF Calls!Init, Calls!Numbers, Numbers
<1> QED
  BY <1>1, Piping, CallAllowed, PTL DEF Spec, KeepsCallContract, Calls!Spec

=============================================================================

------------------------------ MODULE BrokerCall ------------------------------
(***************************************************************************)
(* What a call of the broker promises its caller: the hardware operation   *)
(* it names happens at most once, and an answer means that it happened.    *)
(* A call that ends without an answer promises nothing more: the operation *)
(* may have happened, may never happen, or may still be to come.           *)
(***************************************************************************)
EXTENDS Naturals

CONSTANTS Clients, MaxCalls

VARIABLES outcome,  \* of each client, the outcome of its calls in order
          effects   \* how often each call has acted on the hardware

Numbers == 1..MaxCalls
vars == <<outcome, effects>>

Init == /\ outcome = [c \in Clients |-> [n \in Numbers |-> "unsent"]]
        /\ effects = [x \in Clients \X Numbers |-> 0]

Becomes(c, n, how) == outcome' = [outcome EXCEPT ![c][n] = how]

\* One call at a time, in order.
Ask(c, n) == /\ outcome[c][n] = "unsent"
             /\ \A m \in 1..(n - 1) : outcome[c][m] \in {"answered", "unanswered"}
             /\ \E how \in {"asked", "unanswered"} : Becomes(c, n, how)
             /\ UNCHANGED effects

Effect(c, n) == /\ outcome[c][n] \in {"asked", "unanswered"}
                /\ effects[<<c, n>>] = 0
                /\ effects' = [effects EXCEPT ![<<c, n>>] = 1]
                /\ UNCHANGED outcome

Answer(c, n) == /\ outcome[c][n] = "asked" /\ effects[<<c, n>>] = 1
                /\ Becomes(c, n, "answered")
                /\ UNCHANGED effects

Abandon(c, n) == /\ outcome[c][n] = "asked"
                 /\ Becomes(c, n, "unanswered")
                 /\ UNCHANGED effects

Next == \E c \in Clients, n \in Numbers : \/ Ask(c, n) \/ Effect(c, n)
                                          \/ Answer(c, n) \/ Abandon(c, n)

Spec == Init /\ [][Next]_vars
=============================================================================

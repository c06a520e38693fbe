------------------------------ MODULE BenchLock ------------------------------
(***************************************************************************)
(* What /tmp/hil-bench.lock promises the people who share one HIL bench.   *)
(*                                                                         *)
(* A party that writes a carrier's flash, or that switches the ATX rails   *)
(* off, is the owner of the bench while it does so.  A carrier that is     *)
(* being written therefore keeps its power until its writer is finished or *)
(* dead; F-077, the interrupted write that leaves an STM32H7               *)
(* unrecoverable, is not among the behaviours of this specification.       *)
(***************************************************************************)
CONSTANTS Parties,   \* everyone who may open the lock file
          NoOne      \* the owner of a bench nobody holds

VARIABLES owner,     \* who holds the flock
          rails,     \* TRUE while the ATX main rails are on
          carrier    \* flash of the carrier: "settled" or "writing"

vars == <<owner, rails, carrier>>

TypeOK == /\ owner \in Parties \cup {NoOne}
          /\ rails \in BOOLEAN
          /\ carrier \in {"settled", "writing"}

Init == /\ owner = NoOne
        /\ rails = TRUE
        /\ carrier = "settled"

Take(p) == /\ owner = NoOne
           /\ owner' = p
           /\ UNCHANGED <<rails, carrier>>

\* A party leaves in order, or dies and the kernel drops its lock: either way
\* nothing is being written when the bench is free again.
Leave(p) == /\ owner = p
            /\ owner' = NoOne
            /\ carrier' = "settled"
            /\ UNCHANGED rails

BeginWrite(p) == /\ owner = p
                 /\ rails
                 /\ carrier' = "writing"
                 /\ UNCHANGED <<owner, rails>>

EndWrite(p) == /\ owner = p
               /\ carrier = "writing"
               /\ carrier' = "settled"
               /\ UNCHANGED <<owner, rails>>

CutRails(p) == /\ owner = p
               /\ carrier = "settled"
               /\ rails' = FALSE
               /\ UNCHANGED <<owner, carrier>>

\* Powering the bench is harmless and nobody's privilege: a starting broker
\* drives PS_ON# low whoever holds the lock.
PowerUp == /\ rails' = TRUE
           /\ UNCHANGED <<owner, carrier>>

Next == \/ \E p \in Parties : \/ Take(p) \/ Leave(p)
                              \/ BeginWrite(p) \/ EndWrite(p)
                              \/ CutRails(p)
        \/ PowerUp

Spec == Init /\ [][Next]_vars

\* What follows: power is never missing under a write, and a write always has
\* an owner.
PoweredWrites == carrier = "writing" => rails /\ owner # NoOne
=============================================================================

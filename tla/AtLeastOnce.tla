----------------------------- MODULE AtLeastOnce -----------------------------
(***************************************************************************)
(* What walbox promises, without saying how: every transaction the source  *)
(* owes is processed in order, and the source gives up the right to resend *)
(* one only after it was processed.  Nothing is said of how often a        *)
(* transaction is processed after the first time.                          *)
(*                                                                         *)
(* The promise can be voided, after which anything may happen; the module  *)
(* that implements it says what voids it.                                  *)
(***************************************************************************)
EXTENDS Integers

CONSTANT Transactions    \* numbered in commit order

VARIABLES
    owed,       \* the transactions the subscription is about
    processed,  \* the transactions that have had their effect
    released,   \* the transactions that would not be sent again
    voided

vars == <<owed, processed, released, voided>>

Prefix(s) == \A t \in s : \A u \in owed : u < t => u \in s

\* From now on everything that commits after some point is owed.
Subscribe ==
    /\ owed = {}
    /\ owed' \subseteq Transactions
    /\ \A t \in owed' : \A u \in Transactions : t < u => u \in owed'
    /\ released' = {}
    /\ UNCHANGED <<processed, voided>>

\* A transaction has its effect, for the first time or again.
Process(t) ==
    /\ \A u \in owed : u < t => u \in processed
    /\ processed' = processed \cup {t}
    /\ UNCHANGED <<owed, released, voided>>

\* The source learns how far it may forget; it may also take that back.
Release ==
    /\ released' \subseteq owed \cap processed
    /\ Prefix(released')
    /\ UNCHANGED <<owed, processed, voided>>

Void ==
    /\ ~voided
    /\ voided' = TRUE
    /\ UNCHANGED <<owed, processed, released>>

\* No promise is left to keep.
Unbound ==
    /\ voided /\ voided'
    /\ owed' \subseteq Transactions
    /\ processed' \subseteq Transactions
    /\ released' \subseteq Transactions

Init == owed = {} /\ processed = {} /\ released = {} /\ voided = FALSE

Next ==
    \/ Subscribe \/ Release \/ Void \/ Unbound
    \/ \E t \in Transactions : Process(t)

Spec == Init /\ [][Next]_vars
=============================================================================

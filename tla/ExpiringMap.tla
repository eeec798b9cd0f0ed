---------------------------- MODULE ExpiringMap ----------------------------
(***************************************************************************)
(* What a map with a time to live promises its readers: a value can be     *)
(* read from the moment it is set until the clock passes its deadline, and *)
(* vanishes at that tick, neither earlier nor later.  Nothing else is      *)
(* visible; in particular there is no clean-up.                            *)
(***************************************************************************)
EXTENDS Integers

CONSTANTS Key, Value, Ttl(_), None

VARIABLES visible, until, now

vars == <<visible, until, now>>

Init ==
    /\ visible = [k \in Key |-> None]
    /\ until = [k \in Key |-> 0]
    /\ now = 0

\* A deadline already in the past makes the value invisible at once.
Set(k, v) ==
    LET deadline == now + Ttl(v)
        lives    == ~(now > deadline)
    IN  /\ visible' = [visible EXCEPT ![k] = IF lives THEN v ELSE None]
        /\ until' = [until EXCEPT ![k] = IF lives THEN deadline ELSE 0]
        /\ UNCHANGED now

Lapses(k) == visible[k] # None /\ now + 1 > until[k]

Tick ==
    /\ now' = now + 1
    /\ visible' = [k \in Key |-> IF Lapses(k) THEN None ELSE visible[k]]
    /\ until' = [k \in Key |-> IF Lapses(k) THEN 0 ELSE until[k]]

Next == Tick \/ \E k \in Key, v \in Value : Set(k, v)

Spec == Init /\ [][Next]_vars
=============================================================================

-------------------------- MODULE OneShotDelivery ---------------------------
(***************************************************************************)
(* What the owners of outgoing messages promise about each frozen message, *)
(* without their records: a message is attempted only while it is due, it  *)
(* is due again only after the provider refused it, and so the provider    *)
(* takes it at most once.  An attempt whose fate is unknown stays out for  *)
(* ever rather than being repeated.                                        *)
(***************************************************************************)
EXTENDS Naturals

CONSTANT Messages

VARIABLES
    phase,      \* phase[m]: "due", "out" (attempted, fate open) or "done"
    taken       \* taken[m]: how often the provider accepted m

absVars == <<phase, taken>>

Init ==
    /\ phase = [m \in Messages |-> "due"]
    /\ taken = [m \in Messages |-> 0]

Attempt(m) ==
    /\ phase[m] = "due"
    /\ phase' = [phase EXCEPT ![m] = "out"]
    /\ UNCHANGED taken

Take(m) ==
    /\ phase[m] = "out" /\ taken[m] = 0
    /\ taken' = [taken EXCEPT ![m] = 1]
    /\ UNCHANGED phase

Refuse(m) ==
    /\ phase[m] = "out" /\ taken[m] = 0
    /\ phase' = [phase EXCEPT ![m] = "due"]
    /\ UNCHANGED taken

Confirm(m) ==
    /\ phase[m] = "out" /\ taken[m] = 1
    /\ phase' = [phase EXCEPT ![m] = "done"]
    /\ UNCHANGED taken

Next == \E m \in Messages : Attempt(m) \/ Take(m) \/ Refuse(m) \/ Confirm(m)

Spec == Init /\ [][Next]_absVars
=============================================================================

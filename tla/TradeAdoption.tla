--------------------------- MODULE TradeAdoption ----------------------------
(***************************************************************************)
(* What the trade inbox promises about one broker execution, without the   *)
(* inbox: whether the execution is held back by a registered conflict,     *)
(* what the ledger has booked for it and whether the inbox has told anyone *)
(* that it is recorded.  It orders the two actions the ledger's writer     *)
(* lock serialises: a conflict registered before adoption stops it, one    *)
(* registered after it neither withdraws nor repeats it.                   *)
(***************************************************************************)
CONSTANTS
    Economics,      \* price, quantity, direction ... of an execution
    Orders,         \* order associations a source may know
    None            \* nothing booked, no order known

VARIABLES
    held,           \* "no", "missing" (a status is missing) or "hard"
    booked,         \* None, or what the ledger booked
    told            \* the inbox's word that the execution is recorded

absVars == <<held, booked, told>>

Effects == [econ : Economics, assoc : Orders \cup {None}]

Init ==
    /\ held = "no"
    /\ booked \in {None} \cup Effects
    /\ told = FALSE

\* A source contradicts the execution, or leaves its status out.
Hold ==
    /\ held' \in {"missing", "hard"}
    /\ UNCHANGED <<booked, told>>

\* Only a missing status can be supplied later.
Supply ==
    /\ held = "missing" /\ held' = "no"
    /\ UNCHANGED <<booked, told>>

\* The execution is booked at most once, while nothing holds it back.
Adopt ==
    /\ held = "no" /\ booked = None
    /\ booked' \in Effects
    /\ UNCHANGED <<held, told>>

\* An order learnt later fills the gap and changes nothing else.
Complete ==
    /\ held = "no" /\ booked # None /\ booked.assoc = None
    /\ booked' \in {[booked EXCEPT !.assoc = a] : a \in Orders}
    /\ UNCHANGED <<held, told>>

\* The inbox vouches only for what is booked.
Confirm ==
    /\ booked # None /\ told' = TRUE
    /\ UNCHANGED <<held, booked>>

\* An operator may have the execution judged again.
Reopen ==
    /\ told' = FALSE
    /\ UNCHANGED <<held, booked>>

Next == Hold \/ Supply \/ Adopt \/ Complete \/ Confirm \/ Reopen

Spec == Init /\ [][Next]_absVars
=============================================================================

----------------------------- MODULE CommitLane -----------------------------
(***************************************************************************)
(* What the KMS commit worker promises, without threads, locks or events:  *)
(* a lane through which accepted commits reach the screen one at a time    *)
(* and in the order they were accepted.  A commit may be returned instead  *)
(* at any moment before it is submitted.  Once the lane is closed nothing  *)
(* more is accepted or submitted, and only then may a submitted commit be  *)
(* given up before it is shown.                                            *)
(***************************************************************************)
EXTENDS Integers

VARIABLES
    accepted,   \* the number of the last accepted commit
    pending,    \* commits accepted, not submitted and not returned
    flight,     \* the submitted commit that is not settled, 0 for none
    last,       \* the last commit submitted
    shown,      \* the last commit shown
    closed      \* nothing more is accepted or submitted

laneVars == <<accepted, pending, flight, last, shown, closed>>

Init ==
    /\ accepted = 0 /\ pending = {} /\ flight = 0
    /\ last = 0 /\ shown = 0 /\ closed = FALSE

Accept ==
    /\ ~closed
    /\ accepted' = accepted + 1
    /\ pending' = pending \cup {accepted + 1}
    /\ UNCHANGED <<flight, last, shown, closed>>

\* Only the oldest pending commit, and only into an empty flight.
Submit ==
    /\ ~closed
    /\ flight = 0
    /\ \E n \in pending :
         /\ \A m \in pending : n <= m
         /\ pending' = pending \ {n}
         /\ flight' = n
         /\ last' = n
    /\ closed' \in {closed, TRUE}
    /\ UNCHANGED <<accepted, shown>>

\* Commits that were not submitted go back; the lane may close.
Return ==
    /\ pending' \in SUBSET pending
    /\ closed' \in {closed, TRUE}
    /\ UNCHANGED <<accepted, flight, last, shown>>

\* The submitted commit is on the screen.
Show ==
    /\ flight # 0
    /\ flight' = 0
    /\ shown' = flight
    /\ pending' \in SUBSET pending
    /\ closed' \in {closed, TRUE}
    /\ UNCHANGED <<accepted, last>>

\* A closed lane gives up the submitted commit ...
Abandon ==
    /\ closed
    /\ flight' = 0
    /\ pending' \in SUBSET pending
    /\ UNCHANGED <<accepted, last, shown, closed>>

\* ... which may still reach the screen.
ShowLate ==
    /\ closed /\ flight = 0
    /\ shown' = last
    /\ UNCHANGED <<accepted, pending, flight, last, closed>>

Next == Accept \/ Submit \/ Return \/ Show \/ Abandon \/ ShowLate

Spec == Init /\ [][Next]_laneVars

=============================================================================

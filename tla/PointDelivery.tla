--------------------------- MODULE PointDelivery ---------------------------
(***************************************************************************)
(* What a tsdb.Process promises about data points, with the batches, the   *)
(* mutex and the goroutines left out.                                      *)
(*                                                                         *)
(* A point that is handed to the process stays inside until its whole      *)
(* batch is settled at once: acknowledged, which needs every point of it   *)
(* in the database, or dropped.  A settled point is never taken up again.  *)
(* A crash loses what is inside, and nothing else.                         *)
(***************************************************************************)
EXTENDS FiniteSets

CONSTANT Points

VARIABLES
    status, \* "outside", "inside", "acked", "dropped" or "lost"
    saved   \* the points the database holds

vars == <<status, saved>>

InsidePoints == {p \in Points : status[p] = "inside"}

Init ==
    /\ status = [p \in Points |-> "outside"]
    /\ saved = {}

Mark(S, verdict) == status' = [p \in Points |-> IF p \in S THEN verdict ELSE status[p]]

\* The program is given a point.
Submit(p) ==
    /\ status[p] = "outside"
    /\ Mark({p}, "inside")
    /\ UNCHANGED saved

\* The database takes points over; the process does not know it yet.
Save(S) ==
    /\ S \subseteq InsidePoints
    /\ saved' = saved \cup S
    /\ UNCHANGED status

Acknowledge(S) ==
    /\ S \subseteq InsidePoints \cap saved
    /\ Mark(S, "acked")
    /\ UNCHANGED saved

Drop(S) ==
    /\ S \subseteq InsidePoints
    /\ Mark(S, "dropped")
    /\ UNCHANGED saved

Lose ==
    /\ Mark(InsidePoints, "lost")
    /\ UNCHANGED saved

Next ==
    \/ \E p \in Points : Submit(p)
    \/ \E S \in SUBSET Points : Save(S) \/ Acknowledge(S) \/ Drop(S)
    \/ Lose

Spec == Init /\ [][Next]_vars

\* A point does not stay inside for ever.
Leave(p) ==
    /\ status[p] = "inside"
    /\ \/ \E S \in SUBSET Points : p \in S /\ (Acknowledge(S) \/ Drop(S))
       \/ Lose

FairSpec == Spec /\ \A p \in Points : WF_vars(Leave(p))
=============================================================================

------------------------------ MODULE Metering ------------------------------
(***************************************************************************)
(* What the aggregator promises to whoever reads the energy of a meter or  *)
(* of a charging session, with messages, rounds, locks and maps left out.  *)
(*                                                                         *)
(* A series that is counted grows.  What it has grown is settled once: it  *)
(* is published, and then waits in a queue with everything else that is    *)
(* published, or it is refused.  Nothing is settled that has not grown.    *)
(* What waits keeps its place and its value until it is delivered.         *)
(***************************************************************************)
EXTENDS Integers, Sequences, Functions

VARIABLES
    counted, \* the series whose growth is settled
    grown,   \* how much every series has grown
    settled, \* how much of it was published or refused
    queue    \* what is published and not yet delivered

vars == <<counted, grown, settled, queue>>

Init ==
    /\ counted = {}
    /\ grown = [id \in {} |-> 0]
    /\ settled = [id \in {} |-> 0]
    /\ queue = <<>>

\* A value comes in, the first one of its series maybe.
TakeIn(id) ==
    /\ DOMAIN grown' = DOMAIN grown \cup {id}
    /\ \A i \in DOMAIN grown \ {id} : grown'[i] = grown[i]
    /\ settled' = [i \in DOMAIN grown' |-> IF i \in DOMAIN grown THEN settled[i] ELSE 0]
    /\ counted' = counted \/ (id \notin DOMAIN grown /\ counted' = counted \cup {id})
    /\ id \in counted' \/ grown'[id] = 0
    /\ UNCHANGED queue

\* Some of what has grown is settled.
Settle(id, amount) ==
    /\ settled' = [settled EXCEPT ![id] = @ + amount]
    /\ settled'[id] <= grown[id]
    /\ UNCHANGED <<counted, grown>>

\* A value is published; that of a series that is counted is a part of its growth.
Publish(id) ==
    \E new \in Range(queue') :
        /\ queue' = Append(queue, new)
        /\ new.series = id
        /\ IF id \in counted
           THEN new.value.den = 1 /\ Settle(id, new.value.num)
           ELSE UNCHANGED <<counted, grown, settled>>

\* A value is too old, too large or no news.
Refuse(id) ==
    /\ id \in counted
    /\ Settle(id, settled'[id] - settled[id])
    /\ UNCHANGED queue

Deliver ==
    /\ queue # <<>>
    /\ queue' = Tail(queue)
    /\ UNCHANGED <<counted, grown, settled>>

Next ==
    \/ \E id \in DOMAIN grown' : TakeIn(id) \/ Publish(id) \/ Refuse(id)
    \/ Deliver

Spec == Init /\ [][Next]_vars
=============================================================================

----------------------------- MODULE LatestWins -----------------------------
(***************************************************************************)
(* What coalesced updates promise, without the queue, the writer task, the *)
(* lock or the connection: updates under one key reach the wire in the     *)
(* order they were submitted, each at most once, and an update that was    *)
(* given up is never written.                                              *)
(***************************************************************************)
EXTENDS Naturals, Sequences

CONSTANT Keys

VARIABLES
    key,    \* key[u] is the key of the u-th update submitted
    phase   \* phase[u] is "unsent", "sent" or "dropped"

Init == key = <<>> /\ phase = <<>>

Unsent == {u \in DOMAIN phase : phase[u] = "unsent"}

Dropping(us) == [u \in DOMAIN phase |-> IF u \in us THEN "dropped" ELSE phase[u]]

\* A new update; older unsent ones under its key may be given up for it.
Submit(k, us) ==
    /\ \A u \in us : key[u] = k
    /\ key' = Append(key, k)
    /\ phase' = Append(Dropping(us), "unsent")

\* The oldest unsent update under its key goes on the wire.
Send(u) ==
    /\ \A v \in Unsent : key[v] = key[u] => u <= v
    /\ phase' = [phase EXCEPT ![u] = "sent"]
    /\ UNCHANGED key

\* Unsent updates are given up: cancelled by the caller, or by an error.
Drop(us) == phase' = Dropping(us) /\ UNCHANGED key

Next ==
    \/ \E k \in Keys, us \in SUBSET Unsent : Submit(k, us)
    \/ \E u \in Unsent : Send(u)
    \/ \E us \in SUBSET Unsent : us # {} /\ Drop(us)

Spec == Init /\ [][Next]_<<key, phase>>

=============================================================================

----------------------------- MODULE MCSession ------------------------------
(* The values that the configurations give to the constants of Session. *)
EXTENDS Session

CONSTANTS c1, c2, c3, s1, s2, m1, m2, k1, k2

MakeCall(kind, m, k, timed) ==
    [kind |-> kind, method |-> m, key |-> k, timed |-> timed]

\* Updates under two keys, with and without confirmation, a request that competes
\* with them for the transaction lock, and a write that takes no lock.
CommandCalls ==
    {MakeCall("post", m1, k1, TRUE), MakeCall("confirm", m1, k1, TRUE),
     MakeCall("post", m1, k2, TRUE), MakeCall("request", m1, k1, TRUE),
     MakeCall("write", m1, k1, FALSE)}

\* An update and a write that takes no lock.
UnlockedWriteCalls == {MakeCall("post", m1, k1, TRUE), MakeCall("write", m1, k1, FALSE)}

\* A request, whose response is private, and an update, whose response is not.
ReportCalls == {MakeCall("request", m1, k1, TRUE), MakeCall("update", m1, k1, TRUE)}

\* Calls that can be waiting when the session goes down: a request and reads
\* without time-outs, a confirmed update, and a write that takes no lock.
DownCalls ==
    {MakeCall("request", m1, k1, FALSE), MakeCall("confirm", m1, k1, TRUE),
     MakeCall("write", m1, k1, FALSE), MakeCall("read_message", m1, k1, FALSE),
     MakeCall("read_until", m1, k1, FALSE), MakeCall("read_packet", m1, k1, FALSE)}

TwoItems == [s \in Subscribers |-> 2]

Interchangeable == Permutations(Callers)

Unbounded == [s \in Subscribers |-> 0]

=============================================================================

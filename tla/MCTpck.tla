------------------------------- MODULE MCTpck -------------------------------
(* The values that the configuration gives to the constants of Tpck. *)
EXTENDS Tpck

\* Packets with and without a payload; lengths, types, payloads and checksums
\* that need stuffing or not.
SmallPackets ==
    {[type |-> 0, data |-> <<>>], [type |-> SOF, data |-> <<ESC>>],
     [type |-> 1, data |-> <<0, EOF>>]}

\* Nothing yet, or one packet.
OneAtMost == {<<>>, <<[type |-> SOF, data |-> <<ESC>>]>>}

=============================================================================

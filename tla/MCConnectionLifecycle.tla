------------------------ MODULE MCConnectionLifecycle ------------------------
(* Instances of ConnectionLifecycle for TLC. *)
EXTENDS ConnectionLifecycle

Setup(algorithm, request, reorders, timely, maxRexmit) ==
    [algorithm |-> algorithm, request |-> request, reorders |-> reorders,
     timely |-> timely, maxRexmit |-> maxRexmit]

\* The flavour that is used, with timers that wait for the network or race it.
Ordinary  == {Setup("RQSimpleAlg", 0, FALSE, TRUE, 1)}
Reordered == {Setup("RQSimpleAlg", 0, TRUE, TRUE, 1)}
Wild      == {Setup("RQSimpleAlg", 0, TRUE, FALSE, 1)}

\* Every flavour, with and without a request that is written early.
AllFlavours == {Setup(a, r, FALSE, TRUE, 2) : a \in Flavours, r \in {0, 10}}

\* A flavour that resends with a request of two segments, and one that notes regions.
Resending == {Setup("RQReno", 600, FALSE, TRUE, 2), Setup("RQVegas", 10, FALSE, TRUE, 2)}

WildOrResending == Wild \cup Resending

=============================================================================

------------------------------ MODULE MCPortScan ------------------------------
(* PortScan with a fast and a slow host and ports of two bits.             *)
EXTENDS PortScan

MCHosts   == {"fast", "slow"}
MCDelays  == [h \in MCHosts |-> IF h = "fast" THEN {0, 1} ELSE {25}]
MCFastest == [h \in MCHosts |-> IF h = "fast" THEN 0 ELSE 25]
MCSlowest == [h \in MCHosts |-> IF h = "fast" THEN 1 ELSE 25]

R(a, b) == [dash |-> TRUE, start |-> a, stop |-> b]
P(a)    == [dash |-> FALSE, start |-> a, stop |-> a]

(* Nothing; a range; a port named twice; one too high to be parsed alone;  *)
(* a range of all ports, with and without another; a reversed one.         *)
MCArguments == {<<>>, <<R(1, 2)>>, <<P(1), R(1, 1)>>, <<P(2)>>,
                <<R(0, 3)>>, <<R(0, 3), P(1)>>, <<R(3, 1)>>}
MCOpen      == {<<"fast", 1>>, <<"fast", 2>>, <<"slow", 2>>}
=============================================================================

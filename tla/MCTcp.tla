-------------------------------- MODULE MCTcp -------------------------------
(* Model values for TcpConnection that a configuration file cannot write.  *)
EXTENDS TcpConnection

\* Initial sequence numbers close to the wrap-around.
IsnNearWrap == [n \in Node |-> IF n = "A" THEN SeqMod - 2 ELSE SeqMod - 1]

WritesA1 == [n \in Node |-> IF n = "A" THEN 1 ELSE 0]
WritesA2 == [n \in Node |-> IF n = "A" THEN 2 ELSE 0]
WritesA3 == [n \in Node |-> IF n = "A" THEN 3 ELSE 0]
WritesA4 == [n \in Node |-> IF n = "A" THEN 4 ELSE 0]
WritesNone == [n \in Node |-> 0]
=============================================================================

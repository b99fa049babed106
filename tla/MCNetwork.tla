----------------------------- MODULE MCNetwork ------------------------------
(* A small instance of Network.                                            *)
EXTENDS Network

\* A socket that sees all packets next to one that may take them, and both uses
\* of an ICMP socket.
SmallSocketSets == {<< "raw", "udp" >>, << "icmp", "icmpError" >>}

SmallPorts == << 1, 1 >>

\* A host that changes its hardware address, and a router that does not.
SmallHardware == [a \in {"host", "gateway"} |-> IF a = "host" THEN {"h1", "h2"} ELSE {"g1"}]

\* A route of limited life that is more specific than the default one.
SmallRoutes == {[covers |-> {"remote"}, prefix_len |-> 1, via |-> "host", expires |-> 1]}

SmallPackets ==
  {[protocol |-> "udp", port |-> 1], [protocol |-> "udp", port |-> 2],
   [protocol |-> "echo", port |-> 1], [protocol |-> "error", port |-> 1],
   [protocol |-> "unknown", port |-> 1]}

\* For IPv4 three full fragments, and a packet that the fragmentation buffer
\* cannot hold; for 6LoWPAN two fragments, and a packet that the reassembly
\* buffer cannot hold.
SmallLengths == << 12, 17 >>

=============================================================================

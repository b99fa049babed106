-------------------------------- MODULE Base --------------------------------
(***************************************************************************)
(* What the sockets and the interface are built on, side by side: a ring   *)
(* buffer, a packet buffer, the assembler with the receive buffer of a TCP *)
(* socket, the pacing of its sender, and a packet in its wire format.      *)
(* They share no state; which one is in use is chosen at the start, and    *)
(* the others rest.                                                        *)
(***************************************************************************)
EXTENDS RingBuffer, PacketBuffer, RxStorage, Pacing, Wire

VARIABLE which

baseVars == << vars, packetVars, rxVars, pacingVars, wireVars, which >>

BaseInit ==
  /\ which \in {"ring", "packets", "rx", "sender", "wire"}
  /\ Init /\ PacketInit /\ RxInit /\ PacingInit
  /\ which # "ring" => rb = RingNew(Cap, CHOOSE e \in Elem : TRUE)
  /\ which # "sender" => /\ tx = Established(CHOOSE m \in Mss : TRUE, FALSE, CHOOSE w \in RemoteWindows : TRUE)
                         /\ controller = NoControl
  /\ WireInit(IF which = "wire" THEN Samples ELSE {NoSample})

BaseNext ==
  /\ UNCHANGED which
  /\ \/ which = "ring" /\ Next /\ UNCHANGED << packetVars, rxVars, pacingVars, wireVars >>
     \/ which = "packets" /\ PacketNext /\ UNCHANGED << vars, rxVars, pacingVars, wireVars >>
     \/ which = "rx" /\ RxNext /\ UNCHANGED << vars, packetVars, pacingVars, wireVars >>
     \/ which = "wire" /\ WireNext /\ UNCHANGED << vars, packetVars, rxVars, pacingVars >>
     \/ which = "sender" /\ PacingNext /\ UNCHANGED << vars, packetVars, rxVars, wireVars >>

BaseSpec == BaseInit /\ [][BaseNext]_baseVars

=============================================================================

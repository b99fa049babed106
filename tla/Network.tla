------------------------------ MODULE Network -------------------------------
(***************************************************************************)
(* The interface with its sockets, and the fragmentation of datagrams      *)
(* between two hosts.  A behaviour exercises one of them while the other   *)
(* rests.                                                                  *)
(***************************************************************************)
EXTENDS Interface, Fragmentation

VARIABLE which

networkVars == << ifaceVars, fragVars, which >>

OnlyIface == which = "interface" /\ UNCHANGED << fragVars, which >>

OnlyFrag == which = "fragmentation" /\ UNCHANGED << ifaceVars, which >>

\* What rests begins in one state only.
Rests ==
  /\ which # "interface" => kind = CHOOSE kinds \in SocketSets : TRUE
  /\ which # "fragmentation" => medium = CHOOSE m \in Mediums : TRUE

Init ==
  /\ which \in {"interface", "fragmentation"}
  /\ IfaceInit /\ FragInit
  /\ Rests

Next == (OnlyIface /\ IfaceNext) \/ (OnlyFrag /\ FragNext)

\* The application polls when poll_at() tells it to, hosts that are asked for
\* their hardware address answer, what is on its way arrives, and time passes.
Fairness == WF_networkVars((OnlyIface /\ IfaceProgress) \/ (OnlyFrag /\ FragProgress))

Spec == Init /\ [][Next]_networkVars /\ Fairness

=============================================================================

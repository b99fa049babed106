------------------------------ MODULE Multicast -----------------------------
(***************************************************************************)
(* Group membership (iface/interface/multicast.rs): groups are joined and  *)
(* left by the application, and by a change of the IPv6 addresses; the     *)
(* next poll tells the routers, as far as the device lets it; queries of   *)
(* the routers are answered after a delay.  Instants are kept as the time  *)
(* that is left until them.                                                *)
(***************************************************************************)
EXTENDS Numbers, FiniteSets, Sequences

CONSTANTS
  Groups4, Groups6,        \* multicast addresses
  Addrs4, Addrs6,          \* that the interface may have
  SolicitedNode,           \* the group in Groups6 of every address in Addrs6
  GroupCap,                \* IFACE_MAX_MULTICAST_GROUP_COUNT
  Delays,                  \* before and between reports
  MaxChanges               \* joins, leaves, queries and changes of the addresses

ASSUME MulticastAssumption ==
  /\ GroupCap \in Nat /\ Delays \subseteq Nat /\ MaxChanges \in Nat
  /\ SolicitedNode \in [Addrs6 -> Groups6]

VARIABLES
  addrs,         \* ip_addrs of the interface
  groups,        \* the table, as a sequence of entries
  igmp, mld,     \* igmp_report_state and mld_report_state
  announced,     \* groups that a join was sent for, and no leave since
  unannounced,   \* groups with a change that was never sent, for want of an address
  owed,          \* groups that the general query in hand has still to report
  shuffled,      \* an entry was removed meanwhile
  changes        \* number of changes so far

multicastVars == << addrs, groups, igmp, mld, announced, unannounced, owed, shuffled, changes >>

Inactive == [state |-> "Inactive"]

Indices(table) == DOMAIN table

IndexOf(table, g) == CHOOSE i \in Indices(table) : table[i].addr = g

Knows(table, g) == \E i \in Indices(table) : table[i].addr = g

StateIn(table, g) == IF Knows(table, g) THEN table[IndexOf(table, g)].state ELSE "None"

SetState(table, g, state) == [table EXCEPT ![IndexOf(table, g)].state = state]

\* LinearMap::remove(): the last entry takes the place of the removed one.
Removed(table, g) ==
  LET last == Len(table)
  IN  SubSeq([table EXCEPT ![IndexOf(table, g)] = table[last]], 1, last - 1)

\* has_multicast_group() of the table.
HasMulticastGroup(g) == StateIn(groups, g) \in {"Joining", "Joined"}

\* join_multicast_group(): a full table changes nothing.
Joined(table, g) ==
  IF StateIn(table, g) = "Leaving" THEN SetState(table, g, "Joined")
  ELSE IF Knows(table, g) \/ Len(table) = GroupCap THEN table
  ELSE Append(table, [addr |-> g, state |-> "Joining"])


\* leave_multicast_group(): what was not announced needs no packet.
Left(table, g) ==
  CASE StateIn(table, g) = "Joining" -> Removed(table, g)
    [] StateIn(table, g) = "Joined"  -> SetState(table, g, "Leaving")
    [] OTHER                         -> table

Change == changes < MaxChanges /\ changes' = changes + 1

Shrinks(before, after) == Len(after) < Len(before)

JoinMulticastGroup(g) ==
  /\ Change
  /\ groups' = Joined(groups, g)
  /\ UNCHANGED << addrs, igmp, mld, announced, unannounced, owed, shuffled >>

LeaveMulticastGroup(g) ==
  /\ Change
  /\ groups' = Left(groups, g)
  /\ shuffled' = (shuffled \/ Shrinks(groups, groups'))
  /\ owed' = owed \ {g}
  /\ UNCHANGED << addrs, igmp, mld, announced, unannounced >>

\* update_solicited_node_groups(): groups of addresses that are gone are left,
\* in the order of the table, and those of the present ones joined.
Solicited(as) == {SolicitedNode[a] : a \in as \cap Addrs6}

LeaveAll(table, gone) ==
  LET after[i \in 0 .. Len(table)] ==
        IF i = 0 THEN table
        ELSE IF table[i].addr \in gone THEN Left(after[i - 1], table[i].addr)
        ELSE after[i - 1]
  IN  after[Len(table)]

JoinAll(table, order) ==
  LET after[i \in 0 .. Len(order)] ==
        IF i = 0 THEN table ELSE Joined(after[i - 1], order[i])
  IN  after[Len(order)]

\* The orders in which the addresses may stand in the interface's list.
Orders(set) == {order \in [1 .. Cardinality(set) -> set] : \A g \in set : \E i \in 1 .. Cardinality(set) : order[i] = g}

\* update_ip_addrs() of an Ethernet interface.
UpdateIpAddrs(as) ==
  /\ Change
  /\ addrs' = as
  /\ LET left == LeaveAll(groups, Solicited(Addrs6) \ Solicited(as))
     IN  /\ \E order \in Orders(Solicited(as)) : groups' = JoinAll(left, order)
         /\ shuffled' = (shuffled \/ Shrinks(groups, left))
  /\ UNCHANGED << igmp, mld, announced, unannounced, owed >>

-----------------------------------------------------------------------------
(* Queries.                                                                *)

\* process_igmp(): a general query, with the time between the reports.
IgmpGeneralQuery(interval) ==
  /\ Change
  /\ \E i \in Indices(groups) : groups[i].addr \in Groups4
  /\ igmp' = [state |-> "General", timeout |-> interval, interval |-> interval, next_index |-> 1]
  /\ owed' = {groups[i].addr : i \in Indices(groups)} \cap Groups4
  /\ shuffled' = FALSE
  /\ UNCHANGED << addrs, groups, mld, announced, unannounced >>

\* process_igmp(): a query for one group, which takes the place of any other.
IgmpSpecificQuery(g, delay) ==
  /\ Change
  /\ HasMulticastGroup(g)
  /\ igmp' = [state |-> "Specific", timeout |-> delay, group |-> g]
  /\ owed' = {}
  /\ UNCHANGED << addrs, groups, mld, announced, unannounced, shuffled >>

\* process_mldv2().
MldQuery(g, delay) ==
  /\ Change
  /\ \/ /\ g = "all" /\ \E i \in Indices(groups) : groups[i].addr \in Groups6
        /\ mld' = [state |-> "General", timeout |-> delay]
     \/ /\ g # "all" /\ HasMulticastGroup(g)
        /\ mld' = [state |-> "Specific", timeout |-> delay, group |-> g]
  /\ UNCHANGED << addrs, groups, igmp, announced, unannounced, owed, shuffled >>

-----------------------------------------------------------------------------
(* multicast_egress().                                                     *)

\* igmp_report_packet(), igmp_leave_packet() and mldv2_report_packet(): there is
\* no IGMP packet without an IPv4 address.
HasPacket(g) == g \in Groups6 \/ addrs \cap Addrs4 # {}

InState(table, state) == {i \in Indices(table) : table[i].state = state}

FirstIn(table, state) == LET s == InState(table, state) IN table[CHOOSE i \in s : \A j \in s : i <= j].addr

\* One turn of the first loop: the packet leaves if there is one, and the group is joined.
SendJoins(st) ==
  IF InState(st.table, "Joining") = {} THEN st
  ELSE LET g == FirstIn(st.table, "Joining")
       IN  IF ~ HasPacket(g)
             THEN [st EXCEPT !.table = SetState(@, g, "Joined"), !.unannounced = @ \cup {g}]
           ELSE IF st.tokens = 0 THEN st
           ELSE [table |-> SetState(st.table, g, "Joined"), tokens |-> st.tokens - 1,
                 announced |-> st.announced \cup {g}, unannounced |-> st.unannounced \ {g}]

\* One turn of the second loop.
SendLeaves(st) ==
  IF InState(st.table, "Leaving") = {} THEN st
  ELSE LET g == FirstIn(st.table, "Leaving")
       IN  IF ~ HasPacket(g)
             THEN [st EXCEPT !.table = Removed(@, g), !.unannounced = @ \cup {g}]
           ELSE IF st.tokens = 0 THEN st
           ELSE [table |-> Removed(st.table, g), tokens |-> st.tokens - 1,
                 announced |-> st.announced \ {g}, unannounced |-> st.unannounced \ {g}]

\* Both loops; the device may run out of buffers in either.
SentJoins(tokens) ==
  LET turn[n \in 0 .. GroupCap] ==
        IF n = 0 THEN [table |-> groups, tokens |-> tokens,
                       announced |-> announced, unannounced |-> unannounced]
        ELSE SendJoins(turn[n - 1])
  IN  turn[GroupCap]

SentLeaves(st, tokens) ==
  LET turn[n \in 0 .. GroupCap] ==
        IF n = 0 THEN [st EXCEPT !.tokens = tokens] ELSE SendLeaves(turn[n - 1])
  IN  turn[GroupCap]

\* The IPv4 groups in the order of the table.
Table4(table) == SelectSeq(table, LAMBDA entry : entry.addr \in Groups4)


\* The next report to a general query, or its end.
NextReport(table, token, wait) ==
  LET four == Table4(table)
  IN  IF igmp.next_index > Len(four) THEN [igmp |-> Inactive, owed |-> owed]
      ELSE IF ~ token \/ ~ HasPacket(four[igmp.next_index].addr) THEN [igmp |-> igmp, owed |-> owed]
      ELSE [igmp |-> [igmp EXCEPT !.timeout = wait, !.next_index = @ + 1],
            owed |-> owed \ {four[igmp.next_index].addr}]

\* timeout + interval, or now if that has passed.
Waits == IF igmp.state = "General" /\ igmp.timeout = 0 THEN 0 .. igmp.interval ELSE {0}

\* The device has buffers for some of the packets of a loop, or for all.
Tokens(state) == 0 .. Cardinality(InState(groups, state))

IgmpReport(table, token, wait) ==
  IF igmp = Inactive \/ igmp.timeout > 0 THEN [igmp |-> igmp, owed |-> owed]
  ELSE IF igmp.state = "General" THEN NextReport(table, token, wait)
  ELSE [igmp |-> IF token /\ addrs \cap Addrs4 # {} THEN Inactive ELSE igmp, owed |-> owed]

MulticastEgress(joinTokens, leaveTokens, token, wait) ==
  LET st     == SentLeaves(SentJoins(joinTokens), leaveTokens)
      report == IgmpReport(st.table, token, wait)
  IN  /\ groups' = st.table
      /\ announced' = st.announced /\ unannounced' = st.unannounced
      /\ shuffled' = (shuffled \/ Shrinks(groups, st.table))
      /\ igmp' = report.igmp
      /\ owed' = report.owed \cap {st.table[i].addr : i \in Indices(st.table)}
      /\ mld' = IF mld # Inactive /\ mld.timeout = 0 THEN Inactive ELSE mld
      /\ UNCHANGED << addrs, changes >>

Sooner(report) == IF report = Inactive THEN report ELSE [report EXCEPT !.timeout = Greatest(@ - 1, 0)]

MulticastElapse ==
  /\ igmp' = Sooner(igmp) /\ mld' = Sooner(mld)
  /\ UNCHANGED << addrs, groups, announced, unannounced, owed, shuffled, changes >>

MulticastInit ==
  /\ addrs \in SUBSET Addrs4 /\ groups = << >> /\ igmp = Inactive /\ mld = Inactive
  /\ announced = {} /\ unannounced = {} /\ owed = {} /\ shuffled = FALSE /\ changes = 0

MulticastNext ==
  \/ \E g \in Groups4 \cup Groups6 : JoinMulticastGroup(g) \/ LeaveMulticastGroup(g)
  \/ \E as \in SUBSET (Addrs4 \cup Addrs6) : UpdateIpAddrs(as)
  \/ \E interval \in Delays : IgmpGeneralQuery(interval)
  \/ \E g \in Groups4, delay \in Delays : IgmpSpecificQuery(g, delay)
  \/ \E g \in Groups6 \cup {"all"}, delay \in Delays : MldQuery(g, delay)
  \/ \E joins \in Tokens("Joining"), leaves \in Tokens("Leaving"), token \in BOOLEAN, wait \in Waits :
       MulticastEgress(joins, leaves, token, wait)
  \/ MulticastElapse

-----------------------------------------------------------------------------


=============================================================================

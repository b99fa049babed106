------------------------------ MODULE Services ------------------------------
(***************************************************************************)
(* The clients of network services side by side: DHCP, DNS, group          *)
(* membership and RPL share nothing but the interface, so each behaviour   *)
(* exercises one of them while the others rest.                            *)
(***************************************************************************)
EXTENDS Dhcpv4, Dns, Multicast, Rpl

VARIABLE which

serviceVars == << dhcpVars, dnsVars, multicastVars, rplVars, which >>

OnlyDhcp == which = "dhcp" /\ UNCHANGED << dnsVars, multicastVars, rplVars, which >>

OnlyDns == which = "dns" /\ UNCHANGED << dhcpVars, multicastVars, rplVars, which >>

OnlyMulticast == which = "multicast" /\ UNCHANGED << dhcpVars, dnsVars, rplVars, which >>

OnlyRpl(part) == which = part /\ UNCHANGED << dhcpVars, dnsVars, multicastVars, which >>

\* What rests begins in one state only.
Rests ==
  /\ which # "dhcp" => transaction_id = CHOOSE id \in TransactionIds : TRUE
  /\ which # "dns" => servers = CHOOSE list \in ServerLists : TRUE
  /\ which # "multicast" => addrs = {}
  /\ which # "trickle" => trickle.t_exp = IMin

Init ==
  /\ which \in {"dhcp", "dns", "multicast", "trickle", "tables", "counter"}
  /\ DhcpInit /\ DnsInit /\ MulticastInit /\ RplInit
  /\ Rests

Next ==
  \/ OnlyDhcp /\ DhcpNext
  \/ OnlyDns /\ DnsNext
  \/ OnlyMulticast /\ MulticastNext
  \/ OnlyRpl("trickle") /\ TrickleNext
  \/ OnlyRpl("tables") /\ TablesNext
  \/ OnlyRpl("counter") /\ CounterNext

\* The application polls the interface again and again, with room in the device
\* now and then, and time passes; DHCP servers answer what reaches them, and
\* the application asks for the configuration.
Fairness ==
  /\ WF_serviceVars(\/ OnlyDhcp /\ \E xid \in TransactionIds : DhcpDispatch(TRUE, xid)
                    \/ OnlyDns /\ DnsDispatch(TRUE))
  /\ WF_serviceVars((OnlyDhcp /\ DhcpElapse) \/ (OnlyDns /\ DnsElapse))
  /\ WF_serviceVars(OnlyDhcp /\ DhcpServe)
  /\ WF_serviceVars(OnlyDhcp /\ DhcpIngress)
  /\ WF_serviceVars(OnlyDhcp /\ DhcpPoll)

Spec == Init /\ [][Next]_serviceVars /\ Fairness

\* No client floods the device: after two polls of the DHCP client, and as many
\* of the DNS client as it has slots, poll_at() lies in the future.
ClientsRest == DhcpRests /\ DnsRests

\* The client of this behaviour is configured again and again.
DhcpConfigured == which = "dhcp" => ConfiguredAgain

=============================================================================

--------------------------------- MODULE Dns --------------------------------
(***************************************************************************)
(* The DNS client (socket/dns.rs): queries in slots, servers tried in      *)
(* turn, retransmissions, and responses that come late, twice or not at    *)
(* all, out of order, and with records nobody has asked for.  Instants     *)
(* are kept as the time that is left until them.  A name is a value, and   *)
(* an A or AAAA record holds the address << name >> of its owner.          *)
(***************************************************************************)
EXTENDS Numbers, Sequences

CONSTANTS
  SlotCount,                 \* of queries
  Names,                     \* what is asked for
  Alias,                     \* CNAME of a name, or the name itself
  MdnsNames,                 \* those that end in .local
  ServerLists,               \* the lists update_servers() is called with
  MdnsServers,               \* MDNS_IPV6_ADDR, MDNS_IPV4_ADDR
  Unspecified, Unroutable,   \* an invalid server, and one that no own address can reach
  Records,                   \* answer sections that servers send
  MaxResults,                \* DNS_MAX_RESULT_COUNT
  QueryIds,                  \* pairs of a port and a transaction id
  RetransmitDelay, MaxRetransmitDelay, RetransmitTimeout,
  MaxQueries                 \* that are started

ASSUME DnsAssumption ==
  /\ SlotCount \in Nat /\ MaxResults \in Nat \ {0} /\ MaxQueries \in Nat
  /\ RetransmitDelay \in Nat \ {0} /\ MaxRetransmitDelay \in Nat \ {0} /\ RetransmitTimeout \in Nat
  /\ MdnsNames \subseteq Names

VARIABLES
  servers,
  queries,      \* the slots
  asked,        \* the names that the slots were last used for
  sent,         \* requests that may be answered, now or later, once or again
  started,      \* number of queries so far
  dnsPolls      \* polls at the present time that met a willing device

dnsVars == << servers, queries, asked, sent, started, dnsPolls >>

QuerySlot == 1 .. SlotCount

Free == [state |-> "Free"]

Failure == [state |-> "Failure"]

Completed(addresses) == [state |-> "Completed", addresses |-> addresses]

\* A name that copy_name() has left unfinished.  It equals no other.
Broken == "broken"

NotSet == -2

Pending(name, id) ==
  [state |-> "Pending", name |-> name, id |-> id, delay |-> RetransmitDelay,
   timeout_at |-> NotSet, retransmit_at |-> 0, server_idx |-> 1, mdns |-> name \in MdnsNames]

IsPending(q) == q.state = "Pending"

\* poll_at(): the time that is left, if a query is pending.
DnsDue == \E s \in QuerySlot : IsPending(queries[s]) /\ queries[s].retransmit_at = 0

-----------------------------------------------------------------------------
(* The application.                                                        *)

\* start_query() and start_query_raw(): the first free slot.
StartQuery(s, name, id) ==
  /\ started < MaxQueries /\ started' = started + 1
  /\ queries[s] = Free /\ \A t \in 1 .. (s - 1) : queries[t] # Free
  /\ queries' = [queries EXCEPT ![s] = Pending(name, id)]
  /\ asked' = [asked EXCEPT ![s] = name]
  /\ dnsPolls' = 0
  /\ UNCHANGED << servers, sent >>

\* get_query_result() of a query that is done.
GetQueryResult(s) ==
  /\ queries[s].state \in {"Completed", "Failure"}
  /\ queries' = [queries EXCEPT ![s] = Free]
  /\ UNCHANGED << servers, asked, sent, started, dnsPolls >>

CancelQuery(s) ==
  /\ queries[s] # Free
  /\ queries' = [queries EXCEPT ![s] = Free]
  /\ UNCHANGED << servers, asked, sent, started, dnsPolls >>

UpdateServers(list) ==
  /\ servers' = list
  /\ UNCHANGED << queries, asked, sent, started, dnsPolls >>

-----------------------------------------------------------------------------
(* Responses.                                                              *)

\* accepts(): a response of one of the servers, or of any host that speaks mDNS.
Accepts(request) == request.mdns \/ \E i \in DOMAIN servers : servers[i] = request.server

\* What the query looks like after i records.  A CNAME is followed from there on;
\* a record that cannot be parsed ends it all.
\* Mutant of TakeRecord: the owner of an address is not looked at.
TakeRecordOfAnyone(q, record) ==
  IF record.kind = "Malformed" THEN [q EXCEPT !.failed = TRUE]
  ELSE IF record.kind = "A" /\ Len(q.addresses) < MaxResults
    THEN [q EXCEPT !.addresses = Append(@, << record.name >>)]
  ELSE IF record.kind = "Cname" /\ record.name = q.name THEN [q EXCEPT !.name = record.target]
  ELSE q

TakeRecord(q, record) ==
  IF record.kind = "Malformed" THEN [q EXCEPT !.failed = TRUE]
  ELSE IF record.name # q.name THEN q
  ELSE IF record.kind = "A"
    THEN IF Len(q.addresses) < MaxResults
           THEN [q EXCEPT !.addresses = Append(@, << record.name >>)] ELSE q
  ELSE IF record.kind = "Cname"
    THEN [q EXCEPT !.name = record.target, !.failed = (record.target = Broken)]
  ELSE q

TakeRecords(name, records) ==
  LET after[i \in 0 .. Len(records)] ==
        IF i = 0 THEN [name |-> name, addresses |-> << >>, failed |-> FALSE]
        ELSE IF after[i - 1].failed THEN after[i - 1]
        ELSE TakeRecord(after[i - 1], records[i])
  IN  after[Len(records)]

\* The query after a response with these records.
Answered(q, records) ==
  LET taken == TakeRecords(q.name, records)
  IN  IF taken.failed THEN [q EXCEPT !.name = taken.name]
      ELSE IF taken.addresses = << >> THEN Failure
      ELSE Completed(taken.addresses)

Matches(q, request) == IsPending(q) /\ q.id = request.id

\* The query that a response is for: the first one with its port and id.
Matching(request) ==
  {s \in QuerySlot : /\ Matches(queries[s], request)
                     /\ \A t \in 1 .. (s - 1) : ~ Matches(queries[t], request)}

\* process() of a response that says NXDomain: every query with the id fails.
DnsProcessNxDomain(request) ==
  /\ Accepts(request) /\ Matching(request) # {}
  /\ queries' = [s \in QuerySlot |-> IF Matches(queries[s], request) THEN Failure ELSE queries[s]]
  /\ UNCHANGED << servers, asked, sent, started, dnsPolls >>

\* The question is the one that the query asks now.
SameQuestion(q, request) == q.name = request.name /\ q.name # Broken

\* process() of a response to this request.  Packets that are malformed, not
\* responses or not with one question are dropped, as if lost.
DnsProcess(request, records) ==
  /\ Accepts(request)
  /\ \E s \in Matching(request) :
       /\ SameQuestion(queries[s], request)
       /\ queries' = [queries EXCEPT ![s] = Answered(@, records)]
  /\ UNCHANGED << servers, asked, sent, started, dnsPolls >>

-----------------------------------------------------------------------------
(* Requests.                                                               *)

ServersOf(q) == IF q.mdns THEN MdnsServers ELSE servers

\* Mutant of TimedOut: a server that does not answer is asked for ever.
TimedOutNever(q) == [q EXCEPT !.timeout_at = RetransmitTimeout]

\* The first dispatch sets the time-out; when it has passed the next server gets its turn.
TimedOut(q) ==
  IF q.timeout_at = NotSet THEN [q EXCEPT !.timeout_at = RetransmitTimeout]
  ELSE IF q.timeout_at = -1
    THEN [q EXCEPT !.timeout_at = RetransmitTimeout, !.retransmit_at = 0,
                   !.delay = RetransmitDelay, !.server_idx = @ + 1]
  ELSE q

OutOfServers(q) ==
  \/ q.server_idx > Len(ServersOf(q))
  \/ ServersOf(q)[q.server_idx] = Unspecified

NoSource(q) == ServersOf(q)[q.server_idx] = Unroutable

Retransmitted(q) ==
  [q EXCEPT !.retransmit_at = q.delay, !.delay = Least(MaxRetransmitDelay, 2 * @)]

Request(q) ==
  [id |-> q.id, name |-> q.name, mdns |-> q.mdns, server |-> ServersOf(q)[q.server_idx]]

\* dispatch() as far as slot s: it ends with the first request, also when the
\* device or the neighbor cache refuses that.
DispatchSlot(st, s, token) ==
  LET q == TimedOut(st.queries[s])
  IN  IF st.done \/ ~ IsPending(st.queries[s]) THEN st
      ELSE IF OutOfServers(q) THEN [st EXCEPT !.queries[s] = Failure]
      ELSE IF q.retransmit_at > 0 THEN [st EXCEPT !.queries[s] = q]
      ELSE IF NoSource(q) THEN [st EXCEPT !.queries[s] = Failure]
      ELSE IF ~ token THEN [st EXCEPT !.queries[s] = q, !.done = TRUE]
      ELSE [queries |-> [st.queries EXCEPT ![s] = Retransmitted(q)], done |-> TRUE,
            sent |-> st.sent \cup {Request(q)}]

DnsDispatch(token) ==
  LET after[s \in 0 .. SlotCount] ==
        IF s = 0 THEN [queries |-> queries, done |-> FALSE, sent |-> sent]
        ELSE DispatchSlot(after[s - 1], s, token)
  IN  /\ queries' = after[SlotCount].queries
      /\ sent' = after[SlotCount].sent
      /\ dnsPolls' = IF token THEN Least(dnsPolls + 1, SlotCount) ELSE dnsPolls
      /\ UNCHANGED << servers, asked, started >>

Later(q) ==
  IF ~ IsPending(q) THEN q
  ELSE [q EXCEPT !.timeout_at = IF @ = NotSet THEN @ ELSE Greatest(@ - 1, -1),
                 !.retransmit_at = Greatest(@ - 1, 0)]

DnsElapse ==
  /\ queries' = [s \in QuerySlot |-> Later(queries[s])]
  /\ dnsPolls' = 0
  /\ UNCHANGED << servers, asked, sent, started >>

DnsInit ==
  /\ servers \in ServerLists
  /\ queries = [s \in QuerySlot |-> Free] /\ asked = [s \in QuerySlot |-> Broken]
  /\ sent = {} /\ started = 0 /\ dnsPolls = 0

DnsNext ==
  \/ \E s \in QuerySlot, name \in Names, id \in QueryIds : StartQuery(s, name, id)
  \/ \E s \in QuerySlot : GetQueryResult(s) \/ CancelQuery(s)
  \/ \E list \in ServerLists : UpdateServers(list)
  \/ \E request \in sent : DnsProcessNxDomain(request)
  \/ \E request \in sent, records \in Records : DnsProcess(request, records)
  \/ \E token \in BOOLEAN : DnsDispatch(token)
  \/ DnsElapse

-----------------------------------------------------------------------------
\* The names that an answer for this name may speak of.
Chain(name) == {name, Alias[name], Alias[Alias[name]]}

\* A query is completed with addresses of the name that was asked for, or of
\* what that is an alias of: whatever else a response holds, to whichever
\* earlier query of the slot or of another one with the same port and id it was.
OwnAnswer ==
  \A s \in QuerySlot : queries[s].state = "Completed" =>
    \A i \in DOMAIN queries[s].addresses : queries[s].addresses[i][1] \in Chain(asked[s])

\* After as many polls as there are slots no query is due: one request leaves
\* with every poll, and the others are not forgotten.
DnsRests == dnsPolls = SlotCount => ~ DnsDue

\* Every query ends, answered or not: no server, a silent one, a device that is
\* busy and other queries cannot keep it pending for ever.
QueryEnds == \A s \in QuerySlot : IsPending(queries[s]) ~> ~ IsPending(queries[s])

=============================================================================

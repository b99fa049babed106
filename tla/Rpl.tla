--------------------------------- MODULE Rpl --------------------------------
(***************************************************************************)
(* The parts of RPL in iface/rpl: the Trickle timer, the set of parents    *)
(* with its ranks, the table of relations and the sequence counters.       *)
(* Instants are kept as the time that is left until them.                  *)
(***************************************************************************)
EXTENDS Numbers, Sequences

CONSTANTS
  IMin, IMax,          \* the shortest and the longest interval, 2^i_min and 2^i_max ms
  Redundancy,          \* k
  Nodes,               \* addresses
  RankValues,          \* that neighbours announce
  MinHopRankIncrease,
  ParentCap,           \* RPL_PARENTS_BUFFER_COUNT
  RelationCap,         \* RPL_RELATIONS_BUFFER_COUNT
  Lifetimes,           \* of relations
  MaxIncrements        \* of a sequence counter, from its first value

ASSUME RplAssumption ==
  /\ IMin \in Nat \ {0} /\ IMax \in Nat /\ IMin <= IMax /\ IMin % 2 = 0
  /\ Redundancy \in Nat /\ MinHopRankIncrease \in Nat \ {0}
  /\ ParentCap \in Nat \ {0} /\ RelationCap \in Nat
  /\ RankValues \subseteq Nat /\ Lifetimes \subseteq Nat /\ MaxIncrements \in Nat

VARIABLES
  trickle,      \* the timer
  quiet,        \* time since it has signalled a message, up to IMax
  parents,      \* the map, as a sequence
  relations,
  sequence,     \* the value of a SequenceCounter
  remembered,   \* its value as another node remembers it
  increments,   \* of the counter so far
  lag           \* increments since then

counterVars == << sequence, remembered, increments, lag >>

rplVars == << trickle, quiet, parents, relations, counterVars >>

-----------------------------------------------------------------------------
(* Trickle.                                                                *)

\* set_t(): somewhere in the second half of an interval.
SetT(i) == (i \div 2) .. i

\* can_transmit() and t_expired(), i_expired().
CanTransmit == Redundancy # 0 /\ trickle.counter < Redundancy


\* The draws of t after a message in an interval of length i.
NextT(i) == SetT(i)

\* expire(): the interval is doubled.
Doubled == IF trickle.i >= IMax THEN IMax ELSE 2 * trickle.i

Reset(i, t) == [i |-> i, i_exp |-> i, t_exp |-> t, counter |-> 0]

\* poll(): whether it signals a message, then the end of the interval.
TricklePoll ==
  LET signals == CanTransmit /\ trickle.t_exp = 0
  IN  /\ quiet' = IF signals THEN 0 ELSE quiet
      /\ IF trickle.i_exp = 0
           THEN \E t \in SetT(Doubled) : trickle' = Reset(Doubled, t)
           ELSE \E t \in NextT(trickle.i) : trickle' = IF signals THEN [trickle EXCEPT !.t_exp = t] ELSE trickle
      /\ UNCHANGED << parents, relations, counterVars >>

\* hear_consistent(): beyond the redundancy the number does not matter.
HearConsistent ==
  /\ trickle' = [trickle EXCEPT !.counter = Least(@ + 1, Redundancy)]
  /\ UNCHANGED << quiet, parents, relations, counterVars >>

HearInconsistency ==
  /\ trickle.i > IMin
  /\ \E t \in SetT(IMin) : trickle' = Reset(IMin, t)
  /\ UNCHANGED << quiet, parents, relations, counterVars >>

TrickleElapse ==
  /\ trickle' = [trickle EXCEPT !.t_exp = Greatest(@ - 1, 0), !.i_exp = Greatest(@ - 1, 0)]
  /\ quiet' = Least(quiet + 1, IMax)
  /\ UNCHANGED << parents, relations, counterVars >>

-----------------------------------------------------------------------------
(* Parents, by rank.rs, of0.rs and parents.rs.                             *)

DagRank(value) == value \div MinHopRankIncrease

Ranks(set) == {DagRank(set[i].rank) : i \in DOMAIN set}

\* worst_parent(): the last of those with the highest rank.
WorstParent(set) ==
  CHOOSE i \in DOMAIN set : \A j \in DOMAIN set :
    \/ DagRank(set[j].rank) < DagRank(set[i].rank)
    \/ DagRank(set[j].rank) = DagRank(set[i].rank) /\ j <= i

\* The last entry takes the place of the removed one.
SwapRemove(s, i) == SubSeq([s EXCEPT ![i] = s[Len(s)]], 1, Len(s) - 1)

\* ParentSet::add().
AddParent(address, rank) ==
  LET entry == [addr |-> address, rank |-> rank]
      known == {i \in DOMAIN parents : parents[i].addr = address}
      worst == WorstParent(parents)
  IN  /\ \/ known # {} /\ \E i \in known : parents' = [parents EXCEPT ![i] = entry]
         \/ known = {} /\ Len(parents) < ParentCap /\ parents' = Append(parents, entry)
         \/ /\ known = {} /\ Len(parents) = ParentCap
            /\ DagRank(parents[worst].rank) > DagRank(rank)
            /\ parents' = Append(SwapRemove(parents, worst), entry)
      /\ UNCHANGED << trickle, quiet, relations, counterVars >>

-----------------------------------------------------------------------------
(* Relations.                                                              *)

AddRelation(dest, hop, expires) ==
  LET entry == [dest |-> dest, hop |-> hop, expires |-> expires]
      known == {i \in DOMAIN relations : relations[i].dest = dest}
  IN  /\ \/ known # {} /\ \E i \in known : relations' = [relations EXCEPT ![i] = entry]
         \/ known = {} /\ Len(relations) < RelationCap /\ relations' = Append(relations, entry)
      /\ UNCHANGED << trickle, quiet, parents, counterVars >>

RemoveRelation(dest) ==
  /\ relations' = SelectSeq(relations, LAMBDA r : r.dest # dest)
  /\ UNCHANGED << trickle, quiet, parents, counterVars >>

RelationsElapse ==
  /\ relations' = [i \in DOMAIN relations |-> [relations[i] EXCEPT !.expires = Greatest(@ - 1, 0)]]
  /\ UNCHANGED << trickle, quiet, parents, counterVars >>

Purge ==
  /\ relations' = SelectSeq(relations, LAMBDA r : r.expires > 0)
  /\ UNCHANGED << trickle, quiet, parents, counterVars >>

-----------------------------------------------------------------------------
(* Sequence counters, by lollipop.rs.                                      *)

SequenceWindow == 16

Increment(value) == IF value >= 128 THEN (value + 1) % 256 ELSE (value + 1) % 128

\* partial_cmp() is Greater.
GreaterThan(a, b) ==
  IF a < 128 /\ b >= 128 THEN 256 + a - b <= SequenceWindow
  ELSE IF a >= 128 /\ b < 128 THEN ~ (256 + b - a <= SequenceWindow)
  ELSE a > b /\ a - b <= SequenceWindow

\* The counter advances, by at most a window beyond what others remember.
Advance ==
  /\ increments < MaxIncrements /\ increments' = increments + 1
  /\ lag < SequenceWindow /\ lag' = lag + 1
  /\ sequence' = Increment(sequence)
  /\ UNCHANGED << trickle, quiet, parents, relations, remembered >>

Remember ==
  /\ remembered' = sequence /\ lag' = 0
  /\ UNCHANGED << trickle, quiet, parents, relations, sequence, increments >>

-----------------------------------------------------------------------------
RplInit ==
  /\ \E t \in SetT(IMin) : trickle = Reset(IMin, t)
  /\ quiet = IMax /\ parents = << >> /\ relations = << >>
  /\ sequence = 240 /\ remembered = 240 /\ increments = 0 /\ lag = 0

TrickleNext == TricklePoll \/ HearConsistent \/ HearInconsistency \/ TrickleElapse

TablesNext ==
  \/ \E n \in Nodes, value \in RankValues : AddParent(n, value)
  \/ \E d, h \in Nodes, e \in Lifetimes : AddRelation(d, h, e)
  \/ \E d \in Nodes : RemoveRelation(d)
  \/ Purge \/ RelationsElapse

CounterNext == Advance \/ Remember

\* Messages keep half of the shortest interval between them: when poll() is
\* about to signal one, that long ago was the last, whatever was heard in
\* between and however late the timer is polled.
MessagesSpaced == CanTransmit /\ trickle.t_exp = 0 => quiet >= IMin \div 2

\* The addresses in a table.
Members(set) == {set[i].addr : i \in DOMAIN set}

\* A parent is given up only when the set is full, for a better one, and never
\* one while a worse one is kept, so that the preferred parent stays.
WorstGivenUp ==
  \A i \in DOMAIN parents : parents[i].addr \notin Members(parents') =>
    \A rank \in Ranks(parents') : rank <= DagRank(parents[i].rank)

\* A counter that has advanced by no more than a window is greater than what
\* another node remembers of it, and that is not greater than the counter.
NewerIsGreater ==
  lag > 0 => GreaterThan(sequence, remembered) /\ ~ GreaterThan(remembered, sequence)


=============================================================================

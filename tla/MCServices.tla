----------------------------- MODULE MCServices -----------------------------
EXTENDS Services

SmallGrants ==
  {[lease |-> 3, renew |-> None, rebind |-> None], [lease |-> None, renew |-> 1, rebind |-> 3]}

\* "x" is an alias of "y".
SmallAlias == [name \in {"x", "y", "z", "broken"} |-> IF name = "x" THEN "y" ELSE name]

SmallLists == {<< "s1", "s2" >>, << "unspecified" >>}

SmallMdns == << "m6" >>

OfA(name) == [kind |-> "A", name |-> name]

OfCname(name, target) == [kind |-> "Cname", name |-> name, target |-> target]

SmallRecords ==
  {<< OfCname("x", "y"), OfA("z"), OfA("y") >>,
   << OfA("z"), OfA("x") >>,
   << OfCname("x", Broken) >>,
   << OfCname("x", "y"), [kind |-> "Malformed"] >>,
   << [kind |-> "Other", name |-> "x"], OfA("y"), OfA("y") >>}

SmallSolicited == [a \in {"fe80"} |-> "s"]

=============================================================================

------------------------------ MODULE MCMidclt ------------------------------
EXTENDS Midclt

Line(what) ==
  [what |-> what, valid |-> TRUE, credentials |-> FALSE, number |-> 0, timed |-> FALSE, bar |-> FALSE]

MCCommands ==
  {Line("usage"), Line("ping"), [Line("call") EXCEPT !.valid = FALSE]}
  \cup {[Line("call") EXCEPT !.credentials = c, !.timed = t] : c, t \in BOOLEAN}
  \cup {[Line("job") EXCEPT !.credentials = c, !.timed = c, !.bar = b] : c, b \in BOOLEAN}
  \cup {[Line("subscribe") EXCEPT !.number = n, !.timed = t] : n \in {0, 1, 2, 3}, t \in BOOLEAN}
=============================================================================

------------------------------- MODULE MCAgent -------------------------------
(* An instance of Agent for TLC: files that leave the settings out, that ask *)
(* for more connections than there may be, or that set a clock back, and a   *)
(* Control Plane that serves everything or nothing.                         *)
EXTENDS Agent

Unset    == [poolSize |-> 0, poolSizeMax |-> 0, githubRepo |-> FALSE, heartbeatInterval |-> 0]
TooMany  == [Unset EXCEPT !.poolSize = 100]
TooFew   == [Unset EXCEPT !.poolSizeMax = 2]
Backward == [Unset EXCEPT !.heartbeatInterval = -1]
Complete == [poolSize |-> 2, poolSizeMax |-> 4, githubRepo |-> TRUE, heartbeatInterval |-> 30]

SomeFiles ==
    [full : {TRUE}, settings : {Unset, TooMany, TooFew, Backward}]
    \cup [full : {FALSE}, settings : {Unset}]
SomeServed == {Unset, Complete}
=============================================================================

---------------------------- MODULE MCSessionSync ----------------------------
(* Instances of SessionSync for TLC: sessions with AS numbers of their own, *)
(* or all with the same one.                                                *)
EXTENDS SessionSync

OwnAsn  == [s \in Sessions |-> s]
SameAsn == [s \in Sessions |-> "AS64512"]
=============================================================================

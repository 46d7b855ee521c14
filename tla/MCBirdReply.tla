----------------------------- MODULE MCBirdReply -----------------------------
(* Instances of BirdReply and PeerRestart for TLC.                         *)
EXTENDS PeerRestart, TLC

(* Some replies to "show protocols all" and "show route ... all" have lines *)
(* that are indented beyond the fifth column.                               *)
Indented ==
    [command \in {"show", "configure", "disable", "enable"} |->
        CASE command = "show"      -> {<<"last">>, <<"text", "indented", "text", "last">>}
          [] command = "configure" -> {<<"info", "done">>, <<"info", "error">>, <<"error">>}
          [] OTHER                 -> {<<"text", "last">>}]

Symmetry == Permutations(Clients) \cup Permutations(Conns)
=============================================================================

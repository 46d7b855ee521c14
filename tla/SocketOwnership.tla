-------------------------- MODULE SocketOwnership --------------------------
(***************************************************************************)
(* What the connection pool of internal/bird/pool.go promises about the    *)
(* sockets, without channels, locks or control points: a socket is closed, *)
(* in the pool, or owned by one client, which owns no other; ownership     *)
(* moves one socket at a time; and once the pool is shut nothing enters it *)
(* any more, so it can be emptied for good.                                *)
(***************************************************************************)
CONSTANTS Clients, Conns,
          Pool,      \* owner of an idle socket
          Closed     \* "owner" of a socket that is not open

VARIABLES owner, shut

vars == <<owner, shut>>

Init ==
    /\ owner = [k \in Conns |-> Closed]
    /\ shut = FALSE

EmptyHanded(c) == \A k \in Conns : owner[k] # c

Move(k, from, to) ==
    /\ owner[k] = from
    /\ owner' = [owner EXCEPT ![k] = to]
    /\ UNCHANGED shut

Prefill(k)       == ~shut /\ Move(k, Closed, Pool)
Open(c, k)       == EmptyHanded(c) /\ Move(k, Closed, c)
Take(c, k)       == EmptyHanded(c) /\ Move(k, Pool, c)
Give(c, k)       == ~shut /\ Move(k, c, Pool)
HandOff(c, d, k) == ~shut /\ EmptyHanded(d) /\ Move(k, c, d)
Drop(c, k)       == Move(k, c, Closed)
Evict(k)         == shut /\ Move(k, Pool, Closed)

(* Shutting the pool, emptying it at once or leaving that to Evict.        *)
Shut ==
    /\ ~shut
    /\ shut' = TRUE
    /\ \/ UNCHANGED owner
       \/ owner' = [k \in Conns |-> IF owner[k] = Pool THEN Closed ELSE owner[k]]

Next ==
    \/ Shut
    \/ \E k \in Conns :
          \/ Prefill(k) \/ Evict(k)
          \/ \E c \in Clients :
                \/ Open(c, k) \/ Take(c, k) \/ Give(c, k) \/ Drop(c, k)
                \/ \E d \in Clients \ {c} : HandOff(c, d, k)

Spec == Init /\ [][Next]_vars
=============================================================================

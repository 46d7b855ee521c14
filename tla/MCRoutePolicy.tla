---------------------------- MODULE MCRoutePolicy ----------------------------
(* Announcements that between them meet every branch of the import filter   *)
(* and of the choice of a preference.                                       *)
EXTENDS RoutePolicy

Advert(len, roa, comms) == [len |-> len, roa |-> roa, comms |-> comms]

SomeAdverts ==
    {Advert(1, TRUE, {1}), Advert(2, TRUE, {1}),      \* fast, and with a longer path
     Advert(1, TRUE, {1, 8}),                         \* contradictory
     Advert(1, TRUE, {}),                             \* unknown
     Advert(1, TRUE, {1, GRACEFUL_SHUTDOWN}),
     Advert(1, FALSE, {1}),                           \* not the holder
     Advert(3, TRUE, {1})}                            \* too long

(* One that is good, one that is worse, and one that is refused.           *)
FewAdverts ==
    {Advert(1, TRUE, {1}), Advert(1, TRUE, {1, GRACEFUL_SHUTDOWN}), Advert(1, FALSE, {1})}
=============================================================================

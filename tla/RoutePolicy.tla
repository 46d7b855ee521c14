----------------------------- MODULE RoutePolicy -----------------------------
(***************************************************************************)
(* The routing policy the agents render for BIRD, at work on the routers   *)
(* of the network: the filters of internal/task/bird_config_sync.go        *)
(* (filters.conf, bird.conf), the eBGP sessions of internal/bird/config.go *)
(* and the iBGP sessions of internal/task/ibgp_sync.go.                    *)
(*                                                                         *)
(* One prefix is followed.  Every router hears of it from a foreign        *)
(* neighbour, or announces it itself if it is our aggregate, chooses one   *)
(* route, and tells the other routers, each over a session on which at     *)
(* most one update is under way.  BGP itself (preference, selection,       *)
(* no iBGP-learned route to iBGP peers) is not code of the repository and  *)
(* is modelled as BIRD does it.  Route reflection is left out.             *)
(***************************************************************************)
EXTENDS Naturals, FiniteSets, FiniteSetsExt

CONSTANTS Nodes,        \* our routers, their IDs
          ASPathMaxLen, \* Policy.ASPathMaxLen
          Adverts,      \* what a foreign neighbour may announce
          NoRoute,
          Internal,     \* iBGP sessions use the template dn42_internal (they do not)
          MaxChanges    \* bound on what changes from outside

(* A community is its second number, (65535, 0) its first.                 *)
LATENCY_3 == 4
Tiers == 1..9                          \* DN42_LATENCY_0 .. DN42_LATENCY_8
CRYPTO_ENCRYPTED == 33
OUR_REGION == 50
OUR_BANDWIDTH == 23
GRACEFUL_SHUTDOWN == 65535

(* add_self_origin_communities                                             *)
SelfOrigin == {OUR_REGION, OUR_BANDWIDTH, CRYPTO_ENCRYPTED, LATENCY_3}

Communities == Tiers \cup SelfOrigin \cup {GRACEFUL_SHUTDOWN}

(* A route as a router holds it: what it is and whom it is from, where it   *)
(* came in, its path, whether its origin is the holder, its communities now *)
(* and as they were announced, where it was accepted, its local preference. *)
(* (heard and accepted are history: the latter is LC_ACCEPTED_HERE, which    *)
(* BIRD announces like any other large community and no filter reads.)      *)
Routes == [source : {"static", "bgp"}, via : Nodes, entry : Nodes, len : 0..ASPathMaxLen,
           roa : BOOLEAN, comms : SUBSET Communities, heard : SUBSET Communities,
           accepted : SUBSET Nodes, pref : 0..260]

ASSUME PolicyAssumption ==
    /\ Nodes \subseteq Nat
    /\ ASPathMaxLen \in Nat
    /\ Adverts \subseteq [len : Nat \ {0}, roa : BOOLEAN, comms : SUBSET Communities]
    /\ NoRoute \notin Routes \cup Adverts
    /\ Internal \in BOOLEAN
    /\ MaxChanges \in Nat

VARIABLES
    net,          \* the prefix: somebody's, our own aggregate, or none of DN42's
    adv,          \* what each router's neighbour announces
    sent,         \* sent[m][n]: the last update m sent to n
    rib,          \* rib[n][m]: the last update n has received from m
    maintenance,  \* routers whose MAINTENANCE_MODE is true
    changes

policyVars == <<net, adv, sent, rib, maintenance, changes>>

-----------------------------------------------------------------------------
(* filters.conf *)

is_valid_dn42_prefix == net \in {"foreign", "own"}

Preference(tier) == <<260, 250, 240, 230, 220, 210, 200, 150, 100>>[tier]

(* update_local_pref_from_latency: each assignment overrides those before.  *)
LocalPref(comms) ==
    IF GRACEFUL_SHUTDOWN \in comms THEN 0
    ELSE IF comms \cap Tiers = {} THEN 100
    ELSE Preference(Max(comms \cap Tiers))

(* Mutation: the origin is not checked against the ROA.                    *)
AcceptsAnyOrigin(a) == a.len <= ASPathMaxLen /\ is_valid_dn42_prefix

Accepts(a) == a.len <= ASPathMaxLen /\ is_valid_dn42_prefix /\ a.roa

(* dn42_import_filter: what n makes of its neighbour's announcement.       *)
EbgpImport(n) ==
    IF adv[n] = NoRoute \/ ~Accepts(adv[n]) THEN NoRoute
    ELSE [source |-> "bgp", via |-> n, entry |-> n, len |-> adv[n].len, roa |-> adv[n].roa,
          comms |-> adv[n].comms, heard |-> adv[n].comms,
          accepted |-> {n},                       \* LC_ACCEPTED_HERE
          pref |-> LocalPref(adv[n].comms)]

(* protocol static: the aggregate, as a blackhole.                         *)
StaticRoute(n) ==
    IF net # "own" THEN NoRoute
    ELSE [source |-> "static", via |-> n, entry |-> n, len |-> 0, roa |-> TRUE,
          comms |-> {}, heard |-> {}, accepted |-> {}, pref |-> 100]

(* Mutation: the communities go on whatever is exported.                   *)
TagAlways(route) == [route EXCEPT !.comms = @ \cup SelfOrigin]

(* (RTS_DEVICE, the prefix of an interface, would be treated alike.)        *)
TagSelfOrigin(route) ==
    IF route.source = "static" THEN [route EXCEPT !.comms = @ \cup SelfOrigin] ELSE route

(* dn42_export_filter, for the route that was chosen.                      *)
EbgpExport(route) ==
    IF route = NoRoute \/ ~is_valid_dn42_prefix THEN NoRoute ELSE TagSelfOrigin(route)

-----------------------------------------------------------------------------
(* iBGP: ibgpTemplate says "import where true; export where true", while    *)
(* dn42_internal of bird.conf signals and honours a graceful shutdown.      *)
IbgpExport(m, route) ==
    IF Internal /\ m \in maintenance THEN [route EXCEPT !.comms = @ \cup {GRACEFUL_SHUTDOWN}]
    ELSE route

(* Mutation: the preference is computed again, with the default for those   *)
(* that have no latency.                                                    *)
IbgpImportAnew(route) == [route EXCEPT !.pref = 100]

IbgpImport(route) ==
    IF Internal /\ GRACEFUL_SHUTDOWN \in route.comms THEN [route EXCEPT !.pref = 0]
    ELSE route

-----------------------------------------------------------------------------
(* Selection: a static route has preference 10 and BGP 100; among BGP's the *)
(* local preference, then the shorter path, then eBGP before iBGP, then the *)
(* lower router ID.                                                         *)
Candidates(n) ==
    ({EbgpImport(n), StaticRoute(n)}
        \cup {IbgpImport(rib[n][m]) : m \in {m \in Nodes \ {n} : rib[n][m] # NoRoute}})
    \ {NoRoute}

Better(n, r, s) ==
    \/ r.source = "bgp" /\ s.source = "static"
    \/ r.source = s.source /\
          \/ r.pref > s.pref
          \/ r.pref = s.pref /\ r.len < s.len
          \/ r.pref = s.pref /\ r.len = s.len /\ r.via = n /\ s.via # n
          \/ /\ r.pref = s.pref /\ r.len = s.len /\ (r.via = n <=> s.via = n)
             /\ r.via < s.via

Best(n) ==
    IF Candidates(n) = {} THEN NoRoute
    ELSE CHOOSE r \in Candidates(n) : \A s \in Candidates(n) : ~Better(n, s, r)

(* What m tells its iBGP peers: its choice, unless it has it from one.     *)
Told(m) ==
    LET best == Best(m)
    IN  IF best = NoRoute \/ best.via # m THEN NoRoute
        ELSE IbgpExport(m, [best EXCEPT !.source = "bgp"])

-----------------------------------------------------------------------------
PolicyTypeOK ==
    /\ net \in {"foreign", "own", "bogon"}
    /\ adv \in [Nodes -> Adverts \cup {NoRoute}]
    /\ sent \in [Nodes -> [Nodes -> Routes \cup {NoRoute}]]
    /\ rib \in [Nodes -> [Nodes -> Routes \cup {NoRoute}]]
    /\ maintenance \subseteq Nodes
    /\ changes \in 0..MaxChanges

Silence == [n \in Nodes |-> [m \in Nodes |-> NoRoute]]

PolicyInit ==
    /\ net \in {"foreign", "own", "bogon"}
    /\ adv \in [Nodes -> Adverts \cup {NoRoute}]
    /\ sent = Silence
    /\ rib = Silence
    /\ maintenance = {}
    /\ changes = 0

(* A session carries one update at a time, in order.                       *)
SendUpdate(m, n) ==
    /\ m # n
    /\ rib[n][m] = sent[m][n]
    /\ sent' = [sent EXCEPT ![m][n] = Told(m)]
    /\ sent' # sent
    /\ UNCHANGED <<net, adv, rib, maintenance, changes>>

ReceiveUpdate(m, n) ==
    /\ rib[n][m] # sent[m][n]
    /\ rib' = [rib EXCEPT ![n][m] = sent[m][n]]
    /\ UNCHANGED <<net, adv, sent, maintenance, changes>>

Change == changes < MaxChanges /\ changes' = changes + 1

Announce(n, a) ==
    /\ Change
    /\ adv' = [adv EXCEPT ![n] = a]
    /\ UNCHANGED <<net, sent, rib, maintenance>>

(* A session between two routers breaks and starts again with nothing.     *)
SessionResets(m, n) ==
    /\ Change
    /\ m # n
    /\ sent' = [sent EXCEPT ![m][n] = NoRoute, ![n][m] = NoRoute]
    /\ rib'  = [rib  EXCEPT ![m][n] = NoRoute, ![n][m] = NoRoute]
    /\ UNCHANGED <<net, adv, maintenance>>

(* maintenance.conf is rewritten and BIRD reloaded (module Maintenance).   *)
SetMaintenance(set) ==
    /\ Change
    /\ maintenance' = set
    /\ UNCHANGED <<net, adv, sent, rib>>

PolicyNext ==
    \/ \E m, n \in Nodes : SendUpdate(m, n) \/ ReceiveUpdate(m, n) \/ SessionResets(m, n)
    \/ \E n \in Nodes, a \in Adverts \cup {NoRoute} : Announce(n, a)
    \/ \E set \in SUBSET Nodes : SetMaintenance(set)

PolicySpec == PolicyInit /\ [][PolicyNext]_policyVars

(* Sessions deliver.                                                       *)
PolicyLiveSpec ==
    /\ PolicySpec
    /\ \A m, n \in Nodes : WF_policyVars(SendUpdate(m, n)) /\ WF_policyVars(ReceiveUpdate(m, n))

-----------------------------------------------------------------------------
(* Properties *)

Exported(n) == EbgpExport(Best(n))

(* Nothing leaves for a foreign neighbour that did not pass the import      *)
(* filter of the router where it came in, and of that one only: iBGP        *)
(* accepts everything, and the export filter checks the prefix alone.       *)
ExportsAreSound ==
    \A n \in Nodes :
        LET route == Exported(n)
        IN  route # NoRoute => /\ net # "bogon"
                               /\ route.roa /\ route.len <= ASPathMaxLen
                               /\ net = "foreign" => route.accepted = {route.entry}

(* filters.conf: "Never add region/crypto communities to foreign prefixes": *)
(* a foreign route leaves with the communities it came with, also when it   *)
(* has crossed the network.                                                 *)
ForeignUntouched ==
    net = "foreign" =>
        \A n \in Nodes : Exported(n) # NoRoute => Exported(n).comms = Exported(n).heard

(* The reference for a preference: the worst latency announced; a shutdown  *)
(* is worse than any, and an unknown latency as bad as the worst tier.      *)
Latency(comms) ==
    IF GRACEFUL_SHUTDOWN \in comms THEN 10
    ELSE IF comms \cap Tiers = {} THEN 9 ELSE Max(comms \cap Tiers)

(* When announcements come to rest, all routers send traffic for a foreign  *)
(* prefix out by the exit with the lowest latency, and by the shorter path  *)
(* where latencies are equal; and where one has a route, all have.          *)
Exits == {n \in Nodes : EbgpImport(n) # NoRoute}

BestExit(route) ==
    \A e \in Exits :
        LET other == EbgpImport(e)
        IN  \/ Latency(route.heard) < Latency(other.heard)
            \/ Latency(route.heard) = Latency(other.heard) /\ route.len <= other.len

ExitsConverge ==
    <>[](net = "foreign" /\ Exits # {} =>
            \A n \in Nodes : Best(n) # NoRoute /\ BestExit(Best(n)))

(* API.md:113: maintenance mode "drains BGP sessions": traffic comes to     *)
(* leave by another router when there is one with a route.                  *)
MaintenanceDrains ==
    <>[](net = "foreign" /\ Exits \ maintenance # {} =>
            \A n \in Nodes \ maintenance : Best(n) # NoRoute /\ Best(n).entry \notin maintenance)
=============================================================================

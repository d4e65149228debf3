------------------------------- MODULE AdsState ------------------------------
(***************************************************************************)
(* AdsState (crates/xds/src/client.rs): the subscriptions of one ADS       *)
(* stream and the resources received on it, the update a response makes to *)
(* them and the runtime configuration they stand for.                      *)
(*                                                                         *)
(* A BTreeMap is a function on the set of its keys; a vector of names that *)
(* sorted_unique made is the set of its names.  A response is              *)
(* [type_url, version_info, nonce, resources].                             *)
(***************************************************************************)
EXTENDS XdsConvert

TypeUrls == {"listener", "route", "cluster", "endpoint"}

EmptyMap == [n \in {} |-> None]

\* struct AdsState
State(subscriptions, listeners, routes, clusters, endpoints) ==
  [subscriptions |-> subscriptions, listeners |-> listeners, routes |-> routes,
   clusters |-> clusters, endpoints |-> endpoints]

\* AdsState::default
NewAdsState == State(EmptyMap, EmptyMap, EmptyMap, EmptyMap, EmptyMap)

subscription(ads, type_url) ==
  IF type_url \in DOMAIN ads.subscriptions THEN ads.subscriptions[type_url] ELSE {}

\* set_subscription returns whether this differs from what was subscribed.
Resubscribes(ads, type_url, names) ==
  ~ (type_url \in DOMAIN ads.subscriptions /\ ads.subscriptions[type_url] = names)

set_subscription(ads, type_url, names) ==
  [ads EXCEPT !.subscriptions =
     [t \in DOMAIN ads.subscriptions \cup {type_url} |->
        IF t = type_url THEN names ELSE ads.subscriptions[t]]]

-----------------------------------------------------------------------------
(* Responses                                                               *)

\* Mutant: no names requested prune nothing.
prune_named(map, requested) == [n \in DOMAIN map \ requested |-> map[n]]

prune_requested(map, requested) ==
  IF requested = {} THEN EmptyMap
  ELSE [n \in DOMAIN map \ requested |-> map[n]]

\* One insertion after another: of the resources kept, the last of a name stays.
Inserted(map, resources, kept, key(_), value(_)) ==
  LET keys == {key(resources[i]) : i \in kept}
      last(n) == Max({i \in kept : key(resources[i]) = n})
  IN  [n \in DOMAIN map \cup keys |-> IF n \in keys THEN value(resources[last(n)]) ELSE map[n]]

insert_listeners(map, resources) ==
  LET key(l) == l.name IN Inserted(map, resources, DOMAIN resources, key, listener_snapshot)

insert_routes(map, resources) ==
  LET key(r) == r.name
      value(r) == convert_virtual_hosts(r.virtual_hosts)
  IN  Inserted(map, resources, DOMAIN resources, key, value)

\* Clusters and assignments without a name are skipped.
Named(resources) == {i \in DOMAIN resources : resources[i].name # EmptyName}

insert_clusters(map, resources) ==
  LET key(c) == c.name IN Inserted(map, resources, Named(resources), key, cluster_snapshot)

\* A load assignment inside a cluster is stored with the endpoints at once.
insert_assigned(map, resources) ==
  LET inline == {i \in Named(resources) : resources[i].assignment # None}
      service(c) == cluster_snapshot(c).eds_service_name
      assigned(c) == endpoints_from_assignment(c.assignment[1])
  IN  Inserted(map, resources, inline, service, assigned)

insert_endpoints(map, resources) ==
  LET key(a) == a.name IN Inserted(map, resources, Named(resources), key, endpoints_from_assignment)

apply_listeners(ads, resources) ==
  State(ads.subscriptions,
        insert_listeners(prune_requested(ads.listeners, subscription(ads, "listener")), resources),
        ads.routes, ads.clusters, ads.endpoints)

apply_routes(ads, resources) ==
  State(ads.subscriptions, ads.listeners,
        insert_routes(prune_requested(ads.routes, subscription(ads, "route")), resources),
        ads.clusters, ads.endpoints)

apply_clusters(ads, resources) ==
  State(ads.subscriptions, ads.listeners, ads.routes,
        insert_clusters(prune_requested(ads.clusters, subscription(ads, "cluster")), resources),
        insert_assigned(ads.endpoints, resources))

apply_endpoints(ads, resources) ==
  State(ads.subscriptions, ads.listeners, ads.routes, ads.clusters,
        insert_endpoints(prune_requested(ads.endpoints, subscription(ads, "endpoint")), resources))

\* decode_resource succeeds on every resource (and connection manager); a
\* response of another type is not decoded at all.
Decodes(resp) ==
  CASE resp.type_url = "listener" ->
         \A i \in DOMAIN resp.resources : listener_decodes(resp.resources[i])
    [] resp.type_url \in TypeUrls \ {"listener"} ->
         \A i \in DOMAIN resp.resources : resp.resources[i].decodes
    [] OTHER -> TRUE

apply_response(ads, resp) ==
  CASE resp.type_url = "listener" -> apply_listeners(ads, resp.resources)
    [] resp.type_url = "route" -> apply_routes(ads, resp.resources)
    [] resp.type_url = "cluster" -> apply_clusters(ads, resp.resources)
    [] resp.type_url = "endpoint" -> apply_endpoints(ads, resp.resources)
    [] OTHER -> ads

-----------------------------------------------------------------------------
(* What the resources refer to                                             *)

VirtualHostClusters(vhosts) ==
  UNION {UNION {{vhosts[h].routes[r].weighted_clusters[d].name
                 : d \in DOMAIN vhosts[h].routes[r].weighted_clusters}
                : r \in DOMAIN vhosts[h].routes}
         : h \in DOMAIN vhosts}

route_names(ads) == UNION {ads.listeners[n].route_names : n \in DOMAIN ads.listeners}
cluster_names(ads) == UNION {VirtualHostClusters(ads.routes[n]) : n \in DOMAIN ads.routes}
eds_names(ads) == {ads.clusters[n].eds_service_name : n \in DOMAIN ads.clusters}

\* Mutant: the clusters that routes refer to are not reported.
DiscoveryUpdatesWithoutClusters(ads, type_url) ==
  LET updates == CASE type_url = "listener" -> {<<"route", route_names(ads)>>}
                   [] type_url = "cluster" -> {<<"endpoint", eds_names(ads)>>}
                   [] OTHER -> {}
  IN  {u \in updates : u[2] # {}}

\* DiscoveryUpdates::subscriptions after a response of a type: the type that
\* follows it with the names found, or nothing when there are none.
DiscoveryUpdates(ads, type_url) ==
  LET updates == CASE type_url = "listener" -> {<<"route", route_names(ads)>>}
                   [] type_url = "route" -> {<<"cluster", cluster_names(ads)>>}
                   [] type_url = "cluster" -> {<<"endpoint", eds_names(ads)>>}
                   [] OTHER -> {}
  IN  {u \in updates : u[2] # {}}

-----------------------------------------------------------------------------
(* The runtime configuration                                               *)

\* Two maps agree on a key.
SameAt(f, g, n) == (n \in DOMAIN f <=> n \in DOMAIN g) /\ (n \in DOMAIN f => f[n] = g[n])

\* BTreeMap::values
values(map) == InOrder(map, DOMAIN map)

runtime_config(ads, version) ==
  LET routed(name) == IF name \in DOMAIN ads.routes THEN ads.routes[name] ELSE <<>>
      listener(snapshot) ==
        [snapshot.listener EXCEPT !.virtual_hosts =
           snapshot.inline_virtual_hosts
             \o filter_map(routed, sorted_unique(snapshot.route_names))]
      upstream(c) ==
        [name |-> c.name,
         endpoints |-> IF c.eds_service_name \in DOMAIN ads.endpoints
                       THEN ads.endpoints[c.eds_service_name] ELSE <<>>,
         tls |-> c.tls]
      ls == values(ads.listeners)
      cs == values(ads.clusters)
  IN  [version |-> IF version = "" THEN "ads" ELSE version,
       listeners |-> [i \in DOMAIN ls |-> listener(ls[i])],
       clusters |-> [i \in DOMAIN cs |-> upstream(cs[i])]]

==============================================================================

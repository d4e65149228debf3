----------------------------- MODULE XdsConvert ------------------------------
(***************************************************************************)
(* From xDS resources to the runtime configuration: the conversions of     *)
(* crates/xds/src/client.rs.                                               *)
(*                                                                         *)
(* Resource names are numbers in the order of the strings, 0 being the     *)
(* empty one.  A resource, and every message packed inside one, says       *)
(* whether it decodes.                                                     *)
(*                                                                         *)
(*   listener   [decodes, name, address, port_in_name, managers]           *)
(*   manager    [decodes, specifier : "rds" | "inline" | "none",           *)
(*               route_config_name, virtual_hosts]                         *)
(*   route conf [decodes, name, virtual_hosts : <<[domains, routes], ..>>] *)
(*   route      [action : "route" | "non_forwarding" | "none",             *)
(*               specifier : "cluster" | "weighted" | "none",              *)
(*               clusters : <<[name, weight : Option], ...>>,              *)
(*               match : Option([path : Option([type, value]), headers])]  *)
(*   cluster    [decodes, name, authority : Option, service_name,          *)
(*               assignment : Option, socket : Option([upstream_tls,       *)
(*               decodes, sni, certificate_provider, validation_provider,  *)
(*               alpn_protocols])]                                         *)
(*   assignment [decodes, name, lb_endpoints : <<[address, health], ..>>]  *)
(*   address    Option([address, port : Option])                           *)
(*                                                                         *)
(* managers lists the api listener and the filters that are connection     *)
(* managers; lb_endpoints lists those of all the localities.               *)
(***************************************************************************)
EXTENDS RuntimeConfig

EmptyName == 0

\* A repeated field.
Vector(s) == s \in Seq(Range(s))

\* What the conversions take for granted of the fields of a resource of a type.
VirtualHosts(vhosts) == Vector(vhosts) /\ \A h \in DOMAIN vhosts : Vector(vhosts[h].routes)

WellFormed(type_url, r) ==
  /\ r.name \in Nat
  /\ type_url = "route" => VirtualHosts(r.virtual_hosts)
  /\ type_url = "listener" =>
       /\ Vector(r.managers)
       /\ \A i \in DOMAIN r.managers : /\ r.managers[i].route_config_name \in Nat
                                       /\ VirtualHosts(r.managers[i].virtual_hosts)

\* The vectors of a vector, one after the other.
flatten(ss) ==
  LET upto[i \in 0..Len(ss)] == IF i = 0 THEN <<>> ELSE upto[i - 1] \o ss[i]
  IN  upto[Len(ss)]

filter_map(f(_), s) == flatten([i \in DOMAIN s |-> f(s[i])])

\* A sorted vector without duplicates is the set of its names; this is the vector:
\* the k-th name is the one with k names up to it.
sorted_unique(names) ==
  [k \in 1..Cardinality(names) |->
     CHOOSE n \in names : Cardinality({m \in names : m <= n}) = k]

\* What a function has under the keys, in the order of the keys.
InOrder(f, keys) == LET order == sorted_unique(keys) IN [i \in DOMAIN order |-> f[order[i]]]

\* socket_address: a port that is no u16 counts as no address.
MaxPort == 65535
socket_address(address) ==
  IF address = None \/ address[1].port = None THEN None
  ELSE IF address[1].port[1] > MaxPort THEN None
  ELSE Some([address |-> address[1].address, port |-> address[1].port[1]])

-----------------------------------------------------------------------------
(* Routes                                                                  *)

DefaultWeight == 1
SingleWeight == 100

convert_route_action(action) ==
  LET named == InOrder(action.clusters, {i \in DOMAIN action.clusters : action.clusters[i].name # EmptyName})
  IN  CASE action.specifier = "cluster" ->
             [i \in DOMAIN named |-> [name |-> named[i].name, weight |-> SingleWeight]]
        [] action.specifier = "weighted" ->
             [i \in DOMAIN named |-> [name |-> named[i].name,
                                      weight |-> unwrap_or(named[i].weight, DefaultWeight)]]
        [] OTHER -> <<>>

\* Mutant: a header matcher the gateway cannot evaluate is ignored.
convert_route_match_lenient(m) ==
  IF m.path # None /\ m.path[1].type = "safe_regex" THEN None
  ELSE Some([path |-> unwrap_or(m.path, [type |-> "prefix", value |-> <<"/">>]),
             headers |-> {[name |-> m.headers[i].name, value |-> m.headers[i].value]
                          : i \in {i \in DOMAIN m.headers : m.headers[i].type = "exact"}}])

\* A match the gateway cannot evaluate (a regular expression) converts to None;
\* a header matcher without a specifier is ignored.
convert_route_match(m) ==
  IF \/ m.path # None /\ m.path[1].type = "safe_regex"
     \/ \E i \in DOMAIN m.headers : m.headers[i].type = "safe_regex"
  THEN None
  ELSE Some([path |-> unwrap_or(m.path, [type |-> "prefix", value |-> <<"/">>]),
             headers |-> {[name |-> m.headers[i].name, value |-> m.headers[i].value]
                          : i \in {i \in DOMAIN m.headers : m.headers[i].type = "exact"}}])

\* The destinations of a route, and the route with them unless its match does
\* not convert.
Destinations(route) == IF route.action = "route" THEN convert_route_action(route) ELSE <<>>

RouteTo(route, ws) ==
  LET matches == IF route.match = None THEN <<>> ELSE convert_route_match(route.match[1])
  IN  IF route.match # None /\ matches = None THEN <<>>
      ELSE <<[matches |-> matches, weighted_clusters |-> ws]>>

\* Mutant: a route without destinations is kept.
convert_route_keeping_empty(route) == RouteTo(route, Destinations(route))

convert_route(route) ==
  IF Destinations(route) = <<>> THEN <<>> ELSE RouteTo(route, Destinations(route))

convert_virtual_hosts(vhosts) ==
  [i \in DOMAIN vhosts |-> [domains |-> vhosts[i].domains,
                            routes |-> filter_map(convert_route, vhosts[i].routes)]]

-----------------------------------------------------------------------------
(* Listeners                                                               *)

listener_port(l) ==
  IF socket_address(l.address) # None THEN Some(socket_address(l.address)[1].port)
  ELSE l.port_in_name

listener_decodes(l) == l.decodes /\ \A i \in DOMAIN l.managers : l.managers[i].decodes

listener_snapshot(l) ==
  LET port == unwrap_or(listener_port(l), 80)
      inline(m) == IF m.specifier = "inline" THEN convert_virtual_hosts(m.virtual_hosts) ELSE <<>>
  IN  [listener |-> [name |-> l.name,
                     bind |-> [ip |-> "unspecified", port |-> port],
                     protocol |-> IF port = 443 THEN "https" ELSE "http",
                     tls_secret |-> None,
                     virtual_hosts |-> <<>>],
       route_names |-> {l.managers[i].route_config_name : i \in
                          {i \in DOMAIN l.managers : l.managers[i].specifier = "rds"}} \ {EmptyName},
       inline_virtual_hosts |-> filter_map(inline, l.managers)]

-----------------------------------------------------------------------------
(* Clusters and endpoints                                                  *)

endpoint_is_healthy(status) == status \notin {"unhealthy", "draining", "timeout"}

\* Sorted by address and port; equal ones keep their order.
endpoints_from_assignment(assignment) ==
  LET convert(lb) ==
        LET a == socket_address(lb.address) IN
          IF a = None THEN <<>>
          ELSE <<[address |-> a[1].address, port |-> a[1].port,
                  healthy |-> endpoint_is_healthy(lb.health)]>>
      eps == filter_map(convert, assignment.lb_endpoints)
      before(i, j) ==
        \/ eps[i].address < eps[j].address
        \/ eps[i].address = eps[j].address /\ eps[i].port < eps[j].port
        \/ eps[i].address = eps[j].address /\ eps[i].port = eps[j].port /\ i < j
      at(k) == CHOOSE i \in DOMAIN eps : Cardinality({j \in DOMAIN eps : before(j, i)}) = k - 1
  IN  [k \in DOMAIN eps |-> eps[at(k)]]

\* upstream_tls_from_cluster: only a socket that carries an UpstreamTlsContext
\* that decodes makes the cluster a TLS one; without a server name of its own it
\* takes the one in the cluster's name.
upstream_tls_from_cluster(c) ==
  IF c.socket = None \/ ~ c.socket[1].upstream_tls \/ ~ c.socket[1].decodes THEN None
  ELSE Some([sni |-> IF c.socket[1].sni # None THEN c.socket[1].sni ELSE c.authority,
             certificate_provider |-> c.socket[1].certificate_provider,
             validation_provider |-> c.socket[1].validation_provider,
             alpn_protocols |-> c.socket[1].alpn_protocols])

cluster_snapshot(c) ==
  [name |-> c.name,
   eds_service_name |-> IF c.service_name # EmptyName THEN c.service_name ELSE c.name,
   tls |-> upstream_tls_from_cluster(c)]

==============================================================================

------------------------------- MODULE Routing -------------------------------
(***************************************************************************)
(* Which route a request takes, from the resources of the control plane to *)
(* the destinations forward picks from: the conversions of                 *)
(* crates/xds/src/client.rs, the runtime configuration made of them, the   *)
(* input that forward (crates/proxy/src/server.rs) makes of a request and  *)
(* RuntimeConfig::route_for, against a reading of the resources as they    *)
(* are on the wire.                                                        *)
(*                                                                         *)
(*   table    [listeners, routes]: listener and route resources            *)
(*   request  [host : Option(text), path_and_query,                        *)
(*             headers : {[name, value : Option(text)], ...}]              *)
(*                                                                         *)
(* A header value that to_str refuses (not visible ASCII) is None.         *)
(***************************************************************************)
EXTENDS AdsState

CONSTANTS Tables,    \* resources the control plane can send
          Requests   \* requests that can come in

Option(x) == x = None \/ x = Some(x[1])

\* What is taken for granted of a virtual host: a text is a vector of characters.
HostFields(vh) ==
  /\ \A i \in DOMAIN vh.domains : Vector(vh.domains[i])
  /\ \A i \in DOMAIN vh.routes :
       /\ Vector(vh.routes[i].clusters)
       /\ vh.routes[i].match # None /\ vh.routes[i].match[1].path # None =>
            LET path == vh.routes[i].match[1].path[1]
            IN  path.type \in {"prefix", "exact", "safe_regex"} /\ Vector(path.value)

ListenerFields(l) ==
  /\ WellFormed("listener", l)
  /\ l.address # None /\ l.address[1].port # None => l.address[1].port[1] \in Nat
  /\ Option(l.port_in_name)
  /\ \A m \in DOMAIN l.managers : \A h \in DOMAIN l.managers[m].virtual_hosts :
       HostFields(l.managers[m].virtual_hosts[h])

RouteFields(r) ==
  WellFormed("route", r) /\ \A h \in DOMAIN r.virtual_hosts : HostFields(r.virtual_hosts[h])

ASSUME TablesAssumption ==
  \A t \in Tables :
    /\ Vector(t.listeners) /\ \A i \in DOMAIN t.listeners : ListenerFields(t.listeners[i])
    /\ Vector(t.routes) /\ \A i \in DOMAIN t.routes : RouteFields(t.routes[i])

ASSUME RequestsAssumption ==
  \A r \in Requests :
    /\ r.host # None => Vector(r.host[1])
    /\ Vector(r.path_and_query)
    /\ \A h \in r.headers : Option(h.value)

VARIABLES table, request,
          answer     \* the destinations of the route taken, or none yet

vars == <<table, request, answer>>

HTTP_LISTENER_PORT == 80

-----------------------------------------------------------------------------
(* forward, up to the route                                                *)

\* The text before the first colon.
host_header(r) ==
  IF r.host = None THEN None
  ELSE LET colon == First({i \in DOMAIN r.host[1] : r.host[1][i] = ":"})
       IN  Some(IF colon = 0 THEN r.host[1] ELSE SubSeq(r.host[1], 1, colon - 1))

header_pairs(r) ==
  {[name |-> h.name, value |-> h.value[1]] : h \in {h \in r.headers : h.value # None}}

MatchInput(r) ==
  [host |-> unwrap_or(host_header(r), <<"*">>), path |-> r.path_and_query,
   headers |-> header_pairs(r)]

\* What the xDS client makes of the two responses on a new stream.
Configured(t) ==
  runtime_config(apply_routes(apply_listeners(NewAdsState, t.listeners), t.routes), "1")

Unanswered == [found |-> FALSE, destinations |-> <<"none yet">>]
NotFound == [found |-> FALSE, destinations |-> <<>>]

Init == table \in Tables /\ request \in Requests /\ answer = Unanswered

Route ==
  /\ answer = Unanswered
  /\ LET cfg == Configured(table)
         p == route_for(cfg, HTTP_LISTENER_PORT, MatchInput(request))
     IN  answer' = IF p = <<>> THEN NotFound
                   ELSE [found |-> TRUE, destinations |-> RouteAt(cfg, p).weighted_clusters]
  /\ UNCHANGED <<table, request>>

Next == Route

Spec == Init /\ [][Next]_vars

-----------------------------------------------------------------------------
(* The resources as they read on the wire                                  *)

\* Of the resources of a name the last one counts.
InForce(rs) == {i \in DOMAIN rs : \A j \in DOMAIN rs : rs[j].name = rs[i].name => j <= i}

\* The port of a listener is that of its address, else the one in its name.
OnPort(l) ==
  IF l.address # None /\ l.address[1].port # None /\ l.address[1].port[1] <= MaxPort
  THEN l.address[1].port[1] = HTTP_LISTENER_PORT
  ELSE l.port_in_name \in {None, Some(HTTP_LISTENER_PORT)}

\* The listener that takes the request: on the port, the one whose name comes first.
Takes ==
  LET on_port == {i \in InForce(table.listeners) : OnPort(table.listeners[i])}
  IN  {i \in on_port : \A j \in on_port : table.listeners[i].name <= table.listeners[j].name}

\* Where a listener's virtual hosts are, in their order: in its managers (part 1),
\* by position, and in the route resources it names (part 2), by name.
Own(l) ==
  {[part |-> 1, number |-> m, hosts |-> l.managers[m].virtual_hosts] :
     m \in {m \in DOMAIN l.managers : l.managers[m].specifier = "inline"}}

Discovered(l) ==
  {[part |-> 2, number |-> table.routes[i].name, hosts |-> table.routes[i].virtual_hosts] :
     i \in {i \in InForce(table.routes) :
              /\ table.routes[i].name # EmptyName
              /\ \E m \in DOMAIN l.managers : /\ l.managers[m].specifier = "rds"
                                              /\ l.managers[m].route_config_name = table.routes[i].name}}

Sources == UNION {Own(table.listeners[i]) \cup Discovered(table.listeners[i]) : i \in Takes}

\* The host a request is for: the longest start of the header without a colon.
WireHost ==
  IF request.host = None THEN <<"*">>
  ELSE LET full == request.host[1]
       IN  CHOOSE text \in {SubSeq(full, 1, n) : n \in 0..Len(full)} :
             /\ \A i \in DOMAIN text : text[i] # ":"
             /\ text = full \/ full[Len(text) + 1] = ":"

Hosts(vh) ==
  \E i \in DOMAIN vh.domains :
    \/ vh.domains[i] = <<"*">>
    \/ eq_ignore_ascii_case(vh.domains[i], WireHost)
    \/ \E k \in 1..(Len(WireHost) + 1) :
         vh.domains[i] = <<"*", ".">> \o SubSeq(WireHost, k, Len(WireHost))

\* Some named cluster is to get the request.
Forwards(route) ==
  /\ route.action = "route" /\ route.specifier \in {"cluster", "weighted"}
  /\ \E i \in DOMAIN route.clusters : route.clusters[i].name # EmptyName

Begins(text, prefix) == \A i \in DOMAIN prefix : i \in DOMAIN text /\ text[i] = prefix[i]

\* Nothing in the match is a regular expression, and all of it holds; no path
\* stands for all that start with a slash.
Accepts(route) ==
  route.match # None =>
    LET m == route.match[1] IN
      /\ IF m.path = None THEN Begins(request.path_and_query, <<"/">>)
         ELSE \/ m.path[1].type = "prefix" /\ Begins(request.path_and_query, m.path[1].value)
              \/ m.path[1].type = "exact" /\ m.path[1].value = request.path_and_query
      /\ \A i \in DOMAIN m.headers :
           LET wanted == m.headers[i] IN
             /\ wanted.type # "safe_regex"
             /\ wanted.type = "exact" =>
                  \E h \in request.headers :
                    eq_ignore_ascii_case(h.name, wanted.name) /\ h.value = Some(wanted.value)

\* A route of a source, by host and position, and the ones that can have the request.
WireRoute(c) == c.source.hosts[c.host].routes[c.route]

WireRoutes ==
  UNION {UNION {{[source |-> s, host |-> h, route |-> r] : r \in DOMAIN s.hosts[h].routes}
                : h \in DOMAIN s.hosts}
         : s \in Sources}

Candidates ==
  {c \in WireRoutes : /\ Hosts(c.source.hosts[c.host])
                      /\ Forwards(WireRoute(c)) /\ Accepts(WireRoute(c))}

\* The order of the wire.
SourceBefore(s, u) == s.part < u.part \/ (s.part = u.part /\ s.number < u.number)
UpTo(c, d) ==
  \/ SourceBefore(c.source, d.source)
  \/ c.source = d.source /\ c.host < d.host
  \/ c.source = d.source /\ c.host = d.host /\ c.route <= d.route

\* Destinations are the clusters with a name, in their order: each of them comes at
\* the place its rank among them says.
Names(ws, clusters) ==
  LET named == {i \in DOMAIN clusters : clusters[i].name # EmptyName}
  IN  /\ DOMAIN ws = 1..Cardinality(named)
      /\ \A i \in named : ws[Cardinality({j \in named : j <= i})].name = clusters[i].name

-----------------------------------------------------------------------------
(* Properties                                                              *)

\* A request gets the destinations of the first route on the wire that the
\* gateway can evaluate and that accepts it.  Routes that it cannot evaluate, or
\* that forward nowhere, take no request and hide no other; a request no route
\* accepts is answered 404.
RoutesAsConfigured ==
  answer # Unanswered =>
    IF Candidates = {} THEN answer = NotFound
    ELSE \E c \in Candidates :
           /\ \A d \in Candidates : UpTo(c, d)
           /\ answer.found /\ Names(answer.destinations, WireRoute(c).clusters)

==============================================================================

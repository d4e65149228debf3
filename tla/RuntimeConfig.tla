---------------------------- MODULE RuntimeConfig ----------------------------
(***************************************************************************)
(* The runtime configuration of dxgate and the pure functions on it        *)
(* (crates/core/src/config.rs).                                            *)
(*                                                                         *)
(*   configuration  [version, listeners, clusters]                         *)
(*   listener       [name, bind : [ip, port], protocol, tls_secret,        *)
(*                   virtual_hosts]                                        *)
(*   virtual host   [domains, routes]                                      *)
(*   route          [matches, weighted_clusters : <<[name, weight], ...>>] *)
(*   route match    [path : [type, value], headers : {[name, value], ...}] *)
(*   cluster        [name, endpoints : <<[address, port, healthy], ...>>,  *)
(*                   tls]                                                  *)
(*                                                                         *)
(* Vectors are sequences.  Names and versions are opaque values; the three *)
(* kinds of text that are matched by content (hosts, paths, header names)  *)
(* are sequences of characters over a small alphabet.  The secrets of a    *)
(* configuration are read by no code and are left out.                     *)
(***************************************************************************)
EXTENDS Integers, Sequences, FiniteSets, FiniteSetsExt

\* Option<T> is a sequence of length 0 or 1.
None == <<>>
Some(x) == <<x>>
unwrap_or(option, default) == IF option = None THEN default ELSE option[1]

empty(version) == [version |-> version, listeners |-> <<>>, clusters |-> <<>>]

-----------------------------------------------------------------------------
(* RuntimeConfig::validate.  A conflict is its kind and the position of    *)
(* the offending item; the code lists conflicts in a vector whose order    *)
(* nothing depends on, here they are a set.                                *)

\* The positions whose name BTreeSet::insert has met before.
Repeated(s) == {i \in DOMAIN s : \E j \in 1..(i - 1) : s[j].name = s[i].name}

tls_enabled(l) == l.tls_secret # None

\* binds.insert returns the entry it replaces, that of the last earlier
\* listener on the same address (0: none).
Replaced(ls, i) ==
  LET earlier == {j \in 1..(i - 1) : ls[j].bind = ls[i].bind}
  IN  IF earlier = {} THEN 0 ELSE Max(earlier)

Incompatible(a, b) ==
  a.protocol # b.protocol \/ tls_enabled(a) # tls_enabled(b)

BindConflicts(ls) ==
  {i \in DOMAIN ls : Replaced(ls, i) # 0 /\ Incompatible(ls[Replaced(ls, i)], ls[i])}

ClusterNames(cfg) == {cfg.clusters[i].name : i \in DOMAIN cfg.clusters}

\* Positions <<listener, virtual host, route>>.
RoutePositions(cfg) ==
  UNION {UNION {{<<l, h, r>> : r \in DOMAIN cfg.listeners[l].virtual_hosts[h].routes}
                : h \in DOMAIN cfg.listeners[l].virtual_hosts}
         : l \in DOMAIN cfg.listeners}

RouteAt(cfg, p) == cfg.listeners[p[1]].virtual_hosts[p[2]].routes[p[3]]

MissingDestinations(cfg) ==
  UNION {{<<p, d>> : d \in {d \in DOMAIN RouteAt(cfg, p).weighted_clusters :
                             RouteAt(cfg, p).weighted_clusters[d].name \notin ClusterNames(cfg)}}
         : p \in RoutePositions(cfg)}

validate(cfg) ==
  UNION {
    {[kind |-> "duplicate-listener", at |-> i] : i \in Repeated(cfg.listeners)},
    {[kind |-> "listener-bind-conflict", at |-> i] : i \in BindConflicts(cfg.listeners)},
    {[kind |-> "duplicate-cluster", at |-> i] : i \in Repeated(cfg.clusters)},
    {[kind |-> "empty-route-destination", at |-> p] : p \in
       {p \in RoutePositions(cfg) : RouteAt(cfg, p).weighted_clusters = <<>>}},
    {[kind |-> "missing-cluster", at |-> d] : d \in MissingDestinations(cfg)}
  }

Valid(cfg) == validate(cfg) = {}

-----------------------------------------------------------------------------
(* Lookups: the first item that matches, by position (0: none).            *)

First(positions) == IF positions = {} THEN 0 ELSE Min(positions)

listener_by_port(cfg, port) ==
  First({i \in DOMAIN cfg.listeners : cfg.listeners[i].bind.port = port})

cluster(cfg, name) == First({i \in DOMAIN cfg.clusters : cfg.clusters[i].name = name})

\* str::starts_with, str::ends_with
starts_with(text, prefix) ==
  Len(prefix) <= Len(text) /\ SubSeq(text, 1, Len(prefix)) = prefix
ends_with(text, suffix) ==
  Len(suffix) <= Len(text) /\ SubSeq(text, Len(text) - Len(suffix) + 1, Len(text)) = suffix

\* str::eq_ignore_ascii_case, over the letters the instances use.
AsciiLower == [A |-> "a", B |-> "b"]
Lower(text) ==
  [i \in DOMAIN text |-> IF text[i] \in DOMAIN AsciiLower THEN AsciiLower[text[i]] ELSE text[i]]
eq_ignore_ascii_case(a, b) == Lower(a) = Lower(b)

\* VirtualHost::matches_host: the text after "*." is compared as a suffix of
\* the host's characters, with its case.
matches_host(vh, host) ==
  \E i \in DOMAIN vh.domains :
    LET domain == vh.domains[i] IN
      \/ domain = <<"*">>
      \/ eq_ignore_ascii_case(domain, host)
      \/ starts_with(domain, <<"*", ".">>) /\ ends_with(host, SubSeq(domain, 3, Len(domain)))

path_matches(path, text) ==
  IF path.type = "prefix" THEN starts_with(text, path.value) ELSE path.value = text

header_matches(h, input) ==
  \E pair \in input.headers : eq_ignore_ascii_case(pair.name, h.name) /\ pair.value = h.value

route_matches(route, input) ==
  \/ route.matches = <<>>
  \/ \E i \in DOMAIN route.matches :
       /\ path_matches(route.matches[i].path, input.path)
       /\ \A h \in route.matches[i].headers : header_matches(h, input)

\* RuntimeConfig::route_for: the position of the first matching route of the
\* virtual hosts that match, on the first listener of the port (<<>>: none).
route_for(cfg, port, input) ==
  LET l == listener_by_port(cfg, port)
      found == {p \in RoutePositions(cfg) :
                  /\ p[1] = l
                  /\ matches_host(cfg.listeners[l].virtual_hosts[p[2]], input.host)
                  /\ route_matches(RouteAt(cfg, p), input)}
  IN  IF found = {} THEN <<>>
      ELSE CHOOSE p \in found : \A q \in found :
             p[2] < q[2] \/ (p[2] = q[2] /\ p[3] <= q[3])

==============================================================================

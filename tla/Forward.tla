------------------------------- MODULE Forward -------------------------------
(***************************************************************************)
(* The request path (crates/proxy/src/server.rs): concurrent calls of      *)
(* forward, each working on the configuration it cloned on arrival while   *)
(* the apply task replaces the one in ProxyState, all of them drawing on   *)
(* one picker counter and one cache of mTLS clients.                       *)
(*                                                                         *)
(* Upstream TLS settings are                                               *)
(* [sni, certificate_provider, validation_provider, alpn_protocols], texts *)
(* being sequences of characters because the cache key is made of them;    *)
(* the characters '|' and ',' are written "bar" and "comma".               *)
(***************************************************************************)
EXTENDS Picker

CONSTANTS Configs,    \* valid configurations, as Gateway serves them
          Inputs,     \* host, path and headers of the requests that come in
          Requests,   \* slots of requests in flight
          Malformed,  \* addresses that do not make a URI
          Providers,  \* certificate providers of the gRPC xDS bootstrap
          Characters  \* of the names in upstream TLS settings

\* Vec<T>, String and Option<String>: the names in settings are any texts.
Vector(s) == Len(s) \in Nat /\ DOMAIN s = 1..Len(s)
Text(t) == t \in Seq(Characters)
OptionalText(option) == option # None => option = Some(option[1]) /\ Text(option[1])

TlsSettings(tls) ==
  /\ OptionalText(tls.sni)
  /\ OptionalText(tls.certificate_provider) /\ OptionalText(tls.validation_provider)
  /\ Vector(tls.alpn_protocols)
  /\ \A i \in DOMAIN tls.alpn_protocols : Text(tls.alpn_protocols[i])

WellFormed(cfg) ==
  /\ Vector(cfg.clusters)
  /\ \A c \in DOMAIN cfg.clusters :
       /\ Vector(cfg.clusters[c].endpoints)
       /\ \A e \in DOMAIN cfg.clusters[c].endpoints :
            cfg.clusters[c].endpoints[e].healthy \in BOOLEAN
       /\ cfg.clusters[c].tls # None => TlsSettings(cfg.clusters[c].tls[1])
  /\ \A l \in DOMAIN cfg.listeners :
       /\ Vector(cfg.listeners[l].virtual_hosts)
       /\ \A h \in DOMAIN cfg.listeners[l].virtual_hosts :
            Vector(cfg.listeners[l].virtual_hosts[h].routes)
  /\ \A p \in RoutePositions(cfg) :
       /\ Vector(RouteAt(cfg, p).weighted_clusters)
       /\ \A d \in DOMAIN RouteAt(cfg, p).weighted_clusters :
            RouteAt(cfg, p).weighted_clusters[d].weight \in Nat

ASSUME CharactersAssumption == {"d", "comma", "bar"} \subseteq Characters

\* Only valid configurations are applied (module Gateway).
ASSUME ConfigsAssumption == \A cfg \in Configs : Valid(cfg) /\ WellFormed(cfg)

VARIABLES config,          \* ProxyState.config
          picker_counter,  \* ProxyState.picker_counter
          mtls,            \* UpstreamClients.mtls
          clients,         \* MtlsClientPool.clients
          readable,        \* providers whose files can be loaded (environment)
          req              \* the local state of each call of forward

vars == <<config, picker_counter, mtls, clients, readable, req>>

HTTP_LISTENER_PORT == 80

\* The local state of a call: where it is, the configuration and the route it
\* works on, and what it has chosen so far.
Call(pc, cfg, route, chosen, endpoint, client) ==
  [pc |-> pc, cfg |-> cfg, route |-> route, cluster |-> chosen, endpoint |-> endpoint,
   client |-> client, reply |-> "none"]

Idle == Call("idle", empty("none"), <<>>, None, None, None)

Replied(r) ==
  [pc |-> "replied", cfg |-> empty("none"), route |-> <<>>, cluster |-> None, endpoint |-> None,
   client |-> None, reply |-> r]

\* UpstreamClients::from_env: the bootstrap is not configured, does not load,
\* or gives an empty cache of clients.
Init ==
  /\ config = empty("bootstrap")
  /\ picker_counter = 0
  /\ mtls \in {"disabled", "error", "available"}
  /\ clients = [key \in {} |-> None]
  /\ readable = Providers
  /\ req = [q \in Requests |-> Idle]

Becomes(q, call) == req' = [req EXCEPT ![q] = call]
Reply(q, r) == Becomes(q, Replied(r))

-----------------------------------------------------------------------------
(* forward, up to the choice of an endpoint                                *)

\* Clone the configuration and look the route up in the clone.
Arrive(q, input) ==
  /\ req[q].pc \in {"idle", "replied"}
  /\ LET p == route_for(config, HTTP_LISTENER_PORT, input)
     IN  IF p = <<>>
         THEN Reply(q, "route_not_found")
         ELSE Becomes(q, Call("cluster", config, RouteAt(config, p).weighted_clusters,
                              None, None, None))
  /\ UNCHANGED <<config, picker_counter, mtls, clients, readable>>

\* Mutant: the cluster is looked up in the configuration of the moment.
PickClusterFresh(q) ==
  /\ req[q].pc = "cluster"
  /\ LET ws == req[q].route
         i == pick_cluster(ws, picker_counter)
         c == cluster(config, ws[i].name)
     IN  /\ picker_counter' = AfterPickCluster(ws, picker_counter)
         /\ IF c = 0
            THEN Reply(q, "cluster_not_found")
            ELSE Becomes(q, Call("endpoint", req[q].cfg, ws, Some(config.clusters[c]), None, None))
  /\ UNCHANGED <<config, mtls, clients, readable>>

PickCluster(q) ==
  /\ req[q].pc = "cluster"
  /\ LET ws == req[q].route
         i == pick_cluster(ws, picker_counter)
         c == IF i = 0 THEN 0 ELSE cluster(req[q].cfg, ws[i].name)
     IN  /\ picker_counter' = AfterPickCluster(ws, picker_counter)
         /\ IF i = 0 THEN Reply(q, "route_has_no_clusters")
            ELSE IF c = 0 THEN Reply(q, "cluster_not_found")
            ELSE Becomes(q, Call("endpoint", req[q].cfg, ws, Some(req[q].cfg.clusters[c]),
                                 None, None))
  /\ UNCHANGED <<config, mtls, clients, readable>>

\* An address that does not make a URI ends the request here too.
PickEndpoint(q) ==
  /\ req[q].pc = "endpoint"
  /\ LET eps == req[q].cluster[1].endpoints
         ep == pick_endpoint(eps, picker_counter)
     IN  /\ picker_counter' = AfterPickEndpoint(eps, picker_counter)
         /\ IF ep = None THEN Reply(q, "no_healthy_endpoints")
            ELSE IF ep[1].address \in Malformed THEN Reply(q, "invalid_upstream_uri")
            ELSE Becomes(q, Call("send", req[q].cfg, req[q].route, req[q].cluster, ep, None))
  /\ UNCHANGED <<config, mtls, clients, readable>>

-----------------------------------------------------------------------------
(* UpstreamClients and MtlsClientPool                                      *)

\* The text "default".
Default == <<"d">>

cert_provider(tls) == unwrap_or(tls.certificate_provider, Default)
root_provider(tls) == unwrap_or(tls.validation_provider, Default)

\* [String]::join
Join(texts, separator) ==
  LET joined[i \in 0..Len(texts)] ==
        IF i = 0 THEN <<>>
        ELSE joined[i - 1] \o (IF i = 1 THEN texts[i] ELSE <<separator>> \o texts[i])
  IN  joined[Len(texts)]

\* A field of the key and what follows it.
Barred(field, rest) == field \o (<<"bar">> \o rest)

\* Mutant: the key leaves the server name out.
mtls_cache_key_without_sni(tls) ==
  Barred(cert_provider(tls), Barred(root_provider(tls), Join(tls.alpn_protocols, "comma")))

mtls_cache_key(tls) ==
  Barred(unwrap_or(tls.sni, <<>>),
    Barred(cert_provider(tls), Barred(root_provider(tls), Join(tls.alpn_protocols, "comma"))))

\* What a client is built from: a server name unless it is empty, and the
\* files of the two providers.
Client(tls) ==
  [server_name |-> IF tls.sni = Some(<<>>) THEN None ELSE tls.sni,
   certificate |-> cert_provider(tls), roots |-> root_provider(tls)]

tls_config_loads(tls) == {cert_provider(tls), root_provider(tls)} \subseteq readable

\* The request leaves for the endpoint, with an mTLS client or without one.
Leave(q, client) ==
  Becomes(q, Call("upstream", req[q].cfg, req[q].route, req[q].cluster, req[q].endpoint, client))

\* request_plain
SendPlain(q) ==
  /\ req[q].pc = "send"
  /\ req[q].cluster[1].tls = None
  /\ Leave(q, None)
  /\ UNCHANGED <<config, picker_counter, mtls, clients, readable>>

\* request_mtls without a client pool
SendMtlsUnavailable(q) ==
  /\ req[q].pc = "send"
  /\ req[q].cluster[1].tls # None
  /\ mtls # "available"
  /\ Reply(q, IF mtls = "disabled" THEN "mTLS_not_configured" ELSE "mTLS_bootstrap_failed")
  /\ UNCHANGED <<config, picker_counter, mtls, clients, readable>>

\* request_mtls with client_for: a cached client is returned as it is, a new one
\* is cached unless its files do not load.
SendMtls(q) ==
  /\ req[q].pc = "send"
  /\ req[q].cluster[1].tls # None
  /\ mtls = "available"
  /\ LET tls == req[q].cluster[1].tls[1]
         key == mtls_cache_key(tls)
         client == IF key \in DOMAIN clients THEN clients[key] ELSE Client(tls)
     IN  IF key \in DOMAIN clients \/ tls_config_loads(tls)
         THEN /\ clients' = [k \in DOMAIN clients \cup {key} |->
                             IF k = key THEN client ELSE clients[k]]
              /\ Leave(q, Some(client))
         ELSE /\ Reply(q, "mTLS_setup_failed")
              /\ UNCHANGED clients
  /\ UNCHANGED <<config, picker_counter, mtls, readable>>

-----------------------------------------------------------------------------
(* The environment                                                         *)

\* The upstream answers, or the connection fails.
UpstreamReplies(q) ==
  /\ req[q].pc = "upstream"
  /\ \E r \in {"upstream_reply", "upstream_error"} : Reply(q, r)
  /\ UNCHANGED <<config, picker_counter, mtls, clients, readable>>

\* The apply task replaces the configuration (module Gateway).
ApplyConfig(cfg) ==
  /\ cfg # config
  /\ config' = cfg
  /\ UNCHANGED <<picker_counter, mtls, clients, readable, req>>

\* The files of a provider appear, disappear or are damaged.
FilesChange(p) ==
  /\ readable' = IF p \in readable THEN readable \ {p} ELSE readable \cup {p}
  /\ UNCHANGED <<config, picker_counter, mtls, clients, req>>

forward(q) ==
  \/ PickCluster(q) \/ PickEndpoint(q)
  \/ SendPlain(q) \/ SendMtlsUnavailable(q) \/ SendMtls(q)

Next ==
  \/ \E q \in Requests : forward(q) \/ UpstreamReplies(q) \/ \E input \in Inputs : Arrive(q, input)
  \/ \E cfg \in Configs : ApplyConfig(cfg)
  \/ \E p \in Providers : FilesChange(p)

Spec == Init /\ [][Next]_vars

-----------------------------------------------------------------------------
(* Properties                                                              *)

Replies == {"none", "route_not_found", "route_has_no_clusters", "cluster_not_found",
            "no_healthy_endpoints", "invalid_upstream_uri", "mTLS_not_configured",
            "mTLS_bootstrap_failed", "mTLS_setup_failed", "upstream_reply", "upstream_error"}

\* Type invariant of the request path; a call's cluster is one of the
\* configuration it cloned, and its endpoint one of that cluster.
TypeOK ==
  /\ config \in Configs \cup {empty("bootstrap")}
  /\ picker_counter \in 0..(CounterModulus - 1)
  /\ mtls \in {"disabled", "error", "available"}
  /\ readable \subseteq Providers
  /\ \A q \in Requests :
       /\ req[q].pc \in {"idle", "cluster", "endpoint", "send", "upstream", "replied"}
       /\ req[q].reply \in Replies
       /\ req[q].pc \in {"endpoint", "send", "upstream"} =>
            \E c \in DOMAIN req[q].cfg.clusters : req[q].cluster = Some(req[q].cfg.clusters[c])
       /\ req[q].pc \in {"send", "upstream"} =>
            \E e \in DOMAIN req[q].cluster[1].endpoints :
              req[q].endpoint = Some(req[q].cluster[1].endpoints[e])

\* forward never answers 503 for a hole in its configuration: with a validated
\* configuration cloned once, every route has a cluster to pick, whatever the
\* weights add up to, and every cluster picked is there, however often the
\* configuration is replaced meanwhile.
NoConfigurationHole ==
  \A q \in Requests : req[q].reply \notin {"route_has_no_clusters", "cluster_not_found"}

\* A cluster of weight zero gets a request only when the weights of its route
\* add up to zero.
DrainedClusterUnused ==
  \A q \in Requests : req[q].pc \in {"endpoint", "send", "upstream"} =>
    \E i \in DOMAIN req[q].route :
      /\ req[q].route[i].name = req[q].cluster[1].name
      /\ req[q].route[i].weight > 0 \/ TotalWeight(req[q].route) = 0

\* A request leaves for a healthy endpoint of a cluster its route names, as the
\* configuration it arrived under has them.
SentToHealthyDestination ==
  \A q \in Requests : req[q].pc = "upstream" =>
    \E i \in DOMAIN req[q].cfg.clusters, j \in DOMAIN req[q].route :
      LET c == req[q].cfg.clusters[i] IN
        /\ c.name = req[q].route[j].name
        /\ \E k \in DOMAIN c.endpoints : c.endpoints[k] = req[q].endpoint[1] /\ c.endpoints[k].healthy

\* The upstream TLS settings of the configurations.
SettingsOf(cfg) ==
  {cfg.clusters[c].tls[1] : c \in {c \in DOMAIN cfg.clusters : cfg.clusters[c].tls # None}}
Settings == UNION {SettingsOf(cfg) : cfg \in Configs}

\* No name that goes into the key has the separator of the key in it.
NoBar(t) == \A i \in DOMAIN t : t[i] # "bar"
Separable(tls) ==
  NoBar(unwrap_or(tls.sni, <<>>)) /\ NoBar(cert_provider(tls)) /\ NoBar(root_provider(tls))

\* A request leaves with mTLS exactly when its cluster has upstream TLS settings,
\* however often building a client has failed.  Its client was built from settings
\* with the cluster's key, and is the one the cluster's own settings make, unless a
\* name in the one or the other contains the separator of the key: only then do
\* settings that differ in what a client is built from share an entry.
SentAsClusterRequires ==
  \A q \in Requests : req[q].pc = "upstream" =>
    LET tls == req[q].cluster[1].tls IN
      IF tls = None THEN req[q].client = None
      ELSE \E s \in Settings :
             /\ req[q].client = Some(Client(s))
             /\ mtls_cache_key(s) = mtls_cache_key(tls[1])
             /\ Separable(s) /\ Separable(tls[1]) => Client(s) = Client(tls[1])

==============================================================================

------------------------------ MODULE AdsClient ------------------------------
(***************************************************************************)
(* The ADS client (XdsClient::run, run_once; crates/xds/src/client.rs)     *)
(* over a stream to the control plane.                                     *)
(*                                                                         *)
(* run_once is sequential: it receives a response and applies it, sends    *)
(* the acknowledgement, sends the subscription the response led to, then   *)
(* publishes the runtime configuration unless it is invalid or unchanged.  *)
(* Each of these is an action, because the stream can break and the server *)
(* can act in between.  Requests go through a bounded channel.             *)
(*                                                                         *)
(* The server (dubbod) is outside the repository.  It goes through the     *)
(* Worlds, sets of resources; it may push a type any time its resources or *)
(* the names subscribed changed, but need not while a push of that type is *)
(* unacknowledged; it ignores requests that answer an older push.  Nonces  *)
(* number the pushes of a stream, 0 being the empty nonce of a request     *)
(* that answers none.                                                      *)
(***************************************************************************)
EXTENDS AdsState

CONSTANTS Worlds,           \* the sequence of resources the server has:
                            \* [version, resources : [TypeUrls -> Seq], extra]
          ListenerNames,    \* XdsClientConfig.listener_names
          RequestCapacity,  \* of the request channel (32 in the code)
          ResponseCapacity, \* of the transport's receive buffer
          MaxBreaks         \* connections and streams that fail

ASSUME CapacityAssumption == RequestCapacity \in Nat \ {0} /\ ResponseCapacity \in Nat \ {0}
ASSUME EnvironmentAssumption ==
  MaxBreaks \in Nat /\ Len(Worlds) \in Nat \ {0} /\ DOMAIN Worlds = 1..Len(Worlds)
ASSUME ResourcesAssumption ==
  \A w \in DOMAIN Worlds : \A t \in TypeUrls :
    LET rs == Worlds[w].resources[t]
    IN  Vector(rs) /\ \A i \in DOMAIN rs : WellFormed(t, rs[i])

VARIABLES endpoint_valid,  \* whether the configured endpoint is a URI
          pc,              \* where run is
          ads,             \* AdsState of run_once
          resp,            \* the response being handled
          published,       \* the value of the watch channel
          requests,        \* requests under way, oldest first
          responses,       \* responses under way, oldest first
          open,            \* whether the stream is up
          breaks,          \* failures so far
          world,           \* the server: position in Worlds
          nonce,           \* the server: pushes on this stream
          srv              \* the server: per type, what it knows of the stream

client == <<endpoint_valid, pc, ads, resp, published>>
server == <<world, nonce, srv>>
vars == <<endpoint_valid, pc, ads, resp, published, requests, responses, open, breaks,
          world, nonce, srv>>

NoResponse == [type_url |-> "none", version_info |-> "", nonce |-> 0, resources |-> <<>>]

Request(type_url, names, version_info, n) ==
  [type_url |-> type_url, names |-> names, version_info |-> version_info, nonce |-> n]

\* What the server knows of a type: the names subscribed, whether a push is due,
\* the nonces of the last push and of the last one acknowledged.
Known(names, due, n, acked) == [names |-> names, due |-> due, nonce |-> n, acked |-> acked]

\* Nothing subscribed, nothing pushed.
Unsubscribed == [t \in TypeUrls |-> Known({}, FALSE, 0, 0)]

Init ==
  /\ endpoint_valid \in BOOLEAN
  /\ pc = "connect"
  /\ ads = NewAdsState
  /\ resp = NoResponse
  /\ published = empty("bootstrap")
  /\ requests = <<>> /\ responses = <<>> /\ open = FALSE
  /\ breaks = 0
  /\ world = 1 /\ nonce = 0 /\ srv = Unsubscribed

-----------------------------------------------------------------------------
(* The client                                                              *)

\* run ends on an endpoint that is no URI; nothing else ends it.
InvalidEndpoint ==
  /\ pc = "connect" /\ ~ endpoint_valid
  /\ pc' = "exited"
  /\ UNCHANGED <<endpoint_valid, ads, resp, published, requests, responses, open, breaks, server>>

\* Mutant: the state of the last stream is kept.
ConnectKeepingState ==
  /\ pc = "connect" /\ endpoint_valid
  /\ pc' = "receive"
  /\ ads' = set_subscription(ads, "listener", ListenerNames)
  /\ open' = TRUE
  /\ requests' = <<Request("listener", ListenerNames, "", 0)>>
  /\ responses' = <<>>
  /\ nonce' = 0 /\ srv' = Unsubscribed
  /\ UNCHANGED <<endpoint_valid, resp, published, breaks, world>>

\* A new stream starts from AdsState::default and a request for the listeners;
\* the server knows nothing of the last one.
Connect ==
  /\ pc = "connect" /\ endpoint_valid
  /\ pc' = "receive"
  /\ ads' = set_subscription(NewAdsState, "listener", ListenerNames)
  /\ open' = TRUE
  /\ requests' = <<Request("listener", ListenerNames, "", 0)>>
  /\ responses' = <<>>
  /\ nonce' = 0 /\ srv' = Unsubscribed
  /\ UNCHANGED <<endpoint_valid, resp, published, breaks, world>>

\* connect or stream_aggregated_resources fails.
ConnectFails ==
  /\ pc = "connect" /\ endpoint_valid
  /\ breaks < MaxBreaks
  /\ breaks' = breaks + 1
  /\ pc' = "sleep"
  /\ UNCHANGED <<endpoint_valid, ads, resp, published, requests, responses, open, server>>

\* run_once returns: both ends of the request channel and the stream are dropped.
\* So is AdsState, which nothing reads until Connect makes a new one.
Return ==
  /\ pc' = "sleep"
  /\ resp' = NoResponse
  /\ requests' = <<>> /\ responses' = <<>> /\ open' = FALSE
  /\ UNCHANGED <<endpoint_valid, ads, published, breaks, server>>

\* Apply a response; one that does not decode ends the stream, unanswered.
Receive ==
  /\ pc = "receive" /\ responses # <<>>
  /\ IF Decodes(Head(responses))
     THEN /\ pc' = "acknowledge"
          /\ ads' = apply_response(ads, Head(responses))
          /\ resp' = Head(responses)
          /\ responses' = Tail(responses)
          /\ UNCHANGED <<endpoint_valid, published, requests, open, breaks, server>>
     ELSE Return

\* The stream ended or failed.
ReceiveFails ==
  /\ pc = "receive" /\ responses = <<>> /\ ~ open
  /\ Return

\* Mutant: the acknowledgement names what the response brought.
AcknowledgeReceived ==
  /\ pc = "acknowledge" /\ open
  /\ Len(requests) < RequestCapacity
  /\ requests' = Append(requests,
       Request(resp.type_url, {resp.resources[i].name : i \in DOMAIN resp.resources},
               resp.version_info, resp.nonce))
  /\ pc' = "subscribe"
  /\ UNCHANGED <<endpoint_valid, ads, resp, published, responses, open, breaks, server>>

\* Every response is acknowledged with the names subscribed at this moment.
Acknowledge ==
  /\ pc = "acknowledge" /\ open
  /\ Len(requests) < RequestCapacity
  /\ requests' = Append(requests,
       Request(resp.type_url, subscription(ads, resp.type_url), resp.version_info, resp.nonce))
  /\ pc' = "subscribe"
  /\ UNCHANGED <<endpoint_valid, ads, resp, published, responses, open, breaks, server>>

\* The type that follows is subscribed anew if its names changed.
Subscribe ==
  /\ pc = "subscribe"
  /\ LET updates == {u \in DiscoveryUpdates(ads, resp.type_url) : Resubscribes(ads, u[1], u[2])}
     IN  IF updates = {}
         THEN UNCHANGED <<ads, requests>>
         ELSE /\ open
              /\ Len(requests) < RequestCapacity
              /\ \E u \in updates :
                   /\ ads' = set_subscription(ads, u[1], u[2])
                   /\ requests' = Append(requests, Request(u[1], u[2], "", 0))
  /\ pc' = "publish"
  /\ UNCHANGED <<endpoint_valid, resp, published, responses, open, breaks, server>>

\* A request cannot be sent: the receiving end of the channel is gone.
SendFails ==
  /\ \/ pc = "acknowledge"
     \/ /\ pc = "subscribe"
        /\ \E u \in DiscoveryUpdates(ads, resp.type_url) : Resubscribes(ads, u[1], u[2])
  /\ ~ open
  /\ Return

\* Mutant: the configuration is published without being validated.
PublishUnchecked ==
  /\ pc = "publish"
  /\ published' = runtime_config(ads, resp.version_info)
  /\ resp' = NoResponse
  /\ pc' = "receive"
  /\ UNCHANGED <<endpoint_valid, ads, requests, responses, open, breaks, server>>

\* Mutant: a configuration of the version published last counts as unchanged.
PublishNewVersion ==
  /\ pc = "publish"
  /\ LET cfg == runtime_config(ads, resp.version_info)
     IN  published' = IF Valid(cfg) /\ cfg.version # published.version THEN cfg ELSE published
  /\ resp' = NoResponse
  /\ pc' = "receive"
  /\ UNCHANGED <<endpoint_valid, ads, requests, responses, open, breaks, server>>

\* A configuration with conflicts is not published; one that is equal to the
\* channel's value is not sent.  send itself cannot fail here: the receiver
\* outlives this sender (module EndToEnd, PublishFindsReceiver).
Publish ==
  /\ pc = "publish"
  /\ \E cfg \in {runtime_config(ads, resp.version_info)} :
       published' = IF Valid(cfg) THEN cfg ELSE published
  /\ resp' = NoResponse
  /\ pc' = "receive"
  /\ UNCHANGED <<endpoint_valid, ads, requests, responses, open, breaks, server>>

\* run sleeps for reconnect_delay and starts over.
Reconnect ==
  /\ pc = "sleep"
  /\ pc' = "connect"
  /\ UNCHANGED <<endpoint_valid, ads, resp, published, requests, responses, open, breaks, server>>

run ==
  \/ InvalidEndpoint \/ Connect \/ Receive \/ ReceiveFails \/ Acknowledge \/ Subscribe
  \/ SendFails \/ Publish \/ Reconnect

-----------------------------------------------------------------------------
(* The environment: the server and the network                             *)

StreamBreaks ==
  /\ open /\ breaks < MaxBreaks
  /\ breaks' = breaks + 1
  /\ open' = FALSE
  /\ requests' = <<>> /\ responses' = <<>>
  /\ UNCHANGED <<client, server>>

\* The server's resources of a type with the names given; no names stand for all.
Subscribed(t, names) ==
  LET rs == Worlds[world].resources[t]
  IN  InOrder(rs, {i \in DOMAIN rs : names = {} \/ rs[i].name \in names})

\* A request that answers no push is always answered, one that answers the last
\* push acknowledges it, others are ignored.
Answered(k, r) ==
  IF r.nonce = 0 THEN Known(r.names, TRUE, k.nonce, k.acked)
  ELSE IF r.nonce = k.nonce THEN Known(r.names, k.due \/ r.names # k.names, k.nonce, r.nonce)
  ELSE k

ServerReceives ==
  /\ requests # <<>>
  /\ requests' = Tail(requests)
  /\ srv' = [t \in TypeUrls |->
       IF t = Head(requests).type_url THEN Answered(srv[t], Head(requests)) ELSE srv[t]]
  /\ UNCHANGED <<client, responses, open, breaks, world, nonce>>

ServerPushes(t) ==
  /\ open /\ srv[t].due
  /\ Len(responses) < ResponseCapacity
  /\ nonce' = nonce + 1
  /\ srv' = [srv EXCEPT ![t] = Known(srv[t].names, FALSE, nonce + 1, srv[t].acked)]
  /\ responses' = Append(responses,
       [type_url |-> t, version_info |-> Worlds[world].version, nonce |-> nonce + 1,
        resources |-> Subscribed(t, srv[t].names)])
  /\ UNCHANGED <<client, requests, open, breaks, world>>

\* A push of a type that the client does not know.
ServerPushesUnknown ==
  /\ open /\ Worlds[world].extra
  /\ nonce = 0 /\ Len(responses) < ResponseCapacity
  /\ nonce' = nonce + 1
  /\ responses' = Append(responses,
       [type_url |-> "unknown", version_info |-> Worlds[world].version, nonce |-> nonce + 1,
        resources |-> <<>>])
  /\ UNCHANGED <<client, requests, open, breaks, world, srv>>

\* The resources change; the types that were pushed before and changed are due.
WorldChanges ==
  /\ world < Len(Worlds)
  /\ world' = world + 1
  /\ srv' = [t \in TypeUrls |->
       Known(srv[t].names,
             srv[t].due \/ /\ srv[t].nonce # 0
                           /\ Worlds[world].resources[t] # Worlds[world'].resources[t],
             srv[t].nonce, srv[t].acked)]
  /\ UNCHANGED <<client, requests, responses, open, breaks, nonce>>

Environment ==
  \/ ConnectFails \/ StreamBreaks \/ WorldChanges
  \/ ServerReceives \/ ServerPushesUnknown \/ \E t \in TypeUrls : ServerPushes(t)

Next == run \/ Environment

Spec == Init /\ [][Next]_vars

\* The client's task is scheduled, the network delivers, and the server pushes
\* what is due once its last push of the type is acknowledged.
Fairness ==
  /\ WF_vars(run)
  /\ WF_vars(ServerReceives)
  /\ \A t \in TypeUrls : WF_vars(srv[t].acked = srv[t].nonce /\ ServerPushes(t))

FairSpec == Spec /\ Fairness

-----------------------------------------------------------------------------
(* Properties                                                              *)

\* Type invariant of the ADS client.
TypeOK ==
  /\ endpoint_valid \in BOOLEAN /\ open \in BOOLEAN
  /\ pc \in {"connect", "receive", "acknowledge", "subscribe", "publish", "sleep", "exited"}
  /\ DOMAIN ads.subscriptions \subseteq TypeUrls
  /\ Len(requests) <= RequestCapacity /\ Len(responses) <= ResponseCapacity
  /\ resp = NoResponse <=> pc \notin {"acknowledge", "subscribe", "publish"}
  /\ breaks \in 0..MaxBreaks /\ world \in DOMAIN Worlds
  /\ Valid(published)

\* Once the requests under way have arrived, the server knows the subscriptions
\* of AdsState: acknowledgements never undo a subscription request, in whatever
\* order responses of different types come.
SubscriptionInSync ==
  open => \A t \in DOMAIN ads.subscriptions :
    LET under_way == {i \in DOMAIN requests : requests[i].type_url = t}
    IN  /\ under_way = {} => srv[t].names = ads.subscriptions[t]
        /\ \A i \in under_way : (\A j \in under_way : j <= i) =>
             requests[i].names = ads.subscriptions[t]

\* After a response is handled, exactly the names that the stored listeners,
\* routes and clusters refer to are subscribed, or there are none left.
FollowsReferences ==
  pc = "receive" =>
    \A u \in {<<"route", route_names(ads)>>, <<"cluster", cluster_names(ads)>>,
              <<"endpoint", eds_names(ads)>>} :
      u[2] = {} \/ subscription(ads, u[1]) = u[2]

\* A configuration that is held back is incomplete, as the client's log line
\* says, and nothing worse: whatever the server sends, the only conflicts are
\* clusters that have not arrived.
OnlyMissingClusters ==
  pc = "publish" =>
    \A c \in validate(runtime_config(ads, resp.version_info)) : c.kind = "missing-cluster"

\* Nothing is under way or due.
Idle ==
  /\ open /\ pc = "receive" /\ requests = <<>> /\ responses = <<>>
  /\ \A t \in TypeUrls : ~ srv[t].due

\* AdsState as the resources of a world alone would make it: the listeners are
\* those asked for, the endpoints those of the endpoint resources.
MirrorOf(rs) ==
  LET all == insert_listeners(EmptyMap, rs["listener"])
  IN  State(EmptyMap,
            [n \in {n \in DOMAIN all : ListenerNames = {} \/ n \in ListenerNames} |-> all[n]],
            insert_routes(EmptyMap, rs["route"]), insert_clusters(EmptyMap, rs["cluster"]),
            insert_endpoints(EmptyMap, rs["endpoint"]))

Mirror == [w \in DOMAIN Worlds |-> MirrorOf(Worlds[w].resources)]

SameOn(names, f, g) == \A n \in names : SameAt(f, g, n)

\* The worlds since the endpoint resources last changed, and the endpoints that a
\* cluster of these worlds carries inside it for a service.
Lately ==
  {w \in 1..world : \A v \in w..world :
     Worlds[v].resources["endpoint"] = Worlds[world].resources["endpoint"]}

AssignedLately(service) ==
  UNION {LET cs == Worlds[w].resources["cluster"]
         IN  {endpoints_from_assignment(cs[i].assignment[1]) : i \in
                {i \in Named(cs) : cs[i].assignment # None /\ cluster_snapshot(cs[i]).eds_service_name = service}}
         : w \in Lately}

\* When nothing is under way, AdsState holds what the server has under the names
\* subscribed, and no listener but those asked for: additions, changes and
\* deletions have all been applied.  Only a cluster that carries endpoints inside
\* it, received after the endpoint resources, can have replaced these.
MirrorsServer ==
  Idle =>
    LET m == Mirror[world] IN
      /\ SameOn(DOMAIN ads.listeners \cup DOMAIN m.listeners, ads.listeners, m.listeners)
      /\ SameOn(subscription(ads, "route"), ads.routes, m.routes)
      /\ SameOn(subscription(ads, "cluster"), ads.clusters, m.clusters)
      /\ \A s \in subscription(ads, "endpoint") :
           \/ SameOn({s}, ads.endpoints, m.endpoints)
           \/ s \in DOMAIN ads.endpoints /\ ads.endpoints[s] \in AssignedLately(s)

\* The clusters that requests can reach, and the part of a configuration they can.
Used(cfg) ==
  UNION {VirtualHostClusters(cfg.listeners[i].virtual_hosts) : i \in DOMAIN cfg.listeners}

Reachable(cfg) ==
  <<cfg.listeners,
    {cfg.clusters[i] : i \in {i \in DOMAIN cfg.clusters : cfg.clusters[i].name \in Used(cfg)}}>>

Expected == [w \in DOMAIN Worlds |-> Reachable(runtime_config(Mirror[w], ""))]

Synced == Reachable(published) = Expected[world]

\* The server has all the clusters that the routes refer to; a cluster is named by
\* a route resource, not only inside a listener (run ads_inline); and endpoints
\* inside clusters do not contradict the endpoint resources.
Complete ==
  LET m == Mirror[world] IN
    \A c \in Used(runtime_config(m, "")) :
      /\ \E n \in route_names(m) \cap DOMAIN m.routes : c \in VirtualHostClusters(m.routes[n])
      /\ c \in DOMAIN m.clusters
      /\ LET s == m.clusters[c].eds_service_name
         IN  \A e \in AssignedLately(s) : s \in DOMAIN m.endpoints /\ e = m.endpoints[s]

\* When nothing is under way, the published configuration is the one the server's
\* resources stand for, if they are complete, although each response leads to one
\* of its own and those that are incomplete are held back: the last one is never
\* among them.
IdleSynced == Idle /\ Complete => Synced

\* When the server's resources stop changing and the stream stops failing, the
\* published configuration becomes, and stays, the one these resources stand
\* for, even if an earlier push could not be decoded.
Converges ==
  endpoint_valid /\ world = Len(Worlds) ~> []Synced

-----------------------------------------------------------------------------
(* What the documentation says and the code does not do                    *)

\* Only complete configurations are published: when one is, the route
\* configurations its listeners name have arrived (the log line of the other
\* branch reads "ADS runtime config is not complete yet").
PublishedComplete ==
  [][published' # published => route_names(ads) \subseteq DOMAIN ads.routes]_vars

\* The client follows the resources it discovers: once nothing is under way, the
\* clusters that any virtual host of a listener names are subscribed.
ClustersFollowed ==
  Idle => \A n \in DOMAIN ads.listeners :
    VirtualHostClusters(ads.listeners[n].inline_virtual_hosts) \subseteq subscription(ads, "cluster")

==============================================================================

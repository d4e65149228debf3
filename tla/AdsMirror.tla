------------------------------ MODULE AdsMirror ------------------------------
(***************************************************************************)
(* What AdsState holds: proofs for every set of resources, capacity and    *)
(* number of failures.  ContentsInv says where it comes from, MirrorInv    *)
(* when it is what the server has.                                         *)
(***************************************************************************)
EXTENDS AdsProofs, AdsLemmas

-----------------------------------------------------------------------------
(* What AdsState holds                                                     *)

\* The resources of a type that the server has, or had.
Offered(t) == UNION {Range(Worlds[w].resources[t]) : w \in 1..world}

\* AdsState holds, and the responses under way carry, what the server offered.
Genuine ==
  /\ ListenersFrom(ads.listeners, Offered("listener"))
  /\ RoutesFrom(ads.routes, Offered("route"))
  /\ ClustersFrom(ads.clusters, Offered("cluster"))

Carries(r) == r.type_url \in TypeUrls => r.resources \in Seq(Offered(r.type_url))

ContentsInv == Genuine /\ \A i \in DOMAIN responses : Carries(responses[i])

\* What is offered is well formed, and includes all that the server has now.
LEMMA OfferedFacts ==
  ASSUME world \in DOMAIN Worlds, NEW t \in TypeUrls
  PROVE  /\ \A r \in Offered(t) : WellFormed(t, r)
         /\ Worlds[world].resources[t] \in Seq(Offered(t))
<1>1. world \in 1..Len(Worlds) /\ Len(Worlds) \in Nat
  BY EnvironmentAssumption
<1>2. \A w \in 1..world : w \in DOMAIN Worlds
  BY <1>1, EnvironmentAssumption
<1>3. ASSUME NEW r \in Offered(t) PROVE WellFormed(t, r)
  <2>1. PICK w \in 1..world : r \in Range(Worlds[w].resources[t])
    BY DEF Offered
  <2>2. PICK i \in DOMAIN Worlds[w].resources[t] : r = Worlds[w].resources[t][i]
    BY <2>1 DEF Range
  <2> QED  BY <1>2, <2>2, ResourcesAssumption
<1>4. Worlds[world].resources[t] \in Seq(Offered(t))
  <2> DEFINE rs == Worlds[world].resources[t]
             O == Offered(t)
  <2>1. rs \in Seq(Range(rs))
    BY ResourcesAssumption DEF Vector
  <2>2. world \in 1..world
    BY <1>1
  <2>3. Range(rs) \subseteq O
    BY <2>2 DEF Offered
  <2> HIDE DEF rs, O
  <2>4. rs \in Seq(O)
    BY <2>1, <2>3
  <2> QED  BY <2>4 DEF rs, O
<1> QED  BY <1>3, <1>4

\* The resources the server has had stay offered.
LEMMA OfferedGrow ==
  ASSUME TypeInv, world' \in {world, world + 1}, NEW t
  PROVE  Offered(t) \subseteq Offered(t)'
<1>1. world \in Nat
  BY EnvironmentAssumption DEF TypeInv, Bounds
<1>2. \A w \in 1..world : w \in 1..world'
  BY <1>1
<1> QED  BY <1>2 DEF Offered

\* What was offered stays so when the resources change.
LEMMA GenuineGrow ==
  ASSUME TypeInv, Genuine, world' \in {world, world + 1},
         ads'.listeners = ads.listeners, ads'.routes = ads.routes, ads'.clusters = ads.clusters
  PROVE  Genuine'
<1>1. /\ Offered("listener") \subseteq Offered("listener")'
      /\ Offered("route") \subseteq Offered("route")'
      /\ Offered("cluster") \subseteq Offered("cluster")'
  BY OfferedGrow
<1>2. ListenersFrom(ads.listeners, Offered("listener"))'
  BY <1>1 DEF Genuine, ListenersFrom
<1>3. RoutesFrom(ads.routes, Offered("route"))'
  BY <1>1 DEF Genuine, RoutesFrom
<1>4. ClustersFrom(ads.clusters, Offered("cluster"))'
  BY <1>1 DEF Genuine, ClustersFrom
<1> QED  BY <1>2, <1>3, <1>4 DEF Genuine

\* The same for the responses under way.
LEMMA CarriesGrow ==
  ASSUME TypeInv, world' \in {world, world + 1}, NEW r, Carries(r)
  PROVE  r.type_url \in TypeUrls => r.resources \in Seq(Offered(r.type_url)')
<1> DEFINE O == Offered(r.type_url)
           P == Offered(r.type_url)'
<1>1. O \subseteq P
  BY OfferedGrow
<1>2. r.type_url \in TypeUrls => r.resources \in Seq(O)
  BY DEF Carries
<1> HIDE DEF O, P
<1>3. r.type_url \in TypeUrls => r.resources \in Seq(P)
  BY <1>1, <1>2
<1> QED  BY <1>3 DEF P

\* An empty AdsState holds nothing.
LEMMA NewGenuine ==
  ASSUME NEW OL, NEW OR, NEW OC
  PROVE  ListenersFrom(EmptyMap, OL) /\ RoutesFrom(EmptyMap, OR) /\ ClustersFrom(EmptyMap, OC)
<1>1. DOMAIN EmptyMap = {} /\ IsFiniteSet({})
  BY FS_EmptySet DEF EmptyMap
<1> QED  BY <1>1 DEF ListenersFrom, RoutesFrom, ClustersFrom

\* At the start AdsState is empty and nothing is under way.
LEMMA ContentsInit == Init => ContentsInv
<1> SUFFICES ASSUME Init PROVE ContentsInv
  OBVIOUS
<1>1. ads.listeners = EmptyMap /\ ads.routes = EmptyMap /\ ads.clusters = EmptyMap
  BY DEF Init, NewAdsState, State
<1>2. DOMAIN responses = {}
  BY DEF Init
<1> QED  BY <1>1, <1>2, NewGenuine DEF ContentsInv, Genuine

\* A new stream starts from an empty AdsState.
LEMMA ConnectContents ==
  ASSUME TypeInv, ContentsInv, Connect
  PROVE  ContentsInv'
<1>1. ads' = set_subscription(NewAdsState, "listener", ListenerNames) /\ responses' = <<>>
  BY Zenon DEF Connect
<1>2. OneSubscription(NewAdsState, ads', "listener", ListenerNames)
  <2>1. Fields(NewAdsState)
    BY DEF NewAdsState, State, Fields
  <2> QED  BY <1>1, <2>1, SubscribeFacts
<1>3. ads'.listeners = EmptyMap /\ ads'.routes = EmptyMap /\ ads'.clusters = EmptyMap
  BY <1>2 DEF OneSubscription, NewAdsState, State
<1>4. Genuine'
  BY <1>3, NewGenuine DEF Genuine
<1>5. DOMAIN responses' = {}
  BY <1>1
<1> QED  BY <1>4, <1>5 DEF ContentsInv

\* A response is applied to what AdsState holds.
LEMMA AppliedGenuine ==
  ASSUME TypeInv, Genuine, NEW r, Carries(r), world' = world, ads' = apply_response(ads, r)
  PROVE  Genuine'
<1> DEFINE t == r.type_url
<1>1. \A u : Offered(u)' = Offered(u)
  BY DEF Offered
<1>2. /\ t # "listener" => ads'.listeners = ads.listeners
      /\ t # "route" => ads'.routes = ads.routes
      /\ t # "cluster" => ads'.clusters = ads.clusters
  BY ApplyFacts, ZenonT(20) DEF TypeInv, Shape
<1>3. \A u \in TypeUrls : \A x \in Offered(u) : x.name \in Nat
  BY OfferedFacts DEF TypeInv, Bounds, WellFormed
<1>4. ListenersFrom(ads'.listeners, Offered("listener"))
  <2>1. CASE t # "listener"
    BY <1>2, <2>1 DEF Genuine
  <2>2. CASE t = "listener"
    <3>1. ads'.listeners = insert_listeners(prune_requested(ads.listeners, subscription(ads, "listener")),
                                            r.resources)
      BY <2>2 DEF apply_response, apply_listeners, State
    <3>2. r.resources \in Seq(Offered("listener"))
      BY <2>2 DEF Carries, TypeUrls
    <3> QED  BY <1>3, <3>1, <3>2, ListenersInserted DEF Genuine, TypeUrls
  <2> QED  BY <2>1, <2>2
<1>5. RoutesFrom(ads'.routes, Offered("route"))
  <2>1. CASE t # "route"
    BY <1>2, <2>1 DEF Genuine
  <2>2. CASE t = "route"
    <3>1. ads'.routes = insert_routes(prune_requested(ads.routes, subscription(ads, "route")), r.resources)
      BY <2>2 DEF apply_response, apply_routes, State
    <3>2. r.resources \in Seq(Offered("route"))
      BY <2>2 DEF Carries, TypeUrls
    <3> QED  BY <3>1, <3>2, RoutesInserted DEF Genuine
  <2> QED  BY <2>1, <2>2
<1>6. ClustersFrom(ads'.clusters, Offered("cluster"))
  <2>1. CASE t # "cluster"
    BY <1>2, <2>1 DEF Genuine
  <2>2. CASE t = "cluster"
    <3>1. ads'.clusters = insert_clusters(prune_requested(ads.clusters, subscription(ads, "cluster")),
                                          r.resources)
      BY <2>2 DEF apply_response, apply_clusters, State
    <3>2. r.resources \in Seq(Offered("cluster"))
      BY <2>2 DEF Carries, TypeUrls
    <3> QED  BY <1>3, <3>1, <3>2, ClustersInserted DEF Genuine, TypeUrls
  <2> QED  BY <2>1, <2>2
<1> QED  BY <1>1, <1>4, <1>5, <1>6 DEF Genuine

\* Steps that neither apply a response nor add one.
LEMMA ContentsKept ==
  ASSUME TypeInv, ContentsInv, world' \in {world, world + 1},
         ads'.listeners = ads.listeners, ads'.routes = ads.routes, ads'.clusters = ads.clusters,
         responses' = responses \/ responses' = <<>>
  PROVE  ContentsInv'
<1>1. Genuine'
  BY GenuineGrow DEF ContentsInv
<1>2. ASSUME NEW i \in DOMAIN responses' PROVE Carries(responses[i])'
  <2>1. i \in DOMAIN responses /\ responses'[i] = responses[i]
    OBVIOUS
  <2>2. Carries(responses[i])
    BY <2>1 DEF ContentsInv
  <2> QED  BY <2>1, <2>2, CarriesGrow DEF Carries
<1> QED  BY <1>1, <1>2 DEF ContentsInv

\* What apply_response takes over was in the response.
LEMMA ReceiveContents ==
  ASSUME TypeInv, ContentsInv, Receive
  PROVE  ContentsInv'
<1>1. CASE ~ Decodes(Head(responses))
  BY <1>1, ContentsKept DEF Receive, Return, server
<1>2. CASE Decodes(Head(responses))
  <2>1. /\ ads' = apply_response(ads, Head(responses)) /\ responses' = Tail(responses)
        /\ responses # <<>> /\ world' = world
    BY <1>2 DEF Receive, server
  <2>2. /\ Len(responses) \in Nat \ {0} /\ DOMAIN responses = 1..Len(responses)
        /\ DOMAIN Tail(responses) = 1..(Len(responses) - 1)
        /\ Head(responses) = responses[1]
        /\ \A i \in 1..(Len(responses) - 1) : Tail(responses)[i] = responses[i + 1]
    BY <2>1, QueueTail DEF TypeInv, Shape
  <2>3. Carries(Head(responses))
    BY <2>2 DEF ContentsInv
  <2>4. Genuine'
    BY <2>1, <2>3, AppliedGenuine DEF ContentsInv
  <2>5. ASSUME NEW i \in DOMAIN responses' PROVE Carries(responses[i])'
    <3>1. i + 1 \in DOMAIN responses /\ responses'[i] = responses[i + 1]
      BY <2>1, <2>2
    <3>2. Carries(responses[i + 1])
      BY <3>1 DEF ContentsInv
    <3> QED  BY <2>1, <3>1, <3>2, CarriesGrow DEF Carries
  <2> QED  BY <2>4, <2>5 DEF ContentsInv
<1> QED  BY <1>1, <1>2

\* What the server pushes is among its resources.
LEMMA SubscribedOffered ==
  ASSUME world \in DOMAIN Worlds, NEW t \in TypeUrls, NEW names
  PROVE  Subscribed(t, names) \in Seq(Offered(t))
<1> DEFINE rs == Worlds[world].resources[t]
           K == {i \in DOMAIN rs : names = {} \/ rs[i].name \in names}
<1>1. rs \in Seq(Offered(t)) /\ K \subseteq DOMAIN rs
  BY OfferedFacts
<1>2. Subscribed(t, names) = InOrder(rs, K)
  BY DEF Subscribed
<1> HIDE DEF rs, K
<1> QED  BY <1>1, <1>2, InOrderFacts

\* What the server pushes has the names it knows.
LEMMA SubscribedNames ==
  ASSUME world \in DOMAIN Worlds, NEW t \in TypeUrls, NEW names
  PROVE  \A i \in DOMAIN Subscribed(t, names) :
           names = {} \/ Subscribed(t, names)[i].name \in names
<1> DEFINE rs == Worlds[world].resources[t]
           K == {i \in DOMAIN rs : names = {} \/ rs[i].name \in names}
<1>1. rs \in Seq(Offered(t)) /\ K \subseteq DOMAIN rs
  BY OfferedFacts
<1>2. Subscribed(t, names) = InOrder(rs, K) /\ \A i \in K : names = {} \/ rs[i].name \in names
  BY DEF Subscribed
<1> HIDE DEF rs, K
<1>3. \A i \in DOMAIN InOrder(rs, K) : sorted_unique(K)[i] \in K /\ InOrder(rs, K)[i] = rs[sorted_unique(K)[i]]
  BY <1>1, InOrderFacts
<1> QED  BY <1>2, <1>3

\* What the server pushes is what it has.
LEMMA PushContents ==
  ASSUME TypeInv, ContentsInv, ServerPushesUnknown \/ \E t \in TypeUrls : ServerPushes(t)
  PROVE  ContentsInv'
<1>1. ads' = ads /\ world' = world
  BY Zenon DEF ServerPushesUnknown, ServerPushes, client
<1>2. PICK r : responses' = Append(responses, r) /\ Carries(r)
  <2>1. CASE ServerPushesUnknown
    BY <2>1 DEF ServerPushesUnknown, Carries, TypeUrls
  <2>2. CASE \E t \in TypeUrls : ServerPushes(t)
    <3>1. PICK t \in TypeUrls : ServerPushes(t)
      BY <2>2
    <3> DEFINE rs == Subscribed(t, srv[t].names)
               r == [type_url |-> t, version_info |-> Worlds[world].version, nonce |-> nonce + 1,
                     resources |-> rs]
    <3>2. rs \in Seq(Offered(t))
      BY SubscribedOffered DEF TypeInv, Bounds
    <3>3. responses' = Append(responses, r)
      BY <3>1 DEF ServerPushes
    <3> HIDE DEF rs
    <3>4. Carries(r)
      BY <3>2 DEF Carries
    <3> QED  BY <3>3, <3>4
  <2> QED  BY <2>1, <2>2
<1>3. /\ Len(responses) \in Nat /\ DOMAIN responses = 1..Len(responses)
      /\ DOMAIN Append(responses, r) = 1..(Len(responses) + 1)
      /\ Append(responses, r)[Len(responses) + 1] = r
      /\ \A i \in 1..Len(responses) : Append(responses, r)[i] = responses[i]
  BY QueueAppend DEF TypeInv, Shape
<1>4. Genuine'
  BY <1>1, GenuineGrow DEF ContentsInv
<1>5. ASSUME NEW i \in DOMAIN responses' PROVE Carries(responses[i])'
  <2>1. Carries(responses'[i])
    <3>1. CASE i = Len(responses) + 1
      BY <1>2, <1>3, <3>1
    <3>2. CASE i # Len(responses) + 1
      <4>1. i \in DOMAIN responses /\ responses'[i] = responses[i]
        BY <1>2, <1>3, <3>2
      <4> QED  BY <4>1 DEF ContentsInv
    <3> QED  BY <3>1, <3>2
  <2> QED  BY <1>1, <2>1, CarriesGrow DEF Carries
<1> QED  BY <1>4, <1>5 DEF ContentsInv

\* Every step keeps the contents genuine.
LEMMA ContentsStep == TypeInv /\ ContentsInv /\ [Next]_vars => ContentsInv'
<1> SUFFICES ASSUME TypeInv, ContentsInv, [Next]_vars PROVE ContentsInv'
  OBVIOUS
<1>1. CASE InvalidEndpoint \/ ConnectFails \/ Publish \/ Reconnect
  BY <1>1, ContentsKept DEF InvalidEndpoint, ConnectFails, Publish, Reconnect, server
<1>2. CASE Connect
  BY <1>2, ConnectContents
<1>3. CASE Receive
  BY <1>3, ReceiveContents
<1>4. CASE ReceiveFails \/ SendFails
  BY <1>4, ContentsKept DEF ReceiveFails, SendFails, Return, server
<1>5. CASE Acknowledge \/ Subscribe
  <2>1. world' = world /\ responses' = responses
    BY <1>5, Zenon DEF Acknowledge, Subscribe, server
  <2>2. ads' = ads \/ \E t, names : OneSubscription(ads, ads', t, names)
    <3>1. ads' = ads \/ \E t, names : ads' = set_subscription(ads, t, names)
      BY <1>5, Zenon DEF Acknowledge, Subscribe
    <3> QED  BY <3>1, SubscribeFacts DEF TypeInv, Shape
  <2> QED  BY <2>1, <2>2, ContentsKept, ZenonT(20) DEF OneSubscription
<1>6. CASE StreamBreaks \/ WorldChanges \/ ServerReceives
  BY <1>6, ContentsKept DEF StreamBreaks, WorldChanges, ServerReceives, client, server
<1>7. CASE ServerPushesUnknown \/ \E t \in TypeUrls : ServerPushes(t)
  BY <1>7, PushContents
<1>8. CASE UNCHANGED vars
  BY <1>8, ContentsKept DEF vars
<1> QED
  BY <1>1, <1>2, <1>3, <1>4, <1>5, <1>6, <1>7, <1>8 DEF Next, run, Environment

\* From resources the server offered, AdsState makes no other conflict.
LEMMA ContentsIncomplete == TypeInv /\ ContentsInv => OnlyMissingClusters
<1> SUFFICES ASSUME TypeInv, ContentsInv
             PROVE  \A c \in validate(runtime_config(ads, resp.version_info)) : c.kind = "missing-cluster"
  BY DEF OnlyMissingClusters
<1>1. /\ \A l \in Offered("listener") : WellFormed("listener", l)
      /\ \A r \in Offered("route") : WellFormed("route", r)
  BY OfferedFacts DEF TypeInv, Bounds, TypeUrls
<1> QED  BY <1>1, OnlyClustersMissing, ZenonT(20) DEF ContentsInv, Genuine

\* A configuration that is held back only lacks clusters that have not arrived:
\* from resources of any kind, AdsState makes no duplicate name, no two protocols
\* on a port and no route without destinations.
THEOREM HeldBackOnlyIncomplete == Spec => []OnlyMissingClusters
  BY ContentsIncomplete, AdsInvariance, ContentsInit, ContentsStep, PTL DEF Spec

-----------------------------------------------------------------------------
(* AdsState mirrors the server                                             *)

\* The server's clusters are no older than its endpoint resources.
LEMMA SubscribedLate ==
  ASSUME world \in DOMAIN Worlds, NEW names
  PROVE  OfLate(Subscribed("cluster", names))
<1> DEFINE rs == Worlds[world].resources["cluster"]
           K == {i \in DOMAIN rs : names = {} \/ rs[i].name \in names}
           O == LateClusters
<1>1. world \in 1..world /\ \A v \in world..world : v = world
  BY EnvironmentAssumption
<1>2. world \in Lately
  BY <1>1 DEF Lately
<1>3. rs \in Seq(Range(rs)) /\ Range(rs) \subseteq O
  BY <1>2, ResourcesAssumption DEF LateClusters, Vector, TypeUrls
<1>4. Subscribed("cluster", names) = InOrder(rs, K) /\ K \subseteq DOMAIN rs
  BY DEF Subscribed
<1> HIDE DEF rs, K, O
<1>5. rs \in Seq(O)
  BY <1>3
<1>6. InOrder(rs, K) \in Seq(O)
  BY <1>4, <1>5, InOrderFacts
<1> QED  BY <1>4, <1>6 DEF OfLate, O

\* A push has what the server has, and is the last one under way.
LEMMA PushesMirror ==
  ASSUME TypeInv, MirrorInv, ServerPushesUnknown \/ \E t \in TypeUrls : ServerPushes(t)
  PROVE  MirrorInv'
<1>1. CASE ServerPushesUnknown
  <2> DEFINE r == [type_url |-> "unknown", version_info |-> Worlds[world].version, nonce |-> nonce + 1,
                   resources |-> <<>>]
  <2>1. /\ UNCHANGED <<ads, requests, open, world, srv>> /\ nonce' = nonce + 1
        /\ responses' = Append(responses, r)
    BY <1>1 DEF ServerPushesUnknown, client
  <2>2. r.type_url = "unknown" /\ "unknown" \notin TypeUrls
    BY DEF TypeUrls
  <2> HIDE DEF r
  <2> QED  BY <2>1, <2>2, PushMirror DEF TypeUrls
<1>2. CASE \E t \in TypeUrls : ServerPushes(t)
  <2>1. PICK t \in TypeUrls : ServerPushes(t)
    BY <1>2
  <2> DEFINE rs == Subscribed(t, srv[t].names)
             r == [type_url |-> t, version_info |-> Worlds[world].version, nonce |-> nonce + 1,
                   resources |-> rs]
             k == Known(srv[t].names, FALSE, nonce + 1, srv[t].acked)
  <2>2. /\ UNCHANGED <<ads, requests, open, world>> /\ nonce' = nonce + 1
        /\ responses' = Append(responses, r)
        /\ srv' = [srv EXCEPT ![t] = k]
    BY <2>1 DEF ServerPushes, client
  <2>3. r.type_url = t /\ r.resources = rs
    <3> HIDE DEF rs
    <3> QED  OBVIOUS
  <2>4. k.names = srv[t].names /\ k.nonce = nonce + 1
    BY DEF Known
  <2>5. srv = [u \in TypeUrls |-> srv[u]]
    BY DEF TypeInv, Shape
  <2> HIDE DEF r, k
  <2>6. srv'[t] = k /\ \A u \in TypeUrls \ {t} : srv'[u] = srv[u]
    BY <2>2, <2>5
  <2>7. r.resources = Subscribed(t, srv'[t].names)
    BY <2>3, <2>4, <2>6
  <2> HIDE DEF rs
  <2>8. r.type_url = t /\ srv'[t].nonce = nonce + 1
    BY <2>3, <2>4, <2>6
  <2>9. \A u \in TypeUrls \ {t} : srv'[u] = srv[u]
    BY <2>6
  <2>10. /\ UNCHANGED <<ads, requests, open, world>> /\ nonce' = nonce + 1
         /\ responses' = Append(responses, r)
    BY <2>2
  <2>11. t = "cluster" => OfLate(r.resources)
    BY <2>4, <2>6, <2>7, SubscribedLate DEF TypeInv, Bounds
  <2> QED  BY <2>7, <2>8, <2>9, <2>10, <2>11, PushMirror
<1> QED  BY <1>1, <1>2

\* A response with everything subscribed makes AdsState mirror the server.
LEMMA AppliedMirrors ==
  ASSUME TypeInv, NEW t \in DOMAIN ads.subscriptions, NEW r, r.type_url = t,
         r.resources = Subscribed(t, ads.subscriptions[t]),
         ads' = apply_response(ads, r), world' = world
  PROVE  Mirrored(t)'
<1> DEFINE rs == Worlds[world].resources[t]
           names == ads.subscriptions[t]
           O == Offered(t)
<1>1. t \in TypeUrls /\ rs \in Seq(O)
  BY OfferedFacts DEF TypeInv, Bounds
<1>2. r.resources = InOrder(rs, Chosen(rs, names))
  BY DEF Subscribed, Chosen
<1>3. subscription(ads, t) = names
  BY DEF subscription
<1>4. ads'.subscriptions = ads.subscriptions
  BY ApplyFacts, ZenonT(20) DEF TypeInv, Shape
<1> HIDE DEF rs, names, O
<1> SUFFICES ASSUME NEW n, names = {} \/ n \in names PROVE SameAt(Holds(ads', t), Alone(t, rs), n)
  BY <1>4 DEF Mirrored, rs, names
<1>5. CASE t = "listener"
  <2>1. Holds(ads', t) = insert_listeners(prune_requested(ads.listeners, names), r.resources)
    BY <1>3, <1>5 DEF apply_response, apply_listeners, State, Holds
  <2>2. Alone(t, rs) = insert_listeners(EmptyMap, rs)
    BY <1>5 DEF Alone
  <2> QED  BY <1>1, <1>2, <2>1, <2>2, SameListeners
<1>6. CASE t = "route"
  <2>1. Holds(ads', t) = insert_routes(prune_requested(ads.routes, names), r.resources)
    BY <1>3, <1>6 DEF apply_response, apply_routes, State, Holds
  <2>2. Alone(t, rs) = insert_routes(EmptyMap, rs)
    BY <1>6 DEF Alone
  <2> QED  BY <1>1, <1>2, <2>1, <2>2, SameRoutes
<1>7. CASE t = "cluster"
  <2>1. Holds(ads', t) = insert_clusters(prune_requested(ads.clusters, names), r.resources)
    BY <1>3, <1>7 DEF apply_response, apply_clusters, State, Holds
  <2>2. Alone(t, rs) = insert_clusters(EmptyMap, rs)
    BY <1>7 DEF Alone
  <2> QED  BY <1>1, <1>2, <2>1, <2>2, SameClusters
<1>8. CASE t = "endpoint"
  <2>1. Holds(ads', t) = insert_endpoints(prune_requested(ads.endpoints, names), r.resources)
    BY <1>3, <1>8 DEF apply_response, apply_endpoints, State, Holds
  <2>2. Alone(t, rs) = insert_endpoints(EmptyMap, rs)
    BY <1>8 DEF Alone
  <2> QED  BY <1>1, <1>2, <2>1, <2>2, SameEndpoints
<1> QED  BY <1>1, <1>5, <1>6, <1>7, <1>8 DEF TypeUrls

\* Endpoints that come inside clusters.
LEMMA AssignedLater ==
  ASSUME NEW rs, OfLate(rs), NEW n
  PROVE  LET b == insert_assigned(ads.endpoints, rs)
         IN  SameAt(b, ads.endpoints, n) \/ (n \in DOMAIN b /\ b[n] \in AssignedLately(n))
<1> DEFINE b == insert_assigned(ads.endpoints, rs)
           a == ads.endpoints
<1> USE DEF OfLate
<1>1. /\ DOMAIN a \subseteq DOMAIN b
      /\ \A k \in DOMAIN b :
           \/ \E i \in InlineOf(rs) : /\ k = cluster_snapshot(rs[i]).eds_service_name
                                     /\ b[k] = endpoints_from_assignment(rs[i].assignment[1])
           \/ k \in DOMAIN a /\ b[k] = a[k]
  BY InsertAssigned
<1>2. ASSUME NEW i \in InlineOf(rs), n = cluster_snapshot(rs[i]).eds_service_name
      PROVE  endpoints_from_assignment(rs[i].assignment[1]) \in AssignedLately(n)
  <2>1. i \in DOMAIN rs /\ rs[i].assignment # None /\ rs[i].name # EmptyName
    BY DEF InlineOf, Named
  <2>2. rs[i] \in LateClusters
    BY <2>1
  <2>3. PICK w \in Lately : rs[i] \in Range(Worlds[w].resources["cluster"])
    BY <2>2 DEF LateClusters
  <2>4. PICK j \in DOMAIN Worlds[w].resources["cluster"] : rs[i] = Worlds[w].resources["cluster"][j]
    BY <2>3 DEF Range
  <2> DEFINE given(v) == LET cs == Worlds[v].resources["cluster"]
                         IN  {endpoints_from_assignment(cs[k].assignment[1]) : k \in
                               {k \in Named(cs) : /\ cs[k].assignment # None
                                                  /\ cluster_snapshot(cs[k]).eds_service_name = n}}
  <2>5. endpoints_from_assignment(rs[i].assignment[1]) \in given(w)
    BY <1>2, <2>1, <2>4 DEF Named
  <2>6. AssignedLately(n) = UNION {given(v) : v \in Lately}
    BY DEF AssignedLately
  <2> HIDE DEF given
  <2> QED  BY <2>5, <2>6
<1>3. n \in DOMAIN b => SameAt(b, a, n) \/ b[n] \in AssignedLately(n)
  BY <1>1, <1>2 DEF SameAt
<1> HIDE DEF b, a
<1> QED  BY <1>1, <1>3 DEF SameAt, b, a

\* A response leaves the other types as they are, but for those endpoints.
LEMMA OthersMirrored ==
  ASSUME TypeInv, NEW t \in TypeUrls, Mirrored(t), NEW r, r.type_url # t,
         t = "endpoint" /\ r.type_url = "cluster" => OfLate(r.resources),
         ads' = apply_response(ads, r), world' = world
  PROVE  Mirrored(t)'
<1>1. /\ ads'.subscriptions = ads.subscriptions
      /\ r.type_url # "listener" => ads'.listeners = ads.listeners
      /\ r.type_url # "route" => ads'.routes = ads.routes
      /\ r.type_url # "cluster" => ads'.clusters = ads.clusters
      /\ r.type_url \notin {"cluster", "endpoint"} => ads'.endpoints = ads.endpoints
  BY ApplyFacts, ZenonT(20) DEF TypeInv, Shape
<1>2. \A n : AssignedLately(n)' = AssignedLately(n)
  BY LateSame
<1>3. CASE t # "endpoint" \/ r.type_url # "cluster"
  <2>1. ASSUME t = "listener" PROVE Holds(ads', t) = Holds(ads, t)
    BY <1>1, <2>1 DEF Holds
  <2>2. ASSUME t = "route" PROVE Holds(ads', t) = Holds(ads, t)
    BY <1>1, <2>2 DEF Holds
  <2>3. ASSUME t = "cluster" PROVE Holds(ads', t) = Holds(ads, t)
    BY <1>1, <2>3 DEF Holds
  <2>4. ASSUME t = "endpoint" PROVE Holds(ads', t) = Holds(ads, t) /\ ads'.endpoints = ads.endpoints
    BY <1>1, <1>3, <2>4 DEF Holds
  <2>5. Holds(ads', t) = Holds(ads, t) /\ (t = "endpoint" => ads'.endpoints = ads.endpoints)
    BY <2>1, <2>2, <2>3, <2>4 DEF TypeUrls
  <2> QED  BY <1>1, <1>2, <2>5 DEF Mirrored, Overwritten
<1>4. CASE t = "endpoint" /\ r.type_url = "cluster"
  <2>1. ads'.endpoints = insert_assigned(ads.endpoints, r.resources)
    BY <1>4 DEF apply_response, apply_clusters, State
  <2>2. Holds(ads', t) = ads'.endpoints /\ Holds(ads, t) = ads.endpoints
    BY <1>4 DEF Holds
  <2>3. ASSUME NEW n PROVE SameAt(Holds(ads', t), Holds(ads, t), n) \/ Overwritten(n)'
    BY <1>2, <1>4, <2>1, <2>2, AssignedLater DEF Overwritten
  <2>4. ASSUME NEW n, Overwritten(n), SameAt(Holds(ads', t), Holds(ads, t), n) PROVE Overwritten(n)'
    BY <1>2, <2>2, <2>4 DEF Overwritten, SameAt
  <2>5. ASSUME NEW n, ads.subscriptions[t] = {} \/ n \in ads.subscriptions[t]
        PROVE  SameAt(Holds(ads', t), Alone(t, Worlds[world].resources[t]), n) \/ Overwritten(n)'
    <3>1. SameAt(Holds(ads, t), Alone(t, Worlds[world].resources[t]), n) \/ Overwritten(n)
      BY <2>5 DEF Mirrored
    <3> QED  BY <2>3, <2>4, <3>1 DEF SameAt
  <2> QED  BY <1>1, <1>4, <2>5 DEF Mirrored
<1> QED  BY <1>3, <1>4

\* Every step keeps the mirror.
LEMMA MirrorStep == TypeInv /\ AgreeInv /\ MirrorInv /\ [Next]_vars => MirrorInv'
<1> SUFFICES ASSUME TypeInv, AgreeInv, MirrorInv, [Next]_vars PROVE MirrorInv'
  OBVIOUS
<1>1. CASE InvalidEndpoint \/ ConnectFails \/ Publish \/ Reconnect
  BY <1>1, LocalMirror DEF InvalidEndpoint, ConnectFails, Publish, Reconnect, server
<1>2. CASE Connect
  BY <1>2, ConnectMirror
<1>3. CASE Receive
  <2>1. CASE Decodes(Head(responses))
    <3>1. ads' = apply_response(ads, Head(responses)) /\ world' = world
      BY <1>3, <2>1 DEF Receive, server
    <3>2. TakenOver(Head(responses))
      BY <3>1, AppliedMirrors DEF TakenOver
    <3>3. LeftAlone(Head(responses))
      BY <3>1, OthersMirrored DEF LeftAlone
    <3> QED  BY <1>3, <2>1, <3>2, <3>3, ReceiveMirror
  <2>2. CASE ~ Decodes(Head(responses))
    BY <1>3, <2>2, ClosedMirror DEF Receive, Return, server
  <2> QED  BY <2>1, <2>2
<1>4. CASE ReceiveFails \/ SendFails
  BY <1>4, ClosedMirror DEF ReceiveFails, SendFails, Return, server
<1>5. CASE Acknowledge
  BY <1>5, AcknowledgeMirror
<1>6. CASE Subscribe
  BY <1>6, SubscribeMirror
<1>7. CASE StreamBreaks
  BY <1>7, ClosedMirror DEF StreamBreaks, server
<1>8. CASE WorldChanges
  BY <1>8, WorldChangesMirror
<1>9. CASE ServerReceives
  BY <1>9, ServerReceivesMirror
<1>10. CASE ServerPushesUnknown \/ \E t \in TypeUrls : ServerPushes(t)
  BY <1>10, PushesMirror
<1>11. CASE UNCHANGED vars
  BY <1>11, LocalMirror DEF vars
<1> QED
  BY <1>1, <1>2, <1>3, <1>4, <1>5, <1>6, <1>7, <1>8, <1>9, <1>10, <1>11 DEF Next, run, Environment

-----------------------------------------------------------------------------
(* No listener that was not asked for                                      *)

\* A push of listeners has only those of the names the server knows.
LEMMA PushWanted ==
  ASSUME TypeInv, WantedInv, ServerPushesUnknown \/ \E t \in TypeUrls : ServerPushes(t)
  PROVE  WantedInv'
<1>1. UNCHANGED <<ads, requests, open>>
  BY Zenon DEF ServerPushesUnknown, ServerPushes, client
<1> SUFFICES ASSUME open PROVE WantedInv'
  BY <1>1 DEF WantedInv
<1>2. PICK r : /\ responses' = Append(responses, r) /\ WantedOnly(r)
               /\ srv'["listener"].due \/ srv'["listener"].nonce # 0 =>
                    srv'["listener"].names = ListenerNames
  <2>1. CASE ServerPushesUnknown
    BY <2>1 DEF ServerPushesUnknown, WantedOnly, WantedInv
  <2>2. CASE \E t \in TypeUrls : ServerPushes(t)
    <3>1. PICK t \in TypeUrls : ServerPushes(t)
      BY <2>2
    <3> DEFINE rs == Subscribed(t, srv[t].names)
               r == [type_url |-> t, version_info |-> Worlds[world].version, nonce |-> nonce + 1,
                     resources |-> rs]
               k == Known(srv[t].names, FALSE, nonce + 1, srv[t].acked)
    <3>2. responses' = Append(responses, r) /\ srv' = [srv EXCEPT ![t] = k] /\ srv[t].due
      BY <3>1 DEF ServerPushes
    <3>3. k.names = srv[t].names
      BY DEF Known
    <3>4. srv = [u \in TypeUrls |-> srv[u]]
      BY DEF TypeInv, Shape
    <3>5. \A i \in DOMAIN rs : srv[t].names = {} \/ rs[i].name \in srv[t].names
      BY SubscribedNames DEF TypeInv, Bounds
    <3> HIDE DEF rs, k
    <3>6. WantedOnly(r)
      BY <3>2, <3>5 DEF WantedOnly, Wanted, WantedInv
    <3>7. srv'["listener"].due \/ srv'["listener"].nonce # 0 => srv'["listener"].names = ListenerNames
      <4>1. CASE t = "listener"
        BY <3>2, <3>3, <3>4, <4>1 DEF WantedInv
      <4>2. CASE t # "listener"
        BY <3>2, <3>4, <4>2 DEF WantedInv
      <4> QED  BY <4>1, <4>2
    <3> HIDE DEF r
    <3> QED  BY <3>2, <3>6, <3>7
  <2> QED  BY <2>1, <2>2
<1>3. /\ Len(responses) \in Nat /\ DOMAIN responses = 1..Len(responses)
      /\ DOMAIN responses' = 1..(Len(responses) + 1) /\ responses'[Len(responses) + 1] = r
      /\ \A i \in 1..Len(responses) : responses'[i] = responses[i]
  BY <1>2, QueueAppend DEF TypeInv, Shape
<1>4. ASSUME NEW i \in DOMAIN responses' PROVE WantedOnly(responses'[i])
  <2>1. CASE i = Len(responses) + 1
    BY <1>2, <1>3, <2>1
  <2>2. CASE i # Len(responses) + 1
    <3>1. i \in DOMAIN responses /\ responses'[i] = responses[i]
      BY <1>3, <2>2
    <3> QED  BY <3>1 DEF WantedInv
  <2> QED  BY <2>1, <2>2
<1> QED  BY <1>1, <1>2, <1>4 DEF WantedInv

\* Listeners taken over are among those of the response.
LEMMA ReceiveWanted ==
  ASSUME TypeInv, ContentsInv, WantedInv, Receive, Decodes(Head(responses))
  PROVE  WantedInv'
<1> DEFINE r == Head(responses)
<1>1. /\ ads' = apply_response(ads, r) /\ responses' = Tail(responses) /\ responses # <<>>
      /\ UNCHANGED <<requests, open, srv>>
  BY DEF Receive, server
<1> SUFFICES ASSUME open PROVE WantedInv'
  BY <1>1 DEF WantedInv
<1>2. /\ Len(responses) \in Nat \ {0} /\ DOMAIN responses = 1..Len(responses)
      /\ DOMAIN responses' = 1..(Len(responses) - 1)
      /\ r = responses[1]
      /\ \A i \in 1..(Len(responses) - 1) : responses'[i] = responses[i + 1]
  BY <1>1, QueueTail DEF TypeInv, Shape
<1>3. Carries(r) /\ WantedOnly(r)
  BY <1>2 DEF ContentsInv, WantedInv
<1> HIDE DEF r
<1>4. \A i \in DOMAIN responses' : WantedOnly(responses'[i])
  BY <1>2 DEF WantedInv
<1>5. CASE r.type_url # "listener"
  <2>1. ads'.listeners = ads.listeners
    BY <1>1, <1>5, ApplyFacts, Zenon DEF TypeInv, Shape
  <2> QED  BY <1>1, <1>4, <2>1 DEF WantedInv
<1>6. CASE r.type_url = "listener"
  <2> DEFINE rs == r.resources
             p == prune_requested(ads.listeners, subscription(ads, "listener"))
             O == Offered("listener")
  <2>1. ads'.listeners = insert_listeners(p, rs)
    BY <1>1, <1>6 DEF apply_response, apply_listeners, State
  <2>2. rs \in Seq(O)
    BY <1>3, <1>6 DEF Carries, TypeUrls
  <2>3. DOMAIN p \subseteq DOMAIN ads.listeners
    BY PruneFacts
  <2>4. \A i \in DOMAIN rs : Wanted(rs[i].name)
    BY <1>3, <1>6 DEF WantedOnly
  <2> HIDE DEF rs, p, O
  <2>5. DOMAIN ads'.listeners = DOMAIN p \cup {rs[i].name : i \in DOMAIN rs}
    BY <2>1, <2>2, InsertListeners, Zenon DEF Insertion
  <2>6. \A n \in DOMAIN ads'.listeners : Wanted(n)
    BY <2>3, <2>4, <2>5 DEF WantedInv
  <2> QED  BY <1>1, <1>4, <2>6 DEF WantedInv
<1> QED  BY <1>5, <1>6

\* Every step keeps to the listeners wanted.
LEMMA WantedStep ==
  TypeInv /\ ContentsInv /\ MirrorInv /\ WantedInv /\ [Next]_vars => WantedInv'
<1> SUFFICES ASSUME TypeInv, ContentsInv, MirrorInv, WantedInv, [Next]_vars PROVE WantedInv'
  OBVIOUS
<1>1. CASE InvalidEndpoint \/ ConnectFails \/ Publish \/ Reconnect
  BY <1>1, SendWanted DEF InvalidEndpoint, ConnectFails, Publish, Reconnect, server
<1>2. CASE Connect
  BY <1>2, ConnectWanted
<1>3. CASE Receive
  <2>1. CASE Decodes(Head(responses))
    BY <1>3, <2>1, ReceiveWanted
  <2>2. CASE ~ Decodes(Head(responses))
    BY <1>3, <2>2 DEF Receive, Return, WantedInv
  <2> QED  BY <2>1, <2>2
<1>4. CASE ReceiveFails \/ SendFails \/ StreamBreaks
  BY <1>4 DEF ReceiveFails, SendFails, Return, StreamBreaks, WantedInv
<1>5. CASE Acknowledge
  BY <1>5, AcknowledgeWanted
<1>6. CASE Subscribe
  BY <1>6, SubscribeWanted
<1>7. CASE WorldChanges
  BY <1>7, WorldChangesWanted
<1>8. CASE ServerReceives
  BY <1>8, ServerReceivesWanted
<1>9. CASE ServerPushesUnknown \/ \E t \in TypeUrls : ServerPushes(t)
  BY <1>9, PushWanted
<1>10. CASE UNCHANGED vars
  BY <1>10 DEF vars, WantedInv
<1> QED
  BY <1>1, <1>2, <1>3, <1>4, <1>5, <1>6, <1>7, <1>8, <1>9, <1>10 DEF Next, run, Environment

\* With nothing under way, what is up to date is what the server has.
LEMMA MirroredWhenIdle == TypeInv /\ MirrorInv /\ WantedInv => MirrorsServer
<1> SUFFICES ASSUME TypeInv, MirrorInv, WantedInv, Idle
             PROVE  LET m == Mirror[world] IN
                      /\ SameOn(DOMAIN ads.listeners \cup DOMAIN m.listeners, ads.listeners, m.listeners)
                      /\ SameOn(subscription(ads, "route"), ads.routes, m.routes)
                      /\ SameOn(subscription(ads, "cluster"), ads.clusters, m.clusters)
                      /\ \A s \in subscription(ads, "endpoint") :
                           SameOn({s}, ads.endpoints, m.endpoints) \/ Overwritten(s)
  BY DEF MirrorsServer, Overwritten
<1> DEFINE rs == Worlds[world].resources
           m == Mirror[world]
           all == insert_listeners(EmptyMap, rs["listener"])
<1>1. /\ m.listeners = [n \in {n \in DOMAIN all : Wanted(n)} |-> all[n]]
      /\ m.routes = insert_routes(EmptyMap, rs["route"])
      /\ m.clusters = insert_clusters(EmptyMap, rs["cluster"])
      /\ m.endpoints = insert_endpoints(EmptyMap, rs["endpoint"])
  BY DEF Mirror, MirrorOf, State, TypeInv, Bounds, Wanted
<1>2. ASSUME NEW t \in DOMAIN ads.subscriptions PROVE Mirrored(t)
  <2>1. t \in TypeUrls /\ DOMAIN requests = {} /\ DOMAIN responses = {} /\ ~ srv[t].due
    BY DEF TypeInv, Bounds, Idle
  <2>2. Settled(t) /\ Arriving(t) = {}
    BY <2>1 DEF Settled, Arriving
  <2> QED  BY <2>2 DEF MirrorInv, UpToDate, Idle
<1> HIDE DEF rs, m, all
<1>3. ASSUME NEW t \in TypeUrls, NEW n \in subscription(ads, t)
      PROVE  SameAt(Holds(ads, t), Alone(t, rs[t]), n) \/ (t = "endpoint" /\ Overwritten(n))
  <2>1. t \in DOMAIN ads.subscriptions /\ n \in ads.subscriptions[t]
    BY <1>3 DEF subscription
  <2> QED  BY <1>2, <1>3, <2>1 DEF Mirrored, rs
<1>4. SameOn(subscription(ads, "route"), ads.routes, m.routes)
  BY <1>1, <1>3 DEF SameOn, SameAt, Holds, Alone, TypeUrls
<1>5. SameOn(subscription(ads, "cluster"), ads.clusters, m.clusters)
  BY <1>1, <1>3 DEF SameOn, SameAt, Holds, Alone, TypeUrls
<1>6. \A s \in subscription(ads, "endpoint") : SameOn({s}, ads.endpoints, m.endpoints) \/ Overwritten(s)
  BY <1>1, <1>3 DEF SameOn, SameAt, Holds, Alone, TypeUrls
<1>7. ASSUME NEW n, Wanted(n) PROVE SameAt(ads.listeners, all, n)
  <2>1. ListenersSubscribed
    BY DEF MirrorInv, Idle
  <2>2. Mirrored("listener")
    BY <1>2, <2>1 DEF ListenersSubscribed
  <2>3. ads.subscriptions["listener"] = {} \/ n \in ads.subscriptions["listener"]
    BY <1>7, <2>1 DEF ListenersSubscribed, Wanted
  <2> QED  BY <2>2, <2>3 DEF Mirrored, Holds, Alone, rs, all
<1>8. \A n \in DOMAIN ads.listeners : Wanted(n)
  BY DEF WantedInv, Idle
<1>9. SameOn(DOMAIN ads.listeners \cup DOMAIN m.listeners, ads.listeners, m.listeners)
  BY <1>1, <1>7, <1>8 DEF SameOn, SameAt
<1> QED  BY <1>4, <1>5, <1>6, <1>9 DEF m

\* When nothing is under way AdsState holds, under the names subscribed, exactly
\* what the server has: however responses, acknowledgements, new subscriptions and
\* changes of the resources were interleaved, nothing is missed and nothing that
\* was deleted stays; only endpoints can instead be those inside a late cluster.
THEOREM IdleMirrorsServer == Spec => []MirrorsServer
  BY MirroredWhenIdle, AdsInvariance, ContentsInit, ContentsStep, MirrorInit, MirrorStep,
     WantedInit, WantedStep, PTL DEF Spec

-----------------------------------------------------------------------------
(* The published configuration                                             *)

\* The clusters that the server's resources alone make are as it offers them.
LEMMA MirrorClusters ==
  ASSUME world \in DOMAIN Worlds
  PROVE  ClustersFrom(Mirror[world].clusters, Offered("cluster"))
<1> DEFINE rs == Worlds[world].resources["cluster"]
           O == Offered("cluster")
<1>1. Mirror[world].clusters = insert_clusters(EmptyMap, rs)
  BY DEF Mirror, MirrorOf, State
<1>2. rs \in Seq(O) /\ \A r \in O : r.name \in Nat
  BY OfferedFacts DEF WellFormed, TypeUrls
<1>3. prune_requested(EmptyMap, {}) = EmptyMap
  BY DEF prune_requested
<1>4. ClustersFrom(EmptyMap, O)
  BY NewGenuine
<1> HIDE DEF rs, O
<1>5. ClustersFrom(insert_clusters(prune_requested(EmptyMap, {}), rs), O)
  BY <1>2, <1>4, ClustersInserted
<1> QED  BY <1>1, <1>3, <1>5 DEF O

\* The listeners are those of the server's resources, with the same routes.
LEMMA ListenersSynced ==
  ASSUME TypeInv, FollowInv, ContentsInv, MirrorsServer, Idle, NEW v, NEW w
  PROVE  /\ route_names(Mirror[world]) = route_names(ads)
         /\ \A n \in route_names(ads) : SameAt(ads.routes, Mirror[world].routes, n)
         /\ runtime_config(ads, v).listeners = runtime_config(Mirror[world], w).listeners
<1> DEFINE m == Mirror[world]
<1>1. /\ SameOn(DOMAIN ads.listeners \cup DOMAIN m.listeners, ads.listeners, m.listeners)
      /\ SameOn(subscription(ads, "route"), ads.routes, m.routes)
  BY DEF MirrorsServer
<1> HIDE DEF m
<1>2. /\ DOMAIN ads.listeners = DOMAIN m.listeners
      /\ \A n \in DOMAIN ads.listeners : ads.listeners[n] = m.listeners[n]
  BY <1>1 DEF SameOn, SameAt
<1>3. route_names(m) = route_names(ads)
  BY <1>2 DEF route_names
<1>4. \A n \in route_names(ads) : n \in subscription(ads, "route")
  BY DEF FollowInv, Followed, Pending, Idle
<1>5. \A n \in route_names(ads) : SameAt(ads.routes, m.routes, n)
  BY <1>1, <1>4 DEF SameOn
<1>6. /\ ListenersFrom(ads.listeners, Offered("listener"))
      /\ \A l \in Offered("listener") : WellFormed("listener", l)
  BY OfferedFacts DEF ContentsInv, Genuine, TypeInv, Bounds, TypeUrls
<1>7. runtime_config(ads, v).listeners = runtime_config(m, w).listeners
  BY <1>2, <1>5, <1>6, ConfigListenersSame
<1> QED  BY <1>3, <1>5, <1>7 DEF m

\* So are the clusters that requests can reach, if the resources are complete.
LEMMA UsedSynced ==
  ASSUME TypeInv, FollowInv, ContentsInv, MirrorsServer, Idle, Complete,
         NEW c \in Used(runtime_config(Mirror[world], ""))
  PROVE  /\ c \in DOMAIN ads.clusters /\ c \in DOMAIN Mirror[world].clusters
         /\ ConfiguredCluster(ads, ads.clusters[c])
              = ConfiguredCluster(Mirror[world], Mirror[world].clusters[c])
<1> DEFINE m == Mirror[world]
           s == m.clusters[c].eds_service_name
<1>1. PICK n \in route_names(m) \cap DOMAIN m.routes : c \in VirtualHostClusters(m.routes[n])
  BY ZenonT(20) DEF Complete
<1>2. c \in DOMAIN m.clusters /\ \A e \in AssignedLately(s) : s \in DOMAIN m.endpoints /\ e = m.endpoints[s]
  BY ZenonT(20) DEF Complete
<1>3. /\ SameOn(subscription(ads, "cluster"), ads.clusters, m.clusters)
      /\ \A x \in subscription(ads, "endpoint") :
           \/ SameOn({x}, ads.endpoints, m.endpoints)
           \/ x \in DOMAIN ads.endpoints /\ ads.endpoints[x] \in AssignedLately(x)
  BY Zenon DEF MirrorsServer
<1>4. n \in route_names(ads) /\ SameAt(ads.routes, m.routes, n)
  BY <1>1, ListenersSynced, ZenonT(20)
<1> HIDE DEF m, s
<1>5. c \in cluster_names(ads)
  BY <1>1, <1>4, ZenonT(20) DEF SameAt, cluster_names
<1>6. c \in subscription(ads, "cluster")
  BY <1>5, ZenonT(20) DEF FollowInv, Followed, Pending, Idle
<1>7. c \in DOMAIN ads.clusters /\ ads.clusters[c] = m.clusters[c]
  BY <1>2, <1>3, <1>6, ZenonT(20) DEF SameOn, SameAt
<1>8. s \in eds_names(ads)
  BY <1>7, ZenonT(20) DEF eds_names, s
<1>9. s \in subscription(ads, "endpoint")
  BY <1>8, ZenonT(20) DEF FollowInv, Followed, Pending, Idle
<1>10. SameAt(ads.endpoints, m.endpoints, s)
  BY <1>2, <1>3, <1>9, ZenonT(20) DEF SameOn, SameAt
<1>11. ConfiguredCluster(ads, ads.clusters[c]) = ConfiguredCluster(m, m.clusters[c])
  BY <1>7, <1>10, ZenonT(20) DEF ConfiguredCluster, SameAt, s
<1> QED  BY <1>2, <1>7, <1>11, ZenonT(20) DEF m

\* The configuration AdsState stands for is then valid, and as far as requests can
\* reach that of the server's resources.
LEMMA ConfigSynced ==
  ASSUME TypeInv, FollowInv, ContentsInv, MirrorsServer, Idle, Complete, NEW v
  PROVE  /\ Valid(runtime_config(ads, v))
         /\ Reachable(runtime_config(ads, v)) = Reachable(runtime_config(Mirror[world], ""))
<1> DEFINE m == Mirror[world]
           f == runtime_config(ads, v)
           g == runtime_config(m, "")
           U == Used(g)
           ca == f.clusters
           cm == g.clusters
<1>1. f.listeners = g.listeners
  BY ListenersSynced, Zenon
<1>2. Used(f) = U
  BY <1>1, ZenonT(20) DEF Used
<1>3. /\ ClustersFrom(ads.clusters, Offered("cluster"))
      /\ ClustersFrom(m.clusters, Offered("cluster"))
  BY MirrorClusters DEF ContentsInv, Genuine, TypeInv, Bounds
<1>4. ClustersOf(ca, ads)
  BY <1>3, ConfigClusters, Zenon
<1>5. ClustersOf(cm, m)
  BY <1>3, ConfigClusters, Zenon
<1>6. \A c \in U : /\ c \in DOMAIN ads.clusters /\ c \in DOMAIN m.clusters
                   /\ ConfiguredCluster(ads, ads.clusters[c]) = ConfiguredCluster(m, m.clusters[c])
  BY UsedSynced, Zenon
<1>7. \A k \in validate(f) : k.kind = "missing-cluster"
  <2>1. /\ \A l \in Offered("listener") : WellFormed("listener", l)
        /\ \A r \in Offered("route") : WellFormed("route", r)
    BY OfferedFacts DEF TypeInv, Bounds, TypeUrls
  <2> QED  BY <2>1, OnlyClustersMissing, Zenon DEF ContentsInv, Genuine
<1> HIDE DEF m, f, g, U, ca, cm
<1>8. U \subseteq ClusterNames(f)
  BY <1>4, <1>6 DEF ClustersOf, ClusterNames, ca
<1>9. \A l \in DOMAIN f.listeners : VirtualHostClusters(f.listeners[l].virtual_hosts) \subseteq U
  BY <1>2 DEF Used
<1>10. Valid(f)
  BY <1>7, <1>8, <1>9, ValidIfComplete
<1> DEFINE Ra == {ca[i] : i \in {i \in DOMAIN ca : ca[i].name \in U}}
           Rm == {cm[i] : i \in {i \in DOMAIN cm : cm[i].name \in U}}
<1>11. ASSUME NEW x \in Ra PROVE x \in Rm
  <2>1. PICK i \in DOMAIN ca : ca[i].name \in U /\ x = ca[i]
    OBVIOUS
  <2>2. ca[i] = ConfiguredCluster(ads, ads.clusters[ca[i].name])
    BY <1>4, <2>1 DEF ClustersOf
  <2>3. PICK j \in DOMAIN cm : /\ cm[j].name = ca[i].name
                               /\ cm[j] = ConfiguredCluster(m, m.clusters[ca[i].name])
    BY <1>5, <1>6, <2>1 DEF ClustersOf
  <2>4. cm[j] = ca[i]
    BY <1>6, <2>1, <2>2, <2>3
  <2> QED  BY <2>1, <2>4
<1>12. ASSUME NEW x \in Rm PROVE x \in Ra
  <2>1. PICK i \in DOMAIN cm : cm[i].name \in U /\ x = cm[i]
    OBVIOUS
  <2>2. cm[i] = ConfiguredCluster(m, m.clusters[cm[i].name])
    BY <1>5, <2>1 DEF ClustersOf
  <2>3. PICK j \in DOMAIN ca : /\ ca[j].name = cm[i].name
                               /\ ca[j] = ConfiguredCluster(ads, ads.clusters[cm[i].name])
    BY <1>4, <1>6, <2>1 DEF ClustersOf
  <2>4. ca[j] = cm[i]
    BY <1>6, <2>1, <2>2, <2>3
  <2> QED  BY <2>1, <2>4
<1>13. Reachable(f) = <<f.listeners, Ra>> /\ Reachable(g) = <<g.listeners, Rm>>
  BY <1>2 DEF Reachable, U, ca, cm
<1>14. Ra = Rm
  BY <1>11, <1>12
<1> HIDE DEF Ra, Rm
<1>15. Reachable(f) = Reachable(g)
  BY <1>1, <1>13, <1>14
<1> QED  BY <1>10, <1>15, ZenonT(20) DEF f, g, m

\* So the last configuration was not held back, and it is the server's.
LEMMA SyncedWhenIdle ==
  TypeInv /\ FollowInv /\ ContentsInv /\ MirrorInv /\ WantedInv /\ PublishedInv => IdleSynced
<1> SUFFICES ASSUME TypeInv, FollowInv, ContentsInv, MirrorInv, WantedInv, PublishedInv, Idle, Complete
             PROVE  Reachable(published) = Expected[world]
  BY DEF IdleSynced, Synced
<1>1. MirrorsServer
  BY MirroredWhenIdle
<1>2. ~ NothingReceived
  <2>1. DOMAIN requests = {} /\ DOMAIN responses = {} /\ ~ srv["listener"].due
    BY DEF Idle, TypeUrls
  <2>2. Settled("listener") /\ Arriving("listener") = {}
    BY <2>1 DEF Settled, Arriving
  <2>3. srv["listener"].nonce # 0
    BY <2>2 DEF MirrorInv, ListenersSubscribed, UpToDate, Idle
  <2> QED  BY <2>2, <2>3 DEF NothingReceived, TypeUrls
<1>3. PICK v : Offering(v)
  BY <1>2 DEF PublishedInv, Idle
<1>4. published = runtime_config(ads, v)
  BY <1>1, <1>3, ConfigSynced, ZenonT(20) DEF Offering
<1>5. Expected[world] = Reachable(runtime_config(Mirror[world], ""))
  BY DEF Expected, TypeInv, Bounds
<1> QED  BY <1>1, <1>4, <1>5, ConfigSynced, ZenonT(20)

\* When nothing is under way and the server's resources are complete, what requests
\* can reach of the published configuration is what these resources stand for:
\* holding back incomplete configurations, and publishing one per response, never
\* loses the last one.
THEOREM IdlePublished == Spec => []IdleSynced
  BY SyncedWhenIdle, AdsInvariance, ContentsInit, ContentsStep, MirrorInit, MirrorStep,
     WantedInit, WantedStep, PublishedInit, PublishedStep, PTL DEF Spec

==============================================================================

--------------------------- MODULE EndToEndProofs ----------------------------
(***************************************************************************)
(* Theorems of module EndToEnd: the composition is a configuration path in *)
(* the sense of module Gateway, whatever the server sends, and what is     *)
(* proved of the ADS client holds inside the process.                      *)
(***************************************************************************)
EXTENDS EndToEnd, AdsMirror

-----------------------------------------------------------------------------
(* What the client publishes                                               *)

\* The maps of AdsState are maps, the endpoints come from the server, and so do
\* the versions of the responses.
StoredInv ==
  /\ IsMap(ads.listeners) /\ IsMap(ads.routes) /\ IsMap(ads.clusters) /\ IsMap(ads.endpoints)
  /\ \A n \in DOMAIN ads.endpoints : <<n, ads.endpoints[n]>> \in EndpointEntries
  /\ \A i \in DOMAIN responses : responses[i].version_info \in Versions
  /\ resp # NoResponse => resp.version_info \in Versions

\* What the server has had is among what it ever has.
LEMMA OfferedEver ==
  ASSUME TypeInv, NEW t
  PROVE  Offered(t) \subseteq Ever(t)
<1>1. world \in 1..Len(Worlds) /\ Len(Worlds) \in Nat
  BY EnvironmentAssumption DEF TypeInv, Bounds
<1>2. \A w \in 1..world : w \in DOMAIN Worlds
  BY <1>1, EnvironmentAssumption
<1> QED  BY <1>2 DEF Offered, Ever

\* A map with entries of a set is one of the maps made of it.
LEMMA MapOfEntries ==
  ASSUME NEW E, NEW m, IsMap(m), \A n \in DOMAIN m : <<n, m[n]>> \in E
  PROVE  m \in Maps(E)
<1> DEFINE K == {e[1] : e \in E}
           V == {e[2] : e \in E}
<1>1. ASSUME NEW n \in DOMAIN m PROVE n \in K /\ m[n] \in V
  <2> DEFINE e == <<n, m[n]>>
  <2>1. e \in E /\ e[1] = n /\ e[2] = m[n]
    OBVIOUS
  <2> QED  BY <2>1
<1> HIDE DEF K, V
<1>2. DOMAIN m \in SUBSET K /\ m \in [DOMAIN m -> V]
  BY <1>1 DEF IsMap
<1> QED  BY <1>2 DEF Maps, K, V

\* The resources stored make one of the client's configurations.
LEMMA StoredConfig ==
  ASSUME TypeInv, ContentsInv, StoredInv, NEW v \in Versions
  PROVE  runtime_config(ads, v) \in ClientConfigs
<1> DEFINE l == ads.listeners
           r == ads.routes
           c == ads.clusters
           e == ads.endpoints
           b == State(EmptyMap, l, r, c, e)
<1>1. /\ Offered("listener") \subseteq Ever("listener")
      /\ Offered("route") \subseteq Ever("route")
      /\ Offered("cluster") \subseteq Ever("cluster")
  BY OfferedEver
<1>2. l \in Maps(ListenerEntries)
  <2>1. ASSUME NEW n \in DOMAIN l PROVE <<n, l[n]>> \in ListenerEntries
    BY <1>1 DEF ContentsInv, Genuine, ListenersFrom, ListenerEntries
  <2> QED  BY <2>1, MapOfEntries DEF StoredInv
<1>3. r \in Maps(RouteEntries)
  <2>1. ASSUME NEW n \in DOMAIN r PROVE <<n, r[n]>> \in RouteEntries
    BY <1>1 DEF ContentsInv, Genuine, RoutesFrom, RouteEntries
  <2> QED  BY <2>1, MapOfEntries DEF StoredInv
<1>4. c \in Maps(ClusterEntries)
  <2>1. ASSUME NEW n \in DOMAIN c PROVE <<n, c[n]>> \in ClusterEntries
    BY <1>1 DEF ContentsInv, Genuine, ClustersFrom, ClusterEntries
  <2> QED  BY <2>1, MapOfEntries DEF StoredInv
<1>5. e \in Maps(EndpointEntries)
  BY MapOfEntries DEF StoredInv
<1>6. runtime_config(ads, v) = runtime_config(b, v)
  <2>1. b.listeners = l /\ b.routes = r /\ b.clusters = c /\ b.endpoints = e
    BY DEF State
  <2> HIDE DEF b
  <2> QED  BY <2>1, ConfigOfResources
<1> HIDE DEF l, r, c, e
<1> QED  BY <1>2, <1>3, <1>4, <1>5, <1>6 DEF ClientConfigs

\* Steps that neither apply a response nor add one.
LEMMA StoredKept ==
  ASSUME StoredInv,
         ads'.listeners = ads.listeners, ads'.routes = ads.routes,
         ads'.clusters = ads.clusters, ads'.endpoints = ads.endpoints,
         responses' = responses \/ responses' = <<>>,
         resp' = resp \/ resp' = NoResponse
  PROVE  StoredInv'
<1>1. \A i \in DOMAIN responses' : responses'[i].version_info \in Versions
  BY DEF StoredInv
<1>2. resp' # NoResponse => resp'.version_info \in Versions
  BY DEF StoredInv
<1> QED  BY <1>1, <1>2 DEF StoredInv

\* A new stream starts with empty maps.
LEMMA StoredNew ==
  ASSUME ads.listeners = EmptyMap, ads.routes = EmptyMap, ads.clusters = EmptyMap,
         ads.endpoints = EmptyMap, responses = <<>>, resp = NoResponse
  PROVE  StoredInv
<1>1. IsMap(EmptyMap)
  BY InsertedMaps
<1>2. DOMAIN EmptyMap = {}
  BY DEF EmptyMap
<1> QED  BY <1>1, <1>2 DEF StoredInv

\* AdsState is empty at the start.
LEMMA StoredInit == Init => StoredInv
<1> SUFFICES ASSUME Init PROVE StoredInv
  OBVIOUS
<1>1. /\ ads.listeners = EmptyMap /\ ads.routes = EmptyMap /\ ads.clusters = EmptyMap
      /\ ads.endpoints = EmptyMap
  BY DEF Init, NewAdsState, State
<1> QED  BY <1>1, StoredNew DEF Init

\* The endpoints after a response: those of its assignments, those that came
\* inside its clusters, and those stored before.
LEMMA AppliedEndpoints ==
  ASSUME TypeInv, StoredInv, NEW x, Carries(x), NEW b, b = apply_response(ads, x)
  PROVE  \A n \in DOMAIN b.endpoints : <<n, b.endpoints[n]>> \in EndpointEntries
<1> DEFINE rs == x.resources
           e == ads.endpoints
<1>1. \A n \in DOMAIN e : <<n, e[n]>> \in EndpointEntries
  BY DEF StoredInv
<1>2. CASE x.type_url = "cluster"
  <2>1. b.endpoints = insert_assigned(e, rs)
    BY <1>2 DEF apply_response, apply_clusters, State
  <2>2. rs \in Seq(Offered("cluster")) /\ Offered("cluster") \subseteq Ever("cluster")
    BY <1>2, OfferedEver DEF Carries, TypeUrls
  <2> HIDE DEF rs, e
  <2>3. ASSUME NEW n \in DOMAIN b.endpoints PROVE <<n, b.endpoints[n]>> \in EndpointEntries
    <3>1. CASE n \in DOMAIN e /\ b.endpoints[n] = e[n]
      BY <1>1, <3>1
    <3>2. CASE \E i \in InlineOf(rs) : /\ n = cluster_snapshot(rs[i]).eds_service_name
                                       /\ b.endpoints[n] = endpoints_from_assignment(rs[i].assignment[1])
      <4>1. PICK i \in InlineOf(rs) : /\ n = cluster_snapshot(rs[i]).eds_service_name
                                      /\ b.endpoints[n] = endpoints_from_assignment(rs[i].assignment[1])
        BY <3>2
      <4>2. rs[i] \in Ever("cluster") /\ rs[i].assignment # None
        BY <2>2 DEF InlineOf, Named
      <4> QED  BY <4>1, <4>2 DEF EndpointEntries
    <3> QED  BY <2>1, <2>2, <3>1, <3>2, InsertAssigned
  <2> QED  BY <2>3
<1>3. CASE x.type_url = "endpoint"
  <2> DEFINE p == prune_requested(e, subscription(ads, "endpoint"))
             K == Named(rs)
  <2>1. b.endpoints = insert_endpoints(p, rs)
    BY <1>3 DEF apply_response, apply_endpoints, State
  <2>2. rs \in Seq(Offered("endpoint")) /\ Offered("endpoint") \subseteq Ever("endpoint") /\ K \subseteq DOMAIN rs
    BY <1>3, OfferedEver DEF Carries, TypeUrls, Named
  <2>3. DOMAIN p \subseteq DOMAIN e /\ \A n \in DOMAIN p : p[n] = e[n]
    BY PruneFacts
  <2> HIDE DEF rs, e, p
  <2>4. Insertion(p, b.endpoints, rs, K, EndpointValues(rs))
    BY <2>1, <2>2, InsertEndpoints
  <2> HIDE DEF K
  <2>5. ASSUME NEW n \in DOMAIN b.endpoints PROVE <<n, b.endpoints[n]>> \in EndpointEntries
    <3> DEFINE k == Max(Positions(rs, K, n))
    <3>1. CASE n \in DOMAIN p /\ b.endpoints[n] = p[n]
      BY <1>1, <2>3, <3>1
    <3>2. CASE k \in Positions(rs, K, n) /\ b.endpoints[n] = EndpointValues(rs)[k]
      <4> HIDE DEF k
      <4>1. rs[k] \in Ever("endpoint") /\ rs[k].name = n /\ b.endpoints[n] = endpoints_from_assignment(rs[k])
        BY <2>2, <3>2 DEF Positions, EndpointValues
      <4> QED  BY <4>1 DEF EndpointEntries
    <3> QED  BY <2>4, <3>1, <3>2 DEF Insertion
  <2> QED  BY <2>5
<1>4. CASE x.type_url \notin {"cluster", "endpoint"}
  <2>1. b.endpoints = e
    BY <1>4 DEF apply_response, apply_listeners, apply_routes, State
  <2> QED  BY <1>1, <2>1
<1> QED  BY <1>2, <1>3, <1>4

\* The maps after a response.
LEMMA AppliedMaps ==
  ASSUME StoredInv, NEW x, NEW b, b = apply_response(ads, x)
  PROVE  IsMap(b.listeners) /\ IsMap(b.routes) /\ IsMap(b.clusters) /\ IsMap(b.endpoints)
<1>1. /\ b.listeners = ads.listeners \/ \E m : b.listeners = insert_listeners(m, x.resources)
      /\ b.routes = ads.routes \/ \E m : b.routes = insert_routes(m, x.resources)
      /\ b.clusters = ads.clusters \/ \E m : b.clusters = insert_clusters(m, x.resources)
      /\ \/ b.endpoints = ads.endpoints
         \/ \E m : b.endpoints = insert_assigned(m, x.resources)
         \/ \E m : b.endpoints = insert_endpoints(m, x.resources)
  BY DEF apply_response, apply_listeners, apply_routes, apply_clusters, apply_endpoints, State
<1> QED  BY <1>1, InsertedMaps DEF StoredInv

\* What apply_response stores was offered, under a version that was sent.
LEMMA StoredReceive ==
  ASSUME TypeInv, ContentsInv, StoredInv, Receive, Decodes(Head(responses))
  PROVE  StoredInv'
<1>1. /\ ads' = apply_response(ads, Head(responses)) /\ responses' = Tail(responses)
      /\ responses # <<>> /\ resp' = Head(responses)
  BY DEF Receive
<1>2. /\ Len(responses) \in Nat \ {0} /\ DOMAIN responses = 1..Len(responses)
      /\ DOMAIN Tail(responses) = 1..(Len(responses) - 1)
      /\ Head(responses) = responses[1]
      /\ \A i \in 1..(Len(responses) - 1) : Tail(responses)[i] = responses[i + 1]
  BY <1>1, QueueTail DEF TypeInv, Shape
<1>3. Carries(Head(responses))
  BY <1>2 DEF ContentsInv
<1>4. \A n \in DOMAIN ads'.endpoints : <<n, ads'.endpoints[n]>> \in EndpointEntries
  BY <1>1, <1>3, AppliedEndpoints
<1>5. IsMap(ads'.listeners) /\ IsMap(ads'.routes) /\ IsMap(ads'.clusters) /\ IsMap(ads'.endpoints)
  BY <1>1, AppliedMaps
<1>6. \A i \in DOMAIN responses' : responses'[i].version_info \in Versions
  BY <1>1, <1>2 DEF StoredInv
<1>7. resp'.version_info \in Versions
  BY <1>1, <1>2 DEF StoredInv
<1> QED  BY <1>4, <1>5, <1>6, <1>7 DEF StoredInv

\* A push carries resources and a version the server has.
LEMMA StoredPush ==
  ASSUME TypeInv, StoredInv, ServerPushesUnknown \/ \E t \in TypeUrls : ServerPushes(t)
  PROVE  StoredInv'
<1>1. ads' = ads /\ resp' = resp
  BY ZenonT(20) DEF ServerPushesUnknown, ServerPushes, client
<1>2. Worlds[world].version \in Versions
  BY DEF TypeInv, Bounds, Versions
<1>3. PICK r : responses' = Append(responses, r) /\ r.version_info = Worlds[world].version
  <2>1. CASE ServerPushesUnknown
    BY <2>1 DEF ServerPushesUnknown
  <2>2. CASE \E t \in TypeUrls : ServerPushes(t)
    <3>1. PICK t \in TypeUrls : ServerPushes(t)
      BY <2>2
    <3> DEFINE rs == Subscribed(t, srv[t].names)
               r == [type_url |-> t, version_info |-> Worlds[world].version, nonce |-> nonce + 1,
                     resources |-> rs]
    <3>2. responses' = Append(responses, r)
      BY <3>1 DEF ServerPushes
    <3> HIDE DEF rs
    <3>3. r.version_info = Worlds[world].version
      OBVIOUS
    <3> QED  BY <3>2, <3>3
  <2> QED  BY <2>1, <2>2
<1>4. /\ Len(responses) \in Nat /\ DOMAIN responses = 1..Len(responses)
      /\ DOMAIN Append(responses, r) = 1..(Len(responses) + 1)
      /\ Append(responses, r)[Len(responses) + 1] = r
      /\ \A i \in 1..Len(responses) : Append(responses, r)[i] = responses[i]
  BY QueueAppend DEF TypeInv, Shape
<1>5. ASSUME NEW i \in DOMAIN responses' PROVE responses'[i].version_info \in Versions
  <2>1. CASE i = Len(responses) + 1
    BY <1>2, <1>3, <1>4, <2>1
  <2>2. CASE i # Len(responses) + 1
    <3>1. i \in DOMAIN responses /\ responses'[i] = responses[i]
      BY <1>3, <1>4, <2>2
    <3> QED  BY <3>1 DEF StoredInv
  <2> QED  BY <2>1, <2>2
<1> QED  BY <1>1, <1>5 DEF StoredInv

\* Every step of the client keeps what is stored among what was offered.
LEMMA StoredStep == TypeInv /\ ContentsInv /\ StoredInv /\ [Next]_vars => StoredInv'
<1> SUFFICES ASSUME TypeInv, ContentsInv, StoredInv, [Next]_vars PROVE StoredInv'
  OBVIOUS
<1>1. CASE InvalidEndpoint \/ ConnectFails \/ Publish \/ Reconnect
  BY <1>1, StoredKept DEF InvalidEndpoint, ConnectFails, Publish, Reconnect
<1>2. CASE Connect
  <2>1. /\ ads' = set_subscription(NewAdsState, "listener", ListenerNames)
        /\ responses' = <<>> /\ resp' = resp /\ pc = "connect"
    BY <1>2, ZenonT(20) DEF Connect
  <2>2. Fields(NewAdsState)
    BY DEF NewAdsState, State, Fields
  <2>3. OneSubscription(NewAdsState, ads', "listener", ListenerNames)
    BY <2>1, <2>2, SubscribeFacts
  <2>4. /\ ads'.listeners = EmptyMap /\ ads'.routes = EmptyMap /\ ads'.clusters = EmptyMap
        /\ ads'.endpoints = EmptyMap
    BY <2>3 DEF OneSubscription, NewAdsState, State
  <2>5. resp' = NoResponse
    BY <2>1 DEF TypeInv, Handling
  <2>6. IsMap(EmptyMap) /\ DOMAIN EmptyMap = {}
    BY InsertedMaps DEF EmptyMap
  <2> QED  BY <2>1, <2>4, <2>5, <2>6 DEF StoredInv
<1>3. CASE Receive
  <2>1. CASE Decodes(Head(responses))
    BY <1>3, <2>1, StoredReceive
  <2>2. CASE ~ Decodes(Head(responses))
    BY <1>3, <2>2, StoredKept DEF Receive, Return
  <2> QED  BY <2>1, <2>2
<1>4. CASE ReceiveFails \/ SendFails
  BY <1>4, StoredKept DEF ReceiveFails, SendFails, Return
<1>5. CASE Acknowledge \/ Subscribe
  <2>1. responses' = responses /\ resp' = resp
    BY <1>5, ZenonT(20) DEF Acknowledge, Subscribe
  <2>2. ads' = ads \/ \E t, names : OneSubscription(ads, ads', t, names)
    <3>1. ads' = ads \/ \E t, names : ads' = set_subscription(ads, t, names)
      BY <1>5, ZenonT(20) DEF Acknowledge, Subscribe
    <3> QED  BY <3>1, SubscribeFacts DEF TypeInv, Shape
  <2> QED  BY <2>1, <2>2, StoredKept, Zenon DEF OneSubscription
<1>6. CASE StreamBreaks \/ WorldChanges \/ ServerReceives
  BY <1>6, StoredKept DEF StreamBreaks, WorldChanges, ServerReceives, client
<1>7. CASE ServerPushesUnknown \/ \E t \in TypeUrls : ServerPushes(t)
  BY <1>7, StoredPush
<1>8. CASE UNCHANGED vars
  BY <1>8, StoredKept DEF vars
<1> QED
  BY <1>1, <1>2, <1>3, <1>4, <1>5, <1>6, <1>7, <1>8 DEF Next, run, Environment

-----------------------------------------------------------------------------
(* The two instances of Gateway                                            *)

\* What Process adds to the configuration path plays no part here.
GP == INSTANCE GatewayProofs
  WITH XdsConfigs <- ClientConfigs, Readers <- {}, published <- channel, pc <- tasks,
       Own <- EmptyMap, Files <- {}, process <- "running", args <- EmptyMap, server <- EmptyMap

\* The copies of RuntimeConfig's operators in the two instances are the operators.
LEMMA SameOperators ==
  /\ G!Bootstrap = empty("bootstrap") /\ GP!Bootstrap = empty("bootstrap")
  /\ \A cfg : G!validate(cfg) = validate(cfg) /\ GP!validate(cfg) = validate(cfg)
  /\ \A cfg : (G!Valid(cfg) <=> Valid(cfg)) /\ (GP!Valid(cfg) <=> Valid(cfg))
<1>1. G!Bootstrap = empty("bootstrap") /\ GP!Bootstrap = empty("bootstrap")
  BY DEF empty, G!empty, GP!empty, G!Bootstrap, GP!Bootstrap
<1>2. ASSUME NEW cfg PROVE G!validate(cfg) = validate(cfg)
  BY DEF None, G!None, tls_enabled, G!tls_enabled, Repeated, G!Repeated, Max, G!Max, Replaced, G!Replaced, Incompatible, G!Incompatible, BindConflicts, G!BindConflicts, ClusterNames, G!ClusterNames, RoutePositions, G!RoutePositions, RouteAt, G!RouteAt, MissingDestinations, G!MissingDestinations, validate, G!validate
<1>3. ASSUME NEW cfg PROVE GP!validate(cfg) = validate(cfg)
  BY DEF None, GP!None, tls_enabled, GP!tls_enabled, Repeated, GP!Repeated, Max, GP!Max, Replaced, GP!Replaced, Incompatible, GP!Incompatible, BindConflicts, GP!BindConflicts, ClusterNames, GP!ClusterNames, RoutePositions, GP!RoutePositions, RouteAt, GP!RouteAt, MissingDestinations, GP!MissingDestinations, validate, GP!validate
<1> QED  BY <1>1, <1>2, <1>3 DEF Valid, G!Valid, GP!Valid

\* The actions the composition takes are actions of the gateway the theorems of
\* GatewayProofs are about.
LEMMA SameActions ==
  /\ G!Init => GP!Init
  /\ G!MainStep => GP!MainStep
  /\ G!Task => GP!Task
  /\ G!XdsInvalidEndpoint => GP!XdsInvalidEndpoint
  /\ \A cfg : G!XdsPublish(cfg) => GP!XdsPublish(cfg)
<1> USE DEF G!proxyState, GP!proxyState, G!channel, GP!channel, G!Goto, GP!Goto,
            G!Appliers, GP!Appliers
<1>1. G!Init => GP!Init
  BY SameOperators DEF G!Init, GP!Init
<1>2. ASSUME NEW p PROVE G!apply_config(p) => GP!apply_config(p)
  BY SameOperators DEF G!apply_config, GP!apply_config, G!WriteConfig, GP!WriteConfig, G!ClearConflicts, GP!ClearConflicts,
     G!StoreReady, GP!StoreReady, G!WriteConflicts, GP!WriteConflicts, G!StoreNotReady, GP!StoreNotReady,
     G!AfterOk, GP!AfterOk, G!AfterErr, GP!AfterErr
<1>3. G!MainStep => GP!MainStep
  BY <1>2 DEF G!MainStep, GP!MainStep, G!MainNoStatic, GP!MainNoStatic, G!MainSend, GP!MainSend, G!send, GP!send,
     G!MainSpawn, GP!MainSpawn, G!MainLoad, GP!MainLoad
<1>4. G!Task => GP!Task
  BY <1>2, ZenonT(20) DEF G!Task, GP!Task, G!TaskChanged, GP!TaskChanged, G!TaskClosed, GP!TaskClosed,
     G!TaskBorrow, GP!TaskBorrow, G!current, GP!current
<1>5. G!XdsInvalidEndpoint => GP!XdsInvalidEndpoint
  BY DEF G!XdsInvalidEndpoint, GP!XdsInvalidEndpoint
<1>6. ASSUME NEW cfg PROVE G!XdsPublish(cfg) => GP!XdsPublish(cfg)
  BY SameOperators DEF G!XdsPublish, GP!XdsPublish, G!current, GP!current, G!send, GP!send
<1> QED  BY <1>1, <1>3, <1>4, <1>5, <1>6

-----------------------------------------------------------------------------
(* The composition                                                         *)

ClientInv ==
  /\ TypeInv /\ AgreeInv /\ FollowInv /\ ContentsInv
  /\ MirrorInv /\ WantedInv /\ PublishedInv /\ StoredInv

\* The two components agree on the channel and on where the client is.
Coupled ==
  /\ published = channel[Len(channel)]
  /\ pc \notin {"connect", "exited"} => Running
  /\ pc = "exited" <=> xds = "exited"

WholeInv == ClientInv /\ GP!IndInv /\ Coupled

\* A step of the client's own specification.
LEMMA ClientStep == ClientInv /\ [Next]_vars => ClientInv'
  BY TypeStep, AgreeStep, FollowStep, ContentsStep, MirrorStep, WantedStep, PublishedStep, StoredStep
     DEF ClientInv

\* A step of main or of the apply task leaves the client alone; when it changes the
\* value of the channel, the client does not wait for a response.
LEMMA ProcessKeepsClient ==
  ASSUME ClientInv, UNCHANGED adsVars, Valid(published'), published' = published \/ pc # "receive"
  PROVE  ClientInv'
<1> USE DEF adsVars, server
<1>1. TypeInv'
  BY DEF ClientInv, TypeInv, Flags, Handling, Bounds, Shape
<1>2. AgreeInv'
  BY DEF ClientInv, AgreeInv, Agreed
<1>3. FollowInv'
  BY DEF ClientInv, FollowInv, Followed, Pending
<1>4. ContentsInv'
  BY ContentsKept DEF ClientInv
<1>5. MirrorInv'
  BY LocalMirror DEF ClientInv
<1>6. StoredInv'
  BY StoredKept DEF ClientInv
<1>7. WantedInv'
  BY SendWanted DEF ClientInv
<1>8. PublishedInv'
  <2>1. CASE published' = published
    <3>1. NothingReceived => NothingReceived'
      BY DEF NothingReceived, Arriving
    <3> QED  BY <2>1, <3>1, WaitingPublished DEF ClientInv
  <2>2. CASE pc # "receive"
    BY <2>2 DEF PublishedInv
  <2> QED  BY <2>1, <2>2
<1> QED  BY <1>1, <1>2, <1>3, <1>4, <1>5, <1>6, <1>7, <1>8 DEF ClientInv

\* The value of the channel is valid.
LEMMA CurrentValid ==
  GP!IndInv => /\ Valid(channel[Len(channel)])
               /\ channel[Len(channel)] \in StaticConfigs \cup ClientConfigs \cup {empty("bootstrap")}
<1> SUFFICES ASSUME GP!IndInv
             PROVE  /\ Valid(channel[Len(channel)])
                    /\ channel[Len(channel)] \in StaticConfigs \cup ClientConfigs \cup {empty("bootstrap")}
  OBVIOUS
<1>1. /\ channel \in Seq(StaticConfigs \cup ClientConfigs \cup {empty("bootstrap")})
      /\ Len(channel) >= 1 /\ channel[1] = empty("bootstrap")
      /\ \A i \in 2..Len(channel) : Valid(channel[i])
  BY SameOperators DEF GP!IndInv, GP!TypeOK, GP!ChannelInv, GP!Configs
<1>2. Valid(empty("bootstrap"))
  BY EmptyValid
<1>3. Len(channel) \in Nat /\ Len(channel) \in 1..Len(channel)
  BY <1>1
<1> QED  BY <1>1, <1>2, <1>3

\* main and the apply task take steps of the gateway.
LEMMA ProcessStep ==
  ASSUME WholeInv, Process
  PROVE  GP!Next /\ ClientInv' /\ Coupled'
<1>1. (G!MainStep \/ G!Task) /\ published' = G!current' /\ UNCHANGED adsVars
  BY DEF Process
<1>2. GP!Next
  BY <1>1, SameActions DEF GP!Next
<1>3. GP!IndInv'
  BY <1>2, BoundAssumption, GP!NextInv DEF WholeInv
<1>4. published' = channel'[Len(channel')]
  BY <1>1 DEF G!current
<1>5. Valid(channel[Len(channel)])'
  BY <1>3, CurrentValid, PTL
<1>6. ClientInv'
  <2>1. channel' = channel \/ tasks["main"] = "send"
    BY <1>1, ZenonT(20) DEF G!MainStep, G!MainNoStatic, G!MainSend, G!MainSpawn, G!MainLoad, G!channel,
       G!apply_config, G!WriteConfig, G!ClearConflicts, G!StoreReady, G!WriteConflicts, G!StoreNotReady,
       G!Task, G!TaskChanged, G!TaskClosed, G!TaskBorrow
  <2>2. tasks["main"] = "send" => pc # "receive"
    BY DEF WholeInv, GP!IndInv, GP!MainInv, Coupled, Running
  <2>3. published' = published \/ pc # "receive"
    BY <1>4, <2>1, <2>2 DEF WholeInv, Coupled
  <2> QED  BY <1>1, <1>4, <1>5, <2>3, ProcessKeepsClient DEF WholeInv
<1>7. pc' = pc
  BY <1>1 DEF adsVars
<1>8. xds' = xds \/ (xds = "absent" /\ xds' = "started")
  BY <1>1, ZenonT(20) DEF WholeInv, GP!IndInv, GP!MainInv, G!MainStep, G!MainNoStatic, G!MainSend, G!MainSpawn, G!MainLoad,
     G!apply_config, G!WriteConfig, G!ClearConflicts, G!StoreReady, G!WriteConflicts, G!StoreNotReady,
     G!Task, G!TaskChanged, G!TaskClosed, G!TaskBorrow
<1>9. Coupled'
  BY <1>4, <1>7, <1>8 DEF WholeInv, Coupled, Running
<1> QED  BY <1>2, <1>6, <1>9

\* The client's steps that do not concern the channel, and those of the server
\* and the network.
LEMMA FollowStepJoint ==
  ASSUME WholeInv, Follow \/ Outside
  PROVE  UNCHANGED gateway /\ ClientInv' /\ Coupled'
<1>1. UNCHANGED gateway /\ Next
  BY DEF Follow, Outside, Next, run, Environment
<1>2. ClientInv'
  BY <1>1, ClientStep DEF WholeInv
<1>3. published' = published
  BY ZenonT(20) DEF Follow, Outside, Connect, Receive, ReceiveFails, Acknowledge, Subscribe, SendFails, Reconnect,
     Return, StreamBreaks, WorldChanges, ServerReceives, ServerPushesUnknown, ConnectFails, ServerPushes, client
<1>4. channel' = channel /\ xds' = xds
  BY <1>1 DEF gateway
<1>5. \/ Running /\ pc' # "exited"
      \/ pc' = pc
  BY ZenonT(20) DEF Follow, Outside, Connect, Receive, ReceiveFails, Acknowledge, Subscribe, SendFails, Reconnect,
     Return, StreamBreaks, WorldChanges, ServerReceives, ServerPushesUnknown, ConnectFails, ServerPushes, client
<1>6. Coupled'
  BY <1>3, <1>4, <1>5 DEF WholeInv, Coupled, Running
<1> QED  BY <1>1, <1>2, <1>6

\* The client publishes into a channel with a receiver.
LEMMA SendStep ==
  ASSUME WholeInv, Send
  PROVE  (GP!Next \/ UNCHANGED gateway) /\ ClientInv' /\ Coupled'
<1>1. Running /\ Publish
  BY DEF Send
<1>2. ClientInv'
  BY <1>1, ClientStep DEF WholeInv, Next, run
<1>3. pc' = "receive"
  BY <1>1 DEF Publish
<1>4. CASE published' = published
  <2>1. UNCHANGED gateway
    BY <1>4 DEF Send
  <2>2. channel' = channel /\ xds' = xds
    BY <2>1 DEF gateway
  <2>3. Coupled'
    BY <1>1, <1>3, <1>4, <2>2 DEF WholeInv, Coupled, Running
  <2> QED  BY <1>2, <2>1, <2>3
<1>5. CASE published' # published
  <2>1. GP!XdsPublish(published')
    BY <1>5, SameActions DEF Send
  <2>2. published' = runtime_config(ads, resp.version_info)
    BY <1>1, <1>5 DEF Publish
  <2>3. resp.version_info \in Versions
    BY <1>1 DEF WholeInv, ClientInv, TypeInv, Handling, StoredInv, Publish
  <2>4. published' \in ClientConfigs
    BY <2>2, <2>3, StoredConfig DEF WholeInv, ClientInv
  <2>5. GP!Next
    BY <2>1, <2>4 DEF GP!Next, GP!Xds
  <2>6. tasks["task"] # "done"
    BY <1>1 DEF WholeInv, GP!IndInv, GP!ChannelInv, GP!TaskInv, Running
  <2>7. channel' = Append(channel, published') /\ xds' = "streaming"
    BY <2>1, <2>6 DEF GP!XdsPublish, GP!send
  <2>8. published' = channel'[Len(channel')]
    <3>1. Queue(channel)
      BY DEF WholeInv, GP!IndInv, GP!TypeOK, Queue
    <3> QED  BY <2>7, <3>1, QueueAppend
  <2>9. Coupled'
    BY <1>3, <2>7, <2>8 DEF Coupled, Running
  <2> QED  BY <1>2, <2>5, <2>9
<1> QED  BY <1>4, <1>5

\* The client ends on an endpoint that is no URI, and with it the sender.
LEMMA EndStep ==
  ASSUME WholeInv, End
  PROVE  GP!Next /\ ClientInv' /\ Coupled'
<1>1. InvalidEndpoint /\ GP!XdsInvalidEndpoint
  BY SameActions DEF End
<1>2. GP!Next
  BY <1>1 DEF GP!Next, GP!Xds
<1>3. ClientInv'
  BY <1>1, ClientStep DEF WholeInv, Next, run
<1>4. Coupled'
  BY <1>1 DEF WholeInv, Coupled, InvalidEndpoint, GP!XdsInvalidEndpoint
<1> QED  BY <1>2, <1>3, <1>4

\* Every step of the composition is one of the gateway or leaves it alone.
LEMMA WholeStep ==
  WholeInv /\ [EndToEndNext]_allVars => WholeInv' /\ [GP!Next]_(GP!vars)
<1> SUFFICES ASSUME WholeInv, [EndToEndNext]_allVars
             PROVE  WholeInv' /\ [GP!Next]_(GP!vars)
  OBVIOUS
<1>1. UNCHANGED gateway => UNCHANGED GP!vars
  BY DEF gateway, GP!vars, GP!proxyState, GP!channel
<1>2. (GP!Next \/ UNCHANGED gateway) /\ ClientInv' /\ Coupled'
  <2>1. CASE Process
    BY <2>1, ProcessStep
  <2>2. CASE Client
    BY <2>2, FollowStepJoint, SendStep, EndStep DEF Client
  <2>3. CASE Outside
    BY <2>3, FollowStepJoint
  <2>4. CASE UNCHANGED allVars
    <3>1. UNCHANGED gateway /\ UNCHANGED vars
      BY <2>4 DEF allVars
    <3>2. ClientInv'
      BY <3>1, ClientStep DEF WholeInv
    <3>3. Coupled'
      BY <3>1 DEF WholeInv, Coupled, Running, gateway, vars
    <3> QED  BY <3>1, <3>2, <3>3
  <2> QED  BY <2>1, <2>2, <2>3, <2>4 DEF EndToEndNext
<1>3. [GP!Next]_(GP!vars)
  BY <1>1, <1>2
<1>4. GP!IndInv'
  BY <1>3, BoundAssumption, GP!NextInv DEF WholeInv
<1> QED  BY <1>2, <1>3, <1>4 DEF WholeInv

\* The invariant holds at the start, which is a start of the gateway.
LEMMA WholeInit == EndToEndInit => WholeInv /\ GP!Init
<1> SUFFICES ASSUME EndToEndInit PROVE WholeInv /\ GP!Init
  OBVIOUS
<1>1. Init /\ GP!Init
  BY SameActions DEF EndToEndInit
<1>2. ClientInv
  <2>1. AgreeInv /\ FollowInv
    BY <1>1 DEF Init, AgreeInv, FollowInv
  <2> QED  BY <1>1, <2>1, TypeInit, ContentsInit, MirrorInit, WantedInit, PublishedInit,
           StoredInit DEF ClientInv
<1>3. GP!IndInv
  BY <1>1, BoundAssumption, GP!InitInv
<1>4. Coupled
  <2>1. /\ published = empty("bootstrap") /\ pc = "connect"
        /\ channel = <<empty("bootstrap")>> /\ xds = "absent"
    BY <1>1, SameOperators DEF Init, GP!Init
  <2>2. channel[Len(channel)] = empty("bootstrap")
    BY <2>1, QueueSmall
  <2> QED  BY <2>1, <2>2 DEF Coupled
<1> QED  BY <1>1, <1>2, <1>3, <1>4 DEF WholeInv

-----------------------------------------------------------------------------
(* Theorems                                                                *)

\* The inductive invariant of the composition holds.
THEOREM WholeInvariance == EndToEndSafety => []WholeInv
  BY WholeInit, WholeStep, PTL DEF EndToEndSafety

\* The client and the process agree on the value of the channel, and it is the
\* bootstrap configuration, one of the static file, or one made of resources the
\* server has or had: whatever is held back, skipped or sent over a broken stream.
THEOREM EndToEndTypeCorrect == EndToEndSafety => []EndToEndTypeOK
<1>1. WholeInv => EndToEndTypeOK
  BY CurrentValid DEF WholeInv, Coupled, EndToEndTypeOK, G!current
<1> QED  BY <1>1, WholeInvariance, PTL

\* Whatever the client publishes finds a receiver: the client sends only while the
\* sender exists, and the apply task ends only after it.
THEOREM ReceiverFound == EndToEndSafety => []PublishFindsReceiver
<1>1. WholeInv => PublishFindsReceiver
  BY DEF WholeInv, Coupled, Running, PublishFindsReceiver, GP!IndInv, GP!ChannelInv, GP!TaskInv
<1> QED  BY <1>1, WholeInvariance, PTL

\* The composition implements the configuration path of module Gateway, with the
\* configurations the client makes as those of the control plane.
THEOREM ImplementsGateway == EndToEndSafety => GP!SafetySpec
  BY WholeInit, WholeStep, PTL DEF EndToEndSafety, GP!SafetySpec

\* So what is proved of the configuration path holds of it: no update of the
\* client is lost, the calls of apply_config do not overlap, and the gateway, once
\* ready, stays so.
THEOREM PathCorrect ==
  EndToEndSafety => [](GP!NoLostUpdate /\ GP!SingleApplier) /\ GP!ReadyStable
<1>1. MaxPublished \in Nat
  BY BoundAssumption
<1> QED
  BY <1>1, ImplementsGateway, GP!UpdatesNotLost, GP!OneApplier, GP!ReadyForGood, PTL

\* And so does what is proved of the client on its own, although main, too, puts a
\* configuration into the channel: its subscriptions are the server's and follow the
\* references, it holds back only what is incomplete, and with nothing under way it
\* has what the server has and has published it.
THEOREM ClientCorrect ==
  EndToEndSafety =>
    [](SubscriptionInSync /\ FollowsReferences /\ OnlyMissingClusters /\ MirrorsServer /\ IdleSynced)
<1>1. WholeInv => SubscriptionInSync /\ OnlyMissingClusters /\ MirrorsServer /\ IdleSynced
  BY AgreedInSync, ContentsIncomplete, MirroredWhenIdle, SyncedWhenIdle DEF WholeInv, ClientInv
<1>2. WholeInv => FollowsReferences
  BY DEF WholeInv, ClientInv, FollowInv, FollowsReferences, Followed, Pending
<1> QED  BY <1>1, <1>2, WholeInvariance, PTL

\* From the control plane to ProxyState: with nothing under way between the server
\* and the client, and nothing unseen in the channel, the configuration in force is
\* the one the server's resources stand for, if they are complete.
THEOREM RestServes == EndToEndSafety => []ServedAtRest
<1>1. WholeInv => ServedAtRest
  <2> SUFFICES ASSUME WholeInv, Idle, Complete, tasks["task"] = "changed", seen = Len(channel)
               PROVE  Reachable(config) = Expected[world]
    BY DEF ServedAtRest
  <2>1. Reachable(channel[Len(channel)]) = Expected[world]
    BY SyncedWhenIdle DEF WholeInv, ClientInv, Coupled, IdleSynced, Synced
  <2>2. tasks["main"] = "serve"
    BY DEF WholeInv, GP!IndInv, GP!MainInv, Coupled, Running, Idle
  <2>3. GP!Offers = channel
    BY <2>2 DEF GP!Offers
  <2>4. /\ Len(channel) \in Nat /\ served \in 1..Len(channel)
        /\ served >= Len(channel) /\ config = channel[served]
    BY <2>3 DEF WholeInv, GP!IndInv, GP!TypeOK, GP!TaskInv, GP!ServedInv
  <2>5. served = Len(channel)
    BY <2>4
  <2> QED  BY <2>1, <2>4, <2>5
<1> QED  BY <1>1, WholeInvariance, PTL

==============================================================================

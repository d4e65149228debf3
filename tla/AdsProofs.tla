------------------------------ MODULE AdsProofs ------------------------------
(***************************************************************************)
(* Theorems of module AdsClient: for any resources of the server, any      *)
(* channel capacities and any number of failures of the stream.            *)
(***************************************************************************)
EXTENDS AdsClient, TLAPS

-----------------------------------------------------------------------------
(* Sequences of anything                                                   *)

Queue(s) == \E S : s \in Seq(S)

\* A message added to a queue comes last and leaves the others in their places.
LEMMA QueueAppend ==
  ASSUME NEW s, Queue(s), NEW e
  PROVE  /\ Queue(Append(s, e))
         /\ Len(s) \in Nat /\ DOMAIN s = 1..Len(s)
         /\ Len(Append(s, e)) = Len(s) + 1
         /\ DOMAIN Append(s, e) = 1..(Len(s) + 1)
         /\ Append(s, e)[Len(s) + 1] = e
         /\ \A i \in 1..Len(s) : Append(s, e)[i] = s[i]
<1>1. PICK S : s \in Seq(S)
  BY DEF Queue
<1>2. s \in Seq(S \cup {e})
  BY <1>1
<1>3. Append(s, e) \in Seq(S \cup {e})
  BY <1>2
<1> QED
  BY <1>2, <1>3 DEF Queue

\* The first message leaves a queue and the others move up by one.
LEMMA QueueTail ==
  ASSUME NEW s, Queue(s), s # <<>>
  PROVE  /\ Queue(Tail(s))
         /\ Len(s) \in Nat \ {0} /\ DOMAIN s = 1..Len(s)
         /\ Len(Tail(s)) = Len(s) - 1
         /\ DOMAIN Tail(s) = 1..(Len(s) - 1)
         /\ Head(s) = s[1]
         /\ \A i \in 1..(Len(s) - 1) : Tail(s)[i] = s[i + 1]
<1>1. PICK S : s \in Seq(S)
  BY DEF Queue
<1>2. Tail(s) \in Seq(S)
  BY <1>1
<1> QED
  BY <1>1, <1>2 DEF Queue

\* Empty queues and queues of one message.
LEMMA QueueSmall ==
  ASSUME NEW e
  PROVE  /\ Queue(<<>>) /\ Len(<<>>) = 0 /\ DOMAIN <<>> = {}
         /\ Queue(<<e>>) /\ Len(<<e>>) = 1 /\ <<e>>[1] = e /\ DOMAIN <<e>> = 1..1
<1>1. <<>> \in Seq({e}) /\ <<e>> \in Seq({e})
  OBVIOUS
<1>2. Queue(<<>>) /\ Queue(<<e>>)
  BY <1>1, Zenon DEF Queue
<1>3. Len(<<>>) = 0 /\ DOMAIN <<>> = {} /\ Len(<<e>>) = 1 /\ <<e>>[1] = e /\ DOMAIN <<e>> = 1..1
  OBVIOUS
<1> QED
  BY <1>2, <1>3

-----------------------------------------------------------------------------
(* The inductive invariant                                                 *)

\* The five fields of AdsState.
Fields(a) == a = State(a.subscriptions, a.listeners, a.routes, a.clusters, a.endpoints)

\* The resources have the fields of AdsState, the channels are queues and
\* every response under way has a type.
Shape ==
  /\ Fields(ads)
  /\ ads.subscriptions = [t \in DOMAIN ads.subscriptions |-> ads.subscriptions[t]]
  /\ Queue(requests) /\ Queue(responses)
  /\ \A i \in DOMAIN responses : responses[i].type_url # "none"
  /\ srv = [t \in TypeUrls |-> srv[t]]

\* The parts of TypeOK.
Flags == endpoint_valid \in BOOLEAN /\ open \in BOOLEAN
Handling == resp = NoResponse <=> pc \notin {"acknowledge", "subscribe", "publish"}
Bounds ==
  /\ pc \in {"connect", "receive", "acknowledge", "subscribe", "publish", "sleep", "exited"}
  /\ DOMAIN ads.subscriptions \subseteq TypeUrls
  /\ Len(requests) <= RequestCapacity /\ Len(responses) <= ResponseCapacity
  /\ breaks \in 0..MaxBreaks /\ world \in DOMAIN Worlds
  /\ Valid(published)

TypeInv == Flags /\ Handling /\ Bounds /\ Shape

\* From some request on, everything under way for the type carries the names of
\* AdsState; that request cannot be ignored, or it has arrived (position 0).
Agreed(t) ==
  \E k \in 0..Len(requests) :
    /\ IF k = 0 THEN srv[t].names = ads.subscriptions[t]
       ELSE /\ requests[k].type_url = t /\ requests[k].nonce = 0
            /\ requests[k].names = ads.subscriptions[t]
    /\ \A i \in (k + 1)..Len(requests) :
         requests[i].type_url = t => requests[i].names = ads.subscriptions[t]

AgreeInv == open => \A t \in DOMAIN ads.subscriptions : Agreed(t)

Followed(t, names) == names = {} \/ subscription(ads, t) = names

\* The response being handled may have changed what its type refers to.
Pending(t) == pc \in {"acknowledge", "subscribe"} /\ resp.type_url = t

FollowInv ==
  pc \in {"receive", "acknowledge", "subscribe", "publish"} =>
    /\ Followed("route", route_names(ads)) \/ Pending("listener")
    /\ Followed("cluster", cluster_names(ads)) \/ Pending("route")
    /\ Followed("endpoint", eds_names(ads)) \/ Pending("cluster")

-----------------------------------------------------------------------------
(* Lemmas                                                                  *)

\* The configuration the process starts with is valid.
LEMMA EmptyValid == ASSUME NEW v PROVE Valid(empty(v))
<1>1. DOMAIN empty(v).listeners = {} /\ DOMAIN empty(v).clusters = {}
  BY DEF empty
<1>2. RoutePositions(empty(v)) = {}
  BY <1>1 DEF RoutePositions
<1>3. MissingDestinations(empty(v)) = {}
  BY <1>2 DEF MissingDestinations
<1>4. Repeated(empty(v).listeners) = {} /\ Repeated(empty(v).clusters) = {}
  BY <1>1 DEF Repeated
<1>5. BindConflicts(empty(v).listeners) = {}
  BY <1>1 DEF BindConflicts
<1> HIDE DEF empty
<1>6. validate(empty(v)) = {}
  BY <1>2, <1>3, <1>4, <1>5 DEF validate
<1> QED
  BY <1>6 DEF Valid

\* A response changes the resources of its own type, a cluster's also the
\* endpoints, and never the subscriptions.
LEMMA ApplyFacts ==
  ASSUME NEW a, Fields(a), NEW r
  PROVE  LET b == apply_response(a, r) IN
           /\ Fields(b)
           /\ b.subscriptions = a.subscriptions
           /\ r.type_url # "listener" => b.listeners = a.listeners
           /\ r.type_url # "route" => b.routes = a.routes
           /\ r.type_url # "cluster" => b.clusters = a.clusters
           /\ r.type_url \notin {"cluster", "endpoint"} => b.endpoints = a.endpoints
<1> DEFINE b == apply_response(a, r)
<1>1. CASE r.type_url = "listener"
  <2>1. b = apply_listeners(a, r.resources)
    BY <1>1 DEF apply_response
  <2> QED
    BY <1>1, <2>1 DEF apply_listeners, State, Fields
<1>2. CASE r.type_url = "route"
  <2>1. b = apply_routes(a, r.resources)
    BY <1>2 DEF apply_response
  <2> QED
    BY <1>2, <2>1 DEF apply_routes, State, Fields
<1>3. CASE r.type_url = "cluster"
  <2>1. b = apply_clusters(a, r.resources)
    BY <1>3 DEF apply_response
  <2> QED
    BY <1>3, <2>1 DEF apply_clusters, State, Fields
<1>4. CASE r.type_url = "endpoint"
  <2>1. b = apply_endpoints(a, r.resources)
    BY <1>4 DEF apply_response
  <2> QED
    BY <1>4, <2>1 DEF apply_endpoints, State, Fields
<1>5. CASE r.type_url \notin TypeUrls
  <2>1. b = a
    BY <1>5 DEF apply_response, TypeUrls
  <2> QED
    BY <2>1
<1> QED
  BY <1>1, <1>2, <1>3, <1>4, <1>5 DEF TypeUrls

\* b is a with the subscription of one type changed and nothing else.
OneSubscription(a, b, t, names) ==
  /\ Fields(b)
  /\ b.subscriptions = [u \in DOMAIN a.subscriptions \cup {t} |->
                          IF u = t THEN names ELSE a.subscriptions[u]]
  /\ b.listeners = a.listeners /\ b.routes = a.routes /\ b.clusters = a.clusters
  /\ b.endpoints = a.endpoints

\* set_subscription changes the names of one type and nothing else.
LEMMA SubscribeFacts ==
  ASSUME NEW a, Fields(a), NEW t, NEW names
  PROVE  OneSubscription(a, set_subscription(a, t, names), t, names)
BY DEF OneSubscription, set_subscription, State, Fields

Updates(a, t) == {u \in DiscoveryUpdates(a, t) : Resubscribes(a, u[1], u[2])}

\* A response leads to a subscription of the type that follows its own, with the
\* names its type refers to.
LEMMA UpdateFacts ==
  ASSUME NEW a, NEW t
  PROVE  /\ t = "listener" => DiscoveryUpdates(a, t) = {u \in {<<"route", route_names(a)>>} : u[2] # {}}
         /\ t = "route" => DiscoveryUpdates(a, t) = {u \in {<<"cluster", cluster_names(a)>>} : u[2] # {}}
         /\ t = "cluster" => DiscoveryUpdates(a, t) = {u \in {<<"endpoint", eds_names(a)>>} : u[2] # {}}
         /\ t \notin {"listener", "route", "cluster"} => DiscoveryUpdates(a, t) = {}
<1>1. CASE t = "listener"
  BY <1>1 DEF DiscoveryUpdates
<1>2. CASE t = "route"
  BY <1>2 DEF DiscoveryUpdates
<1>3. CASE t = "cluster"
  BY <1>3 DEF DiscoveryUpdates
<1>4. CASE t \notin {"listener", "route", "cluster"}
  BY <1>4 DEF DiscoveryUpdates
<1> QED
  BY <1>1, <1>2, <1>3, <1>4

-----------------------------------------------------------------------------
(* Types                                                                   *)

\* The types hold at the start.
LEMMA TypeInit == Init => TypeInv
<1> SUFFICES ASSUME Init PROVE TypeInv
  OBVIOUS
<1>1. ads.subscriptions = EmptyMap /\ DOMAIN EmptyMap = {}
  BY DEF Init, NewAdsState, State, EmptyMap
<1>2. Fields(ads)
  BY DEF Init, NewAdsState, State, Fields
<1>3. Len(requests) = 0 /\ Len(responses) = 0 /\ DOMAIN responses = {}
      /\ Queue(requests) /\ Queue(responses)
  BY QueueSmall, Zenon DEF Init
<1>4. Valid(published)
  BY EmptyValid DEF Init
<1>5. Flags /\ Handling
  BY Zenon DEF Init, Flags, Handling
<1>6. Bounds
  BY <1>1, <1>3, <1>4, CapacityAssumption, EnvironmentAssumption DEF Init, Bounds
<1>7. srv = [t \in TypeUrls |-> srv[t]]
  BY DEF Init, Unsubscribed
<1>8. ads.subscriptions = [t \in DOMAIN ads.subscriptions |-> ads.subscriptions[t]]
  BY <1>1 DEF EmptyMap
<1> QED
  BY <1>2, <1>3, <1>5, <1>7, <1>8, <1>6 DEF TypeInv, Shape

\* The channel of requests has room for the one that is sent.
LEMMA RequestSent ==
  ASSUME TypeInv, NEW r, Len(requests) < RequestCapacity, requests' = Append(requests, r)
  PROVE  Queue(requests)' /\ Len(requests)' <= RequestCapacity
<1>1. Queue(requests) /\ Len(requests)' = Len(requests) + 1 /\ Len(requests) \in Nat
  BY QueueAppend DEF TypeInv, Shape
<1> QED
  BY <1>1, QueueAppend, CapacityAssumption

\* Return keeps the types.
LEMMA ReturnTypes ==
  ASSUME TypeInv, Return
  PROVE  TypeInv'
<1>1. Queue(requests)' /\ Queue(responses)' /\ Len(requests)' = 0 /\ Len(responses)' = 0
      /\ DOMAIN responses' = {}
  BY QueueSmall, Zenon DEF Return
<1>2. Flags' /\ Handling'
  BY Zenon DEF TypeInv, Flags, Handling, Return
<1>3. Bounds'
  BY <1>1, CapacityAssumption DEF TypeInv, Bounds, Return, server
<1> QED
  BY <1>1, <1>2, <1>3 DEF TypeInv, Shape, Return, server

\* Connect keeps the types.
LEMMA ConnectTypes ==
  ASSUME TypeInv, Connect
  PROVE  TypeInv'
<1> DEFINE r == Request("listener", ListenerNames, "", 0)
<1>1. /\ Queue(requests)' /\ Len(requests)' = 1
      /\ Queue(responses)' /\ Len(responses)' = 0 /\ DOMAIN responses' = {}
  <2> requests' = <<r>> /\ responses' = <<>>
    BY Zenon DEF Connect
  <2> HIDE DEF r
  <2> QED
    BY QueueSmall
<1>2. Fields(NewAdsState) /\ NewAdsState.subscriptions = EmptyMap /\ DOMAIN EmptyMap = {}
  BY DEF NewAdsState, State, EmptyMap, Fields
<1>3. ads' = set_subscription(NewAdsState, "listener", ListenerNames)
  BY Zenon DEF Connect
<1>4. Fields(ads)' /\ ads'.subscriptions = [u \in {"listener"} |-> ListenerNames]
  <2>1. OneSubscription(NewAdsState, ads', "listener", ListenerNames)
    BY <1>2, <1>3, SubscribeFacts
  <2> QED
    BY <1>2, <2>1 DEF OneSubscription
<1>5. Flags'
  BY Zenon DEF TypeInv, Flags, Connect
<1>6. Handling'
  BY Zenon DEF TypeInv, Handling, Connect
<1>7. Bounds'
  <2>1. DOMAIN ads'.subscriptions \subseteq TypeUrls
    BY <1>4 DEF TypeUrls
  <2>2. Len(requests)' <= RequestCapacity /\ Len(responses)' <= ResponseCapacity
    BY <1>1, CapacityAssumption
  <2>3. pc' = "receive" /\ breaks' = breaks /\ world' = world /\ published' = published
    BY Zenon DEF Connect
  <2> QED
    BY <2>1, <2>2, <2>3 DEF TypeInv, Bounds
<1>8. srv' = [t \in TypeUrls |-> srv'[t]]
  BY Zenon DEF Connect, Unsubscribed
<1> QED
  BY <1>1, <1>4, <1>5, <1>6, <1>7, <1>8 DEF TypeInv, Shape

\* Receive keeps the types.
LEMMA ReceiveTypes ==
  ASSUME TypeInv, Receive
  PROVE  TypeInv'
<1>1. CASE ~ Decodes(Head(responses))
  BY <1>1, ReturnTypes DEF Receive
<1>2. CASE Decodes(Head(responses))
  <2>1. /\ ads' = apply_response(ads, Head(responses)) /\ resp' = Head(responses)
        /\ responses' = Tail(responses) /\ pc = "receive" /\ pc' = "acknowledge"
        /\ responses # <<>>
        /\ UNCHANGED <<endpoint_valid, published, requests, open, breaks, world, nonce, srv>>
    BY <1>2 DEF Receive, server
  <2>2. /\ Queue(responses)' /\ Len(responses) \in Nat /\ Len(responses)' = Len(responses) - 1
        /\ \A i \in DOMAIN responses' : responses'[i].type_url # "none"
        /\ Head(responses).type_url # "none"
    BY <2>1, QueueTail DEF TypeInv, Shape
  <2>3. Fields(ads)' /\ ads'.subscriptions = ads.subscriptions
    BY <2>1, ApplyFacts, Zenon DEF TypeInv, Shape
  <2>4. Flags'
    BY <2>1 DEF TypeInv, Flags
  <2>5. resp' # NoResponse
    <3>1. NoResponse.type_url = "none"
      BY DEF NoResponse
    <3>2. resp'.type_url # "none"
      BY <2>1, <2>2
    <3> QED
      BY <3>1, <3>2
  <2>6. Handling'
    BY <2>1, <2>5 DEF Handling
  <2>7. Bounds'
    BY <2>1, <2>2, <2>3, CapacityAssumption DEF TypeInv, Bounds
  <2> QED
    BY <2>1, <2>2, <2>3, <2>4, <2>7, <2>6 DEF TypeInv, Shape
<1> QED
  BY <1>1, <1>2

\* The steps that send a request keep the types.
LEMMA SendTypes ==
  ASSUME TypeInv, Acknowledge \/ Subscribe
  PROVE  TypeInv'
<1>1. /\ pc \in {"acknowledge", "subscribe"} /\ pc' \in {"subscribe", "publish"}
      /\ UNCHANGED <<endpoint_valid, resp, published, responses, open, breaks, world, nonce, srv>>
  BY Zenon DEF Acknowledge, Subscribe, server
<1>2. Flags' /\ Handling'
  BY <1>1 DEF TypeInv, Flags, Handling
<1>3. Queue(requests)' /\ Len(requests)' <= RequestCapacity
  <2>1. CASE requests' = requests
    BY <2>1 DEF TypeInv, Shape, Bounds
  <2>2. CASE requests' # requests
    <3>1. Len(requests) < RequestCapacity /\ \E r : requests' = Append(requests, r)
      BY <2>2, Zenon DEF Acknowledge, Subscribe
    <3> QED
      BY <3>1, RequestSent
  <2> QED
    BY <2>1, <2>2
<1>4. /\ Fields(ads)'
      /\ ads'.subscriptions = [t \in DOMAIN ads'.subscriptions |-> ads'.subscriptions[t]]
      /\ DOMAIN ads'.subscriptions \subseteq TypeUrls
  <2>1. CASE ads' = ads
    BY <2>1 DEF TypeInv, Shape, Bounds
  <2>2. CASE ads' # ads
    <3>1. PICK u \in DiscoveryUpdates(ads, resp.type_url) : ads' = set_subscription(ads, u[1], u[2])
      BY <2>2, Zenon DEF Acknowledge, Subscribe
    <3>2. u[1] \in TypeUrls
      BY UpdateFacts DEF TypeUrls
    <3>3. OneSubscription(ads, ads', u[1], u[2])
      BY <3>1, SubscribeFacts DEF TypeInv, Shape
    <3> QED
      BY <3>2, <3>3 DEF TypeInv, Bounds, OneSubscription
  <2> QED
    BY <2>1, <2>2
<1> QED
  BY <1>1, <1>2, <1>3, <1>4 DEF TypeInv, Shape, Bounds

\* So do the steps of the client that send nothing.
LEMMA LocalTypes ==
  ASSUME TypeInv, InvalidEndpoint \/ ConnectFails \/ Publish \/ Reconnect
  PROVE  TypeInv'
<1>1. UNCHANGED <<endpoint_valid, ads, requests, responses, open, world, nonce, srv>>
  BY DEF InvalidEndpoint, ConnectFails, Publish, Reconnect, server
<1>2. Flags'
  BY <1>1 DEF TypeInv, Flags
<1>3. Handling'
  BY DEF TypeInv, Handling, InvalidEndpoint, ConnectFails, Publish, Reconnect
<1>4. breaks' \in 0..MaxBreaks
  BY EnvironmentAssumption DEF TypeInv, Bounds, InvalidEndpoint, ConnectFails, Publish, Reconnect
<1>5. Valid(published)'
  BY DEF TypeInv, Bounds, InvalidEndpoint, ConnectFails, Publish, Reconnect
<1>6. pc' \in {"exited", "sleep", "receive", "connect"}
  BY DEF InvalidEndpoint, ConnectFails, Publish, Reconnect
<1>7. Bounds'
  BY <1>1, <1>4, <1>5, <1>6 DEF TypeInv, Bounds
<1> QED
  BY <1>1, <1>2, <1>3, <1>7 DEF TypeInv, Shape

\* So do the steps of the server that push nothing.
LEMMA StreamTypes ==
  ASSUME TypeInv, StreamBreaks \/ WorldChanges \/ ServerReceives
  PROVE  TypeInv'
<1>1. UNCHANGED <<endpoint_valid, pc, ads, resp, published>>
  BY DEF StreamBreaks, WorldChanges, ServerReceives, client
<1>2. Flags'
  BY <1>1, Zenon DEF TypeInv, Flags, StreamBreaks, WorldChanges, ServerReceives
<1>3. Handling'
  BY <1>1 DEF TypeInv, Handling
<1>4. breaks' \in 0..MaxBreaks /\ world' \in DOMAIN Worlds
  BY EnvironmentAssumption DEF TypeInv, Bounds, StreamBreaks, WorldChanges, ServerReceives, server
<1>5. /\ Queue(requests)' /\ Len(requests)' <= RequestCapacity
      /\ Queue(responses)' /\ Len(responses)' <= ResponseCapacity
      /\ \A i \in DOMAIN responses' : responses'[i].type_url # "none"
  <2>1. CASE StreamBreaks
    <3>1. requests' = <<>> /\ responses' = <<>>
      BY <2>1 DEF StreamBreaks
    <3>2. Queue(<<>>) /\ Len(<<>>) = 0 /\ DOMAIN <<>> = {}
      BY QueueSmall, Zenon
    <3> QED
      BY <3>1, <3>2, CapacityAssumption
  <2>2. CASE WorldChanges
    BY <2>2 DEF WorldChanges, TypeInv, Shape, Bounds
  <2>3. CASE ServerReceives
    <3>1. requests # <<>> /\ requests' = Tail(requests) /\ responses' = responses /\ Queue(requests)
      BY <2>3 DEF ServerReceives, TypeInv, Shape
    <3>2. Queue(requests)' /\ Len(requests)' = Len(requests) - 1 /\ Len(requests) \in Nat
      BY <3>1, QueueTail
    <3>3. Len(requests)' <= RequestCapacity
      BY <3>2, CapacityAssumption DEF TypeInv, Bounds
    <3> QED
      BY <3>1, <3>2, <3>3 DEF TypeInv, Shape, Bounds
  <2> QED
    BY <2>1, <2>2, <2>3
<1>6. srv' = [t \in TypeUrls |-> srv'[t]]
  BY DEF TypeInv, Shape, StreamBreaks, WorldChanges, ServerReceives, server
<1>7. Bounds'
  BY <1>1, <1>4, <1>5 DEF TypeInv, Bounds
<1> QED
  BY <1>1, <1>2, <1>3, <1>5, <1>6, <1>7 DEF TypeInv, Shape

\* So do the pushes.
LEMMA PushTypes ==
  ASSUME TypeInv, ServerPushesUnknown \/ \E t \in TypeUrls : ServerPushes(t)
  PROVE  TypeInv'
<1>1. UNCHANGED <<endpoint_valid, pc, ads, resp, published, requests, open, breaks, world>>
  BY Zenon DEF ServerPushesUnknown, ServerPushes, client
<1>2. Flags' /\ Handling'
  BY <1>1 DEF TypeInv, Flags, Handling
<1>3. PICK r : r.type_url # "none" /\ responses' = Append(responses, r)
  BY Zenon DEF ServerPushesUnknown, ServerPushes, TypeUrls
<1>4. Len(responses) < ResponseCapacity
  BY Zenon DEF ServerPushesUnknown, ServerPushes
<1>5. /\ Queue(responses)' /\ Len(responses)' <= ResponseCapacity
      /\ \A i \in DOMAIN responses' : responses'[i].type_url # "none"
  <2>1. /\ Queue(Append(responses, r)) /\ Len(responses) \in Nat /\ DOMAIN responses = 1..Len(responses)
        /\ Len(Append(responses, r)) = Len(responses) + 1
        /\ DOMAIN Append(responses, r) = 1..(Len(responses) + 1)
        /\ Append(responses, r)[Len(responses) + 1] = r
        /\ \A i \in 1..Len(responses) : Append(responses, r)[i] = responses[i]
    BY QueueAppend DEF TypeInv, Shape
  <2>2. \A i \in DOMAIN responses : responses[i].type_url # "none"
    BY DEF TypeInv, Shape
  <2> QED
    BY <1>3, <1>4, <2>1, <2>2, CapacityAssumption
<1>6. srv' = [t \in TypeUrls |-> srv'[t]]
  BY Zenon DEF TypeInv, Shape, ServerPushesUnknown, ServerPushes
<1> QED
  BY <1>1, <1>2, <1>5, <1>6 DEF TypeInv, Shape, Bounds

\* Every step keeps the types.
LEMMA TypeStep == TypeInv /\ [Next]_vars => TypeInv'
<1> SUFFICES ASSUME TypeInv, [Next]_vars PROVE TypeInv'
  OBVIOUS
<1>1. CASE InvalidEndpoint \/ ConnectFails \/ Publish \/ Reconnect
  BY <1>1, LocalTypes
<1>2. CASE Connect
  BY <1>2, ConnectTypes
<1>3. CASE Receive
  BY <1>3, ReceiveTypes
<1>4. CASE ReceiveFails \/ SendFails
  BY <1>4, ReturnTypes DEF ReceiveFails, SendFails
<1>5. CASE Acknowledge \/ Subscribe
  BY <1>5, SendTypes
<1>6. CASE StreamBreaks \/ WorldChanges \/ ServerReceives
  BY <1>6, StreamTypes
<1>7. CASE ServerPushesUnknown \/ \E t \in TypeUrls : ServerPushes(t)
  BY <1>7, PushTypes
<1>8. CASE UNCHANGED vars
  BY <1>8 DEF vars, TypeInv, Flags, Handling, Bounds, Shape
<1> QED
  BY <1>1, <1>2, <1>3, <1>4, <1>5, <1>6, <1>7, <1>8 DEF Next, run, Environment

-----------------------------------------------------------------------------
(* What the server knows                                                   *)

\* Nothing that touches neither the names nor the requests changes it.
LEMMA AgreedSame ==
  ASSUME NEW t, Agreed(t), requests' = requests, ads'.subscriptions = ads.subscriptions,
         srv'[t].names = srv[t].names
  PROVE  Agreed(t)'
BY DEF Agreed

\* A request that carries the names subscribed may be added.
LEMMA AgreedAppend ==
  ASSUME TypeInv, NEW t, Agreed(t), NEW r, requests' = Append(requests, r),
         r.type_url = t => r.names = ads.subscriptions[t],
         ads'.subscriptions[t] = ads.subscriptions[t], srv' = srv
  PROVE  Agreed(t)'
<1> DEFINE n == Len(requests)
           new == Append(requests, r)
           subs == ads.subscriptions[t]
<1>1. /\ n \in Nat /\ Len(new) = n + 1 /\ new[n + 1] = r
      /\ \A i \in 1..n : new[i] = requests[i]
  BY QueueAppend DEF TypeInv, Shape
<1>2. PICK k \in 0..n :
        /\ IF k = 0 THEN srv[t].names = subs
           ELSE requests[k].type_url = t /\ requests[k].nonce = 0 /\ requests[k].names = subs
        /\ \A i \in (k + 1)..n : requests[i].type_url = t => requests[i].names = subs
  BY DEF Agreed
<1> HIDE DEF n, new
<1>3. k \in 0..Len(new)
  BY <1>1, <1>2
<1>4. IF k = 0 THEN srv[t].names = subs
      ELSE new[k].type_url = t /\ new[k].nonce = 0 /\ new[k].names = subs
  BY <1>1, <1>2
<1>5. ASSUME NEW i \in (k + 1)..Len(new), new[i].type_url = t PROVE new[i].names = subs
  <2>1. CASE i = n + 1
    BY <1>1, <1>5, <2>1
  <2>2. CASE i # n + 1
    BY <1>1, <1>2, <1>5, <2>2
  <2> QED
    BY <2>1, <2>2
<1> QED
  BY <1>3, <1>4, <1>5 DEF Agreed, new

\* So may a request with new names that answers no push: the server has to take
\* it.
LEMMA AgreedRequest ==
  ASSUME TypeInv, NEW t, NEW r, requests' = Append(requests, r),
         r.type_url = t, r.nonce = 0, r.names = ads'.subscriptions[t]
  PROVE  Agreed(t)'
<1>1. Len(requests) \in Nat /\ Len(requests') = Len(requests) + 1 /\ requests'[Len(requests) + 1] = r
  BY QueueAppend DEF TypeInv, Shape
<1> DEFINE k == Len(requests')
<1>2. k \in 0..Len(requests') /\ k # 0 /\ requests'[k] = r /\ (k + 1)..Len(requests') = {}
  BY <1>1
<1> HIDE DEF k
<1> QED
  BY <1>2 DEF Agreed

\* The server takes or ignores a request; what it then knows is still right.
LEMMA AgreedReceive ==
  ASSUME TypeInv, NEW t \in TypeUrls, Agreed(t), ServerReceives
  PROVE  Agreed(t)'
<1> DEFINE n == Len(requests)
           new == Tail(requests)
           h == requests[1]
           subs == ads.subscriptions[t]
<1>1. /\ n \in Nat \ {0} /\ Len(new) = n - 1 /\ Head(requests) = h
      /\ \A i \in 1..(n - 1) : new[i] = requests[i + 1]
  BY QueueTail DEF TypeInv, Shape, ServerReceives
<1>2. /\ requests' = new /\ ads' = ads
      /\ srv'[t] = IF t = h.type_url THEN Answered(srv[t], h) ELSE srv[t]
  BY <1>1 DEF ServerReceives, client
<1>3. PICK k \in 0..n :
        /\ IF k = 0 THEN srv[t].names = subs
           ELSE requests[k].type_url = t /\ requests[k].nonce = 0 /\ requests[k].names = subs
        /\ \A i \in (k + 1)..n : requests[i].type_url = t => requests[i].names = subs
  BY DEF Agreed
<1>4. h.type_url = t => srv'[t].names \in {h.names, srv[t].names}
                       /\ (h.nonce = 0 => srv'[t].names = h.names)
  BY <1>2 DEF Answered, Known
<1>5. h.type_url # t => srv'[t].names = srv[t].names
  BY <1>2
<1> HIDE DEF n, new, h, subs
<1>6. CASE k \in {0, 1}
  <2>1. srv'[t].names = subs
    <3>1. CASE k = 0
      BY <1>1, <1>3, <1>4, <1>5, <3>1 DEF h
    <3>2. CASE k = 1
      BY <1>3, <1>4, <3>2 DEF h
    <3> QED
      BY <1>6, <3>1, <3>2
  <2>2. \A i \in 1..Len(new) : new[i].type_url = t => new[i].names = subs
    BY <1>1, <1>3, <1>6
  <2>3. 0 \in 0..Len(new)
    BY <1>1
  <2> QED
    BY <1>2, <2>1, <2>2, <2>3 DEF Agreed, subs
<1>7. CASE k \notin {0, 1}
  <2> DEFINE j == k - 1
  <2>1. j \in 0..Len(new) /\ j # 0 /\ new[j] = requests[k]
    BY <1>1, <1>3, <1>7
  <2>2. \A i \in (j + 1)..Len(new) : new[i].type_url = t => new[i].names = subs
    BY <1>1, <1>3, <1>7
  <2>3. new[j].type_url = t /\ new[j].nonce = 0 /\ new[j].names = subs
    BY <1>3, <1>7, <2>1
  <2> HIDE DEF j
  <2> QED
    BY <1>2, <2>1, <2>2, <2>3 DEF Agreed, subs
<1> QED
  BY <1>6, <1>7

\* Every step keeps the client and the server in agreement.
LEMMA AgreeStep == TypeInv /\ TypeInv' /\ AgreeInv /\ [Next]_vars => AgreeInv'
<1> SUFFICES ASSUME TypeInv, TypeInv', AgreeInv, [Next]_vars, open',
                    NEW t \in DOMAIN ads'.subscriptions
             PROVE  Agreed(t)'
  BY DEF AgreeInv
<1>1. t \in TypeUrls
  BY DEF TypeInv, Bounds
<1>2. CASE Connect
  <2>1. Fields(NewAdsState) /\ NewAdsState.subscriptions = EmptyMap /\ DOMAIN EmptyMap = {}
    BY DEF NewAdsState, State, EmptyMap, Fields
  <2>2. OneSubscription(NewAdsState, ads', "listener", ListenerNames)
    BY <1>2, <2>1, SubscribeFacts, Zenon DEF Connect
  <2>3. t = "listener" /\ ads'.subscriptions[t] = ListenerNames
    BY <2>1, <2>2 DEF OneSubscription
  <2> DEFINE r == Request("listener", ListenerNames, "", 0)
  <2>4. requests' = <<r>> /\ r.type_url = t /\ r.nonce = 0 /\ r.names = ListenerNames
    BY <1>2, <2>3, Zenon DEF Connect, Request
  <2> HIDE DEF r
  <2>5. 1 \in 0..Len(requests') /\ requests'[1] = r /\ (1 + 1)..Len(requests') = {}
    BY <2>4, QueueSmall
  <2> QED
    BY <2>3, <2>4, <2>5 DEF Agreed
<1>3. CASE Receive
  <2>1. Decodes(Head(responses))
    BY <1>3, Zenon DEF Receive, Return
  <2>2. ads' = apply_response(ads, Head(responses)) /\ UNCHANGED <<requests, open, srv>>
    BY <1>3, <2>1, Zenon DEF Receive, server
  <2>3. ads'.subscriptions = ads.subscriptions
    BY <2>2, ApplyFacts, Zenon DEF TypeInv, Shape
  <2> QED
    BY <2>2, <2>3, AgreedSame DEF AgreeInv
<1>4. CASE Acknowledge
  <2> DEFINE r == Request(resp.type_url, subscription(ads, resp.type_url), resp.version_info, resp.nonce)
  <2>1. requests' = Append(requests, r) /\ UNCHANGED <<ads, open, srv>>
    BY <1>4 DEF Acknowledge, server
  <2>2. r.type_url = t => r.names = ads.subscriptions[t]
    BY <2>1 DEF Request, subscription
  <2>3. Agreed(t)
    BY <2>1 DEF AgreeInv
  <2> HIDE DEF r
  <2> QED
    BY <2>1, <2>2, <2>3, AgreedAppend
<1>5. CASE Subscribe /\ UNCHANGED <<ads, requests>>
  BY <1>5, AgreedSame, Zenon DEF AgreeInv, Subscribe, server
<1>6. CASE Subscribe /\ ~ UNCHANGED <<ads, requests>>
  <2>1. PICK u \in DiscoveryUpdates(ads, resp.type_url) :
          /\ ads' = set_subscription(ads, u[1], u[2])
          /\ requests' = Append(requests, Request(u[1], u[2], "", 0))
    BY <1>6, Zenon DEF Subscribe
  <2>2. UNCHANGED <<open, srv>>
    BY <1>6, Zenon DEF Subscribe, server
  <2>3. OneSubscription(ads, ads', u[1], u[2])
    BY <2>1, SubscribeFacts, Zenon DEF TypeInv, Shape
  <2> DEFINE r == Request(u[1], u[2], "", 0)
  <2>4. r.type_url = u[1] /\ r.nonce = 0 /\ r.names = u[2] /\ requests' = Append(requests, r)
    BY <2>1, Zenon DEF Request
  <2> HIDE DEF r
  <2>5. CASE t = u[1]
    <3>1. ads'.subscriptions[t] = u[2]
      BY <2>3, <2>5 DEF OneSubscription
    <3> QED
      BY <2>4, <2>5, <3>1, AgreedRequest
  <2>6. CASE t # u[1]
    <3>1. t \in DOMAIN ads.subscriptions /\ ads'.subscriptions[t] = ads.subscriptions[t]
      BY <2>3, <2>6 DEF OneSubscription
    <3>2. Agreed(t)
      BY <2>2, <3>1 DEF AgreeInv
    <3> QED
      BY <2>2, <2>4, <2>6, <3>1, <3>2, AgreedAppend
  <2> QED
    BY <2>5, <2>6
<1>7. CASE ServerReceives
  <2>1. ads' = ads /\ open' = open
    BY <1>7, Zenon DEF ServerReceives, client
  <2>2. Agreed(t)
    BY <2>1 DEF AgreeInv
  <2> QED
    BY <1>1, <1>7, <2>2, AgreedReceive
<1>8. CASE ServerPushesUnknown \/ WorldChanges \/ \E x \in TypeUrls : ServerPushes(x)
  <2>1. UNCHANGED <<ads, open, requests>>
    BY <1>8, Zenon DEF ServerPushesUnknown, WorldChanges, ServerPushes, client
  <2>2. srv = [x \in TypeUrls |-> srv[x]]
    BY DEF TypeInv, Shape
  <2>3. srv'[t].names = srv[t].names
    <3>1. CASE ServerPushesUnknown
      BY <3>1 DEF ServerPushesUnknown
    <3>2. CASE WorldChanges
      BY <1>1, <3>2 DEF WorldChanges, Known
    <3>3. ASSUME NEW x \in TypeUrls, ServerPushes(x) PROVE srv'[t].names = srv[t].names
      <4>1. srv' = [y \in TypeUrls |->
                     IF y = x THEN Known(srv[x].names, FALSE, nonce + 1, srv[x].acked) ELSE srv[y]]
        BY <2>2, <3>3, Zenon DEF ServerPushes
      <4> QED
        BY <1>1, <4>1 DEF Known
    <3> QED
      BY <1>8, <3>1, <3>2, <3>3
  <2> QED
    BY <2>1, <2>3, AgreedSame DEF AgreeInv
<1>9. CASE InvalidEndpoint \/ ConnectFails \/ Publish \/ Reconnect \/ UNCHANGED vars
  <2>1. UNCHANGED <<ads, open, requests, srv>>
    BY <1>9, Zenon DEF InvalidEndpoint, ConnectFails, Publish, Reconnect, vars, server
  <2> QED
    BY <2>1, AgreedSame DEF AgreeInv
<1>10. CASE ReceiveFails \/ SendFails \/ StreamBreaks
  BY <1>10 DEF ReceiveFails, SendFails, StreamBreaks, Return
<1> QED
  BY <1>2, <1>3, <1>4, <1>5, <1>6, <1>7, <1>8, <1>9, <1>10 DEF Next, run, Environment

-----------------------------------------------------------------------------
(* What the resources refer to                                             *)

\* The names depend on the resources alone.
LEMMA ReferencesSame ==
  ASSUME NEW a, NEW b
  PROVE  /\ a.listeners = b.listeners => route_names(a) = route_names(b)
         /\ a.routes = b.routes => cluster_names(a) = cluster_names(b)
         /\ a.clusters = b.clusters => eds_names(a) = eds_names(b)
BY DEF route_names, cluster_names, eds_names

\* Every step keeps the subscriptions in step with the references.
LEMMA FollowStep == TypeInv /\ FollowInv /\ [Next]_vars => FollowInv'
<1> SUFFICES ASSUME TypeInv, FollowInv, [Next]_vars,
                    pc' \in {"receive", "acknowledge", "subscribe", "publish"}
             PROVE  FollowInv'
  BY DEF FollowInv
<1>1. CASE Connect
  <2>1. /\ Fields(NewAdsState) /\ NewAdsState.listeners = EmptyMap /\ NewAdsState.routes = EmptyMap
        /\ NewAdsState.clusters = EmptyMap /\ DOMAIN EmptyMap = {}
    BY Zenon DEF NewAdsState, State, EmptyMap, Fields
  <2>2. OneSubscription(NewAdsState, ads', "listener", ListenerNames)
    BY <1>1, <2>1, SubscribeFacts, Zenon DEF Connect
  <2>3. DOMAIN ads'.listeners = {} /\ DOMAIN ads'.routes = {} /\ DOMAIN ads'.clusters = {}
    BY <2>1, <2>2 DEF OneSubscription
  <2>4. route_names(ads)' = {} /\ cluster_names(ads)' = {} /\ eds_names(ads)' = {}
    BY <2>3 DEF route_names, cluster_names, eds_names
  <2> QED
    BY <2>4 DEF FollowInv, Followed
<1>2. CASE Receive
  <2>1. Decodes(Head(responses))
    BY <1>2 DEF Receive, Return
  <2> DEFINE r == Head(responses)
  <2>2. ads' = apply_response(ads, r) /\ resp' = r /\ pc' = "acknowledge" /\ pc = "receive"
    BY <1>2, <2>1 DEF Receive
  <2> HIDE DEF r
  <2>3. /\ ads'.subscriptions = ads.subscriptions
        /\ r.type_url # "listener" => ads'.listeners = ads.listeners
        /\ r.type_url # "route" => ads'.routes = ads.routes
        /\ r.type_url # "cluster" => ads'.clusters = ads.clusters
    BY <2>2, ApplyFacts, Zenon DEF TypeInv, Shape
  <2>4. /\ r.type_url # "listener" => route_names(ads)' = route_names(ads)
        /\ r.type_url # "route" => cluster_names(ads)' = cluster_names(ads)
        /\ r.type_url # "cluster" => eds_names(ads)' = eds_names(ads)
    BY <2>3, ReferencesSame
  <2>5. \A t : subscription(ads, t)' = subscription(ads, t)
    BY <2>3 DEF subscription
  <2>6. /\ Followed("route", route_names(ads)) /\ Followed("cluster", cluster_names(ads))
        /\ Followed("endpoint", eds_names(ads))
    BY <2>2 DEF FollowInv, Pending
  <2> QED
    BY <2>2, <2>4, <2>5, <2>6 DEF FollowInv, Followed, Pending
<1>3. CASE Subscribe /\ UNCHANGED <<ads, requests>>
  <2> DEFINE T == resp.type_url
  <2>1. pc = "subscribe" /\ pc' = "publish" /\ UNCHANGED <<ads, resp>>
    BY <1>3, Zenon DEF Subscribe
  <2>2. \A u \in DiscoveryUpdates(ads, T) : ~ Resubscribes(ads, u[1], u[2])
    <3> SUFFICES ASSUME NEW u \in DiscoveryUpdates(ads, T), Resubscribes(ads, u[1], u[2])
                 PROVE  FALSE
      OBVIOUS
    <3>1. \E r : requests' = Append(requests, r)
      BY <1>3, Zenon DEF Subscribe
    <3>2. Len(requests') = Len(requests) + 1 /\ Len(requests) \in Nat
      BY <3>1, QueueAppend DEF TypeInv, Shape
    <3> QED
      BY <1>3, <3>2
  <2>3. /\ T = "listener" => Followed("route", route_names(ads))
        /\ T = "route" => Followed("cluster", cluster_names(ads))
        /\ T = "cluster" => Followed("endpoint", eds_names(ads))
    <3>1. ASSUME NEW t, NEW names, names # {} => <<t, names>> \in DiscoveryUpdates(ads, T)
          PROVE  Followed(t, names)
      <4>1. names # {} => ~ Resubscribes(ads, t, names)
        BY <2>2, <3>1
      <4> QED
        BY <4>1 DEF Followed, Resubscribes, subscription
    <3>2. ASSUME T = "listener" PROVE Followed("route", route_names(ads))
      <4>1. DiscoveryUpdates(ads, T) = {u \in {<<"route", route_names(ads)>>} : u[2] # {}}
        BY <3>2, UpdateFacts
      <4>2. route_names(ads) # {} => <<"route", route_names(ads)>> \in DiscoveryUpdates(ads, T)
        BY <4>1
      <4> QED
        BY <3>1, <4>2
    <3>3. ASSUME T = "route" PROVE Followed("cluster", cluster_names(ads))
      <4>1. DiscoveryUpdates(ads, T) = {u \in {<<"cluster", cluster_names(ads)>>} : u[2] # {}}
        BY <3>3, UpdateFacts
      <4>2. cluster_names(ads) # {} => <<"cluster", cluster_names(ads)>> \in DiscoveryUpdates(ads, T)
        BY <4>1
      <4> QED
        BY <3>1, <4>2
    <3>4. ASSUME T = "cluster" PROVE Followed("endpoint", eds_names(ads))
      <4>1. DiscoveryUpdates(ads, T) = {u \in {<<"endpoint", eds_names(ads)>>} : u[2] # {}}
        BY <3>4, UpdateFacts
      <4>2. eds_names(ads) # {} => <<"endpoint", eds_names(ads)>> \in DiscoveryUpdates(ads, T)
        BY <4>1
      <4> QED
        BY <3>1, <4>2
    <3> QED
      BY <3>2, <3>3, <3>4
  <2> QED
    BY <2>1, <2>3 DEF FollowInv, Followed, Pending
<1>4. CASE Subscribe /\ ~ UNCHANGED <<ads, requests>>
  <2> DEFINE T == resp.type_url
  <2>1. pc = "subscribe" /\ pc' = "publish" /\ resp' = resp
    BY <1>4, Zenon DEF Subscribe
  <2>2. PICK u \in DiscoveryUpdates(ads, T) : ads' = set_subscription(ads, u[1], u[2])
    BY <1>4, Zenon DEF Subscribe
  <2>3. OneSubscription(ads, ads', u[1], u[2])
    BY <2>2, SubscribeFacts DEF TypeInv, Shape
  <2>4. /\ route_names(ads)' = route_names(ads) /\ cluster_names(ads)' = cluster_names(ads)
        /\ eds_names(ads)' = eds_names(ads)
    BY <2>3, ReferencesSame DEF OneSubscription
  <2>5. \A t : subscription(ads, t)' = IF t = u[1] THEN u[2] ELSE subscription(ads, t)
    BY <2>3 DEF OneSubscription, subscription
  <2>6. \/ T = "listener" /\ u = <<"route", route_names(ads)>>
        \/ T = "route" /\ u = <<"cluster", cluster_names(ads)>>
        \/ T = "cluster" /\ u = <<"endpoint", eds_names(ads)>>
    BY UpdateFacts
  <2> DEFINE Kept(t, names) == names = {} \/ subscription(ads, t)' = names
  <2>7. /\ Followed("route", route_names(ads)) \/ T = "listener"
        /\ Followed("cluster", cluster_names(ads)) \/ T = "route"
        /\ Followed("endpoint", eds_names(ads)) \/ T = "cluster"
    BY <2>1 DEF FollowInv, Pending
  <2>8. Kept("route", route_names(ads))
    BY <2>5, <2>6, <2>7 DEF Followed
  <2>9. Kept("cluster", cluster_names(ads))
    BY <2>5, <2>6, <2>7 DEF Followed
  <2>10. Kept("endpoint", eds_names(ads))
    BY <2>5, <2>6, <2>7 DEF Followed
  <2> QED
    BY <2>4, <2>8, <2>9, <2>10 DEF FollowInv, Followed
<1>5. CASE Acknowledge
  BY <1>5 DEF FollowInv, Followed, Pending, Acknowledge
<1>6. CASE Publish
  BY <1>6 DEF FollowInv, Followed, Pending, Publish
<1>7. CASE StreamBreaks \/ WorldChanges \/ ServerReceives \/ ServerPushesUnknown
           \/ (\E t \in TypeUrls : ServerPushes(t)) \/ UNCHANGED vars
  <2>1. UNCHANGED <<ads, pc, resp>>
    BY <1>7, Zenon DEF StreamBreaks, WorldChanges, ServerReceives, ServerPushesUnknown, ServerPushes,
                client, vars
  <2> QED
    BY <2>1 DEF FollowInv, Followed, Pending
<1>8. CASE InvalidEndpoint \/ ConnectFails \/ ReceiveFails \/ SendFails \/ Reconnect
  BY <1>8 DEF InvalidEndpoint, ConnectFails, ReceiveFails, SendFails, Reconnect, Return
<1> QED
  BY <1>1, <1>2, <1>3, <1>4, <1>5, <1>6, <1>7, <1>8 DEF Next, run, Environment

-----------------------------------------------------------------------------
(* The theorems                                                            *)

\* The inductive invariant of the client and the stream.
THEOREM AdsInvariance == Spec => [](TypeInv /\ AgreeInv /\ FollowInv)
<1>1. Init => AgreeInv /\ FollowInv
  BY DEF Init, AgreeInv, FollowInv
<1> QED
  BY <1>1, TypeInit, TypeStep, AgreeStep, FollowStep, PTL DEF Spec

\* The state of the client has its type, its channels stay within their bounds
\* and what it publishes is valid.
THEOREM AdsTypeCorrect == Spec => []TypeOK
<1>1. TypeInv => TypeOK
  BY DEF TypeInv, Flags, Handling, Bounds, TypeOK
<1> QED
  BY <1>1, AdsInvariance, PTL

\* When every subscription is agreed on, the server knows them.
LEMMA AgreedInSync == TypeInv /\ AgreeInv => SubscriptionInSync
<1> SUFFICES ASSUME TypeInv, AgreeInv, open, NEW t \in DOMAIN ads.subscriptions
             PROVE  LET under_way == {i \in DOMAIN requests : requests[i].type_url = t}
                    IN  /\ under_way = {} => srv[t].names = ads.subscriptions[t]
                        /\ \A i \in under_way : (\A j \in under_way : j <= i) =>
                             requests[i].names = ads.subscriptions[t]
  BY DEF SubscriptionInSync
<1> DEFINE subs == ads.subscriptions[t]
           n == Len(requests)
<1>1. PICK k \in 0..n :
        /\ IF k = 0 THEN srv[t].names = subs
           ELSE requests[k].type_url = t /\ requests[k].nonce = 0 /\ requests[k].names = subs
        /\ \A i \in (k + 1)..n : requests[i].type_url = t => requests[i].names = subs
  BY DEF AgreeInv, Agreed
<1>2. n \in Nat /\ DOMAIN requests = 1..n
  BY QueueAppend DEF TypeInv, Shape
<1> HIDE DEF subs, n
<1>3. (\A i \in 1..n : requests[i].type_url # t) => srv[t].names = subs
  BY <1>1, <1>2
<1>4. ASSUME NEW i \in 1..n, requests[i].type_url = t,
             \A j \in 1..n : requests[j].type_url = t => j <= i
      PROVE  requests[i].names = subs
  <2>1. k <= i
    BY <1>1, <1>2, <1>4
  <2>2. CASE k = i
    BY <1>1, <1>2, <2>2
  <2>3. CASE k # i
    BY <1>1, <1>2, <1>4, <2>1, <2>3
  <2> QED
    BY <2>2, <2>3
<1> QED
  BY <1>2, <1>3, <1>4 DEF subs

\* Acknowledgements never undo a subscription, whatever the server pushes and in
\* whatever order.
THEOREM ServerKnowsSubscriptions == Spec => []SubscriptionInSync
  BY AgreedInSync, AdsInvariance, PTL

\* After every response the client is subscribed to exactly what its resources
\* refer to, unless they refer to nothing.
THEOREM ReferencesFollowed == Spec => []FollowsReferences
<1>1. FollowInv => FollowsReferences
  BY DEF FollowInv, Followed, Pending, FollowsReferences
<1> QED
  BY <1>1, AdsInvariance, PTL

-----------------------------------------------------------------------------
(* AdsState mirrors the server: the stream's part of the argument          *)

\* What AdsState holds of a type, and what resources of that type alone make.
Holds(a, t) ==
  [listener |-> a.listeners, route |-> a.routes, cluster |-> a.clusters, endpoint |-> a.endpoints][t]
Alone(t, rs) ==
  [listener |-> insert_listeners(EmptyMap, rs), route |-> insert_routes(EmptyMap, rs),
   cluster |-> insert_clusters(EmptyMap, rs), endpoint |-> insert_endpoints(EmptyMap, rs)][t]

\* The endpoints of a service came inside a cluster, after its endpoint resource.
Overwritten(n) == n \in DOMAIN ads.endpoints /\ ads.endpoints[n] \in AssignedLately(n)

Mirrored(t) ==
  \A n : ads.subscriptions[t] = {} \/ n \in ads.subscriptions[t] =>
           \/ SameAt(Holds(ads, t), Alone(t, Worlds[world].resources[t]), n)
           \/ t = "endpoint" /\ Overwritten(n)

\* No push of the type is due, and no request is under way that will make one due.
Settled(t) ==
  /\ ~ srv[t].due
  /\ \A i \in DOMAIN requests : requests[i].type_url = t => requests[i].nonce # 0

Arriving(t) == {i \in DOMAIN responses : responses[i].type_url = t}

\* The clusters that come after the last endpoints under way are no older than the
\* endpoint resources.
LateClusters == UNION {Range(Worlds[w].resources["cluster"]) : w \in Lately}
OfLate(rs) == rs \in Seq(LateClusters)
ClustersLate ==
  \A i \in Arriving("cluster") :
    (\A j \in Arriving("endpoint") : j < i) => OfLate(responses[i].resources)

\* Then the last response of the type under way has what the server has, or, if
\* there is none, AdsState has it.
UpToDate(t) ==
  /\ srv[t].nonce # 0
  /\ Arriving(t) = {} => Mirrored(t)
  /\ \A i \in Arriving(t) : (\A j \in Arriving(t) : j <= i) =>
       responses[i].resources = Subscribed(t, srv[t].names)
  /\ t = "endpoint" => ClustersLate

ListenersSubscribed ==
  "listener" \in DOMAIN ads.subscriptions /\ ads.subscriptions["listener"] = ListenerNames

MirrorInv ==
  /\ nonce \in Nat
  /\ open => /\ ListenersSubscribed
             /\ \A t \in DOMAIN ads.subscriptions : Settled(t) => UpToDate(t)

\* There is no stream at the start.
LEMMA MirrorInit == Init => MirrorInv
BY DEF Init, MirrorInv

\* Nothing is late or overwritten that was not, while the resources are the same.
LEMMA LateSame ==
  ASSUME world' = world
  PROVE  LateClusters' = LateClusters /\ \A n : AssignedLately(n)' = AssignedLately(n)
BY DEF LateClusters, AssignedLately, Lately

\* While the endpoint resources stay the same, clusters are added to the late ones.
LEMMA LateGrow ==
  ASSUME world \in Nat, world' = world + 1,
         Worlds[world'].resources["endpoint"] = Worlds[world].resources["endpoint"]
  PROVE  LateClusters \subseteq LateClusters' /\ \A n : AssignedLately(n) \subseteq AssignedLately(n)'
<1>1. ASSUME NEW w \in Lately PROVE w \in Lately'
  <2>1. w \in 1..world'
    BY DEF Lately
  <2>2. ASSUME NEW v \in w..world'
        PROVE  Worlds[v].resources["endpoint"] = Worlds[world'].resources["endpoint"]
    <3>1. w \in Int /\ (v = world' \/ v \in w..world)
      BY DEF Lately
    <3> QED  BY <3>1 DEF Lately
  <2> QED  BY <2>1, <2>2 DEF Lately
<1>2. LateClusters \subseteq LateClusters'
  BY <1>1 DEF LateClusters
<1>3. \A n : AssignedLately(n) \subseteq AssignedLately(n)'
  BY <1>1 DEF AssignedLately
<1> QED  BY <1>2, <1>3

\* A type stays up to date while nothing about it changes.
LEMMA UpToDateSame ==
  ASSUME NEW t, UpToDate(t), world' = world, responses' = responses,
         srv'[t].nonce = srv[t].nonce, srv'[t].names = srv[t].names,
         Holds(ads', t) = Holds(ads, t), ads'.subscriptions[t] = ads.subscriptions[t]
  PROVE  UpToDate(t)'
<1>1. Arriving(t)' = Arriving(t) /\ Subscribed(t, srv[t].names)' = Subscribed(t, srv[t].names)
  BY DEF Arriving, Subscribed
<1>2. t = "endpoint" => ads'.endpoints = ads.endpoints
  BY DEF Holds
<1>3. Mirrored(t) => Mirrored(t)'
  BY <1>2, LateSame DEF Mirrored, Overwritten
<1>4. ClustersLate => ClustersLate'
  BY LateSame DEF ClustersLate, Arriving, OfLate
<1> QED  BY <1>1, <1>3, <1>4 DEF UpToDate

\* When everything subscribed is in the last response, the names of the server
\* are those of AdsState.
LEMMA SettledAgrees ==
  ASSUME TypeInv, NEW t, Agreed(t), Settled(t)
  PROVE  srv[t].names = ads.subscriptions[t]
<1>1. Len(requests) \in Nat /\ DOMAIN requests = 1..Len(requests)
  BY QueueAppend DEF TypeInv, Shape
<1> QED  BY <1>1 DEF Agreed, Settled

\* Nothing is claimed once the stream is gone.
LEMMA ClosedMirror ==
  ASSUME MirrorInv, ~ open', nonce' = nonce
  PROVE  MirrorInv'
BY DEF MirrorInv

\* On a new stream the listeners are asked for, so nothing is settled.
LEMMA ConnectMirror ==
  ASSUME TypeInv, Connect
  PROVE  MirrorInv'
<1>1. ads' = set_subscription(NewAdsState, "listener", ListenerNames) /\ nonce' = 0
      /\ requests' = <<Request("listener", ListenerNames, "", 0)>>
  BY Zenon DEF Connect
<1>2. ads'.subscriptions = [u \in {"listener"} |-> ListenerNames]
  <2>1. Fields(NewAdsState) /\ NewAdsState.subscriptions = EmptyMap /\ DOMAIN EmptyMap = {}
    BY DEF NewAdsState, State, EmptyMap, Fields
  <2>2. OneSubscription(NewAdsState, ads', "listener", ListenerNames)
    BY <1>1, <2>1, SubscribeFacts, Zenon
  <2> QED  BY <2>1, <2>2 DEF OneSubscription
<1>3. 1 \in DOMAIN requests' /\ requests'[1].type_url = "listener" /\ requests'[1].nonce = 0
  <2> DEFINE r == Request("listener", ListenerNames, "", 0)
  <2>1. r.type_url = "listener" /\ r.nonce = 0
    BY DEF Request
  <2> HIDE DEF r
  <2>2. requests' = <<r>>
    BY <1>1, Zenon DEF r
  <2> QED  BY <2>1, <2>2, QueueSmall
<1>4. ~ Settled("listener")'
  BY <1>3 DEF Settled
<1> QED  BY <1>1, <1>2, <1>4, Zenon DEF MirrorInv, ListenersSubscribed

\* Steps that send nothing, receive nothing and change no resource.
LEMMA LocalMirror ==
  ASSUME MirrorInv, UNCHANGED <<ads, requests, responses, open, world, nonce, srv>>
  PROVE  MirrorInv'
<1>1. \A t : UpToDate(t) => UpToDate(t)'
  BY UpToDateSame
<1>2. \A t : Settled(t)' => Settled(t)
  BY DEF Settled
<1> QED  BY <1>1, <1>2 DEF MirrorInv, ListenersSubscribed

\* A request sent cannot make a type settled.
LEMMA SettledBefore ==
  ASSUME TypeInv, NEW t, NEW r, requests' = Append(requests, r), srv' = srv, Settled(t)'
  PROVE  Settled(t) /\ (r.type_url = t => r.nonce # 0)
<1>1. /\ Len(requests) \in Nat /\ DOMAIN requests = 1..Len(requests)
      /\ DOMAIN requests' = 1..(Len(requests) + 1) /\ requests'[Len(requests) + 1] = r
      /\ \A i \in 1..Len(requests) : requests'[i] = requests[i]
  BY QueueAppend DEF TypeInv, Shape
<1>2. \A i \in 1..(Len(requests) + 1) : requests'[i].type_url = t => requests'[i].nonce # 0
  BY <1>1 DEF Settled
<1>3. Len(requests) + 1 \in 1..(Len(requests) + 1)
      /\ \A i \in 1..Len(requests) : i \in 1..(Len(requests) + 1)
  BY <1>1
<1> QED  BY <1>1, <1>2, <1>3 DEF Settled

\* An acknowledgement makes no push due and changes nothing held.
LEMMA AcknowledgeMirror ==
  ASSUME TypeInv, MirrorInv, Acknowledge
  PROVE  MirrorInv'
<1>1. UNCHANGED <<ads, responses, open, world, nonce, srv>>
  BY DEF Acknowledge, server
<1>2. PICK r : requests' = Append(requests, r)
  BY DEF Acknowledge
<1>3. ASSUME open, NEW t \in DOMAIN ads.subscriptions, Settled(t)' PROVE UpToDate(t)'
  <2>1. UpToDate(t)
    BY <1>1, <1>2, <1>3, SettledBefore DEF MirrorInv
  <2> QED  BY <1>1, <2>1, UpToDateSame
<1> QED  BY <1>1, <1>3 DEF MirrorInv, ListenersSubscribed

\* A new subscription is a request that will make a push due.
LEMMA SubscribeMirror ==
  ASSUME TypeInv, MirrorInv, Subscribe
  PROVE  MirrorInv'
<1>1. UNCHANGED <<responses, open, world, nonce, srv>>
  BY Zenon DEF Subscribe, server
<1>2. CASE UNCHANGED <<ads, requests>>
  BY <1>1, <1>2, LocalMirror
<1>3. CASE ~ UNCHANGED <<ads, requests>>
  <2>1. PICK u \in DiscoveryUpdates(ads, resp.type_url) :
          /\ ads' = set_subscription(ads, u[1], u[2])
          /\ requests' = Append(requests, Request(u[1], u[2], "", 0))
    BY <1>3, Zenon DEF Subscribe
  <2>2. u[1] # "listener"
    BY UpdateFacts
  <2>3. OneSubscription(ads, ads', u[1], u[2])
    BY <2>1, SubscribeFacts, Zenon DEF TypeInv, Shape
  <2>4. ListenersSubscribed => ListenersSubscribed'
    BY <2>2, <2>3 DEF ListenersSubscribed, OneSubscription
  <2>5. ASSUME open, NEW t \in DOMAIN ads'.subscriptions, Settled(t)' PROVE UpToDate(t)'
    <3>1. Settled(t) /\ t # u[1]
      <4> DEFINE r == Request(u[1], u[2], "", 0)
      <4>1. r.type_url = u[1] /\ r.nonce = 0
        BY DEF Request
      <4> HIDE DEF r
      <4>2. requests' = Append(requests, r)
        BY <2>1, Zenon DEF r
      <4> QED  BY <1>1, <2>5, <4>1, <4>2, SettledBefore
    <3>2. t \in DOMAIN ads.subscriptions /\ ads'.subscriptions[t] = ads.subscriptions[t]
      BY <2>3, <3>1 DEF OneSubscription
    <3>3. UpToDate(t)
      BY <2>5, <3>1, <3>2 DEF MirrorInv
    <3>4. Holds(ads', t) = Holds(ads, t)
      BY <2>3 DEF OneSubscription, Holds
    <3> QED  BY <1>1, <3>2, <3>3, <3>4, UpToDateSame
  <2> QED  BY <1>1, <2>4, <2>5 DEF MirrorInv
<1> QED  BY <1>2, <1>3

\* A request received: one that answers no push makes one due, an acknowledgement
\* with the names known changes nothing that matters here.
LEMMA ServerReceivesMirror ==
  ASSUME TypeInv, MirrorInv, ServerReceives
  PROVE  MirrorInv'
<1> DEFINE r == Head(requests)
<1>1. /\ UNCHANGED <<ads, responses, open, world, nonce>>
      /\ requests # <<>> /\ requests' = Tail(requests)
      /\ srv' = [t \in TypeUrls |-> IF t = r.type_url THEN Answered(srv[t], r) ELSE srv[t]]
  BY DEF ServerReceives, client
<1>2. /\ Len(requests) \in Nat \ {0} /\ DOMAIN requests = 1..Len(requests)
      /\ DOMAIN requests' = 1..(Len(requests) - 1)
      /\ r = requests[1]
      /\ \A i \in 1..(Len(requests) - 1) : requests'[i] = requests[i + 1]
  BY <1>1, QueueTail DEF TypeInv, Shape
<1> HIDE DEF r
<1>3. ASSUME open, NEW t \in DOMAIN ads.subscriptions, Settled(t)' PROVE UpToDate(t)'
  <2>1. t \in TypeUrls
    BY DEF TypeInv, Bounds
  <2>2. /\ r.type_url = t => r.nonce # 0
        /\ ~ srv[t].due /\ srv'[t].names = srv[t].names /\ srv'[t].nonce = srv[t].nonce
    <3>1. CASE t # r.type_url
      BY <1>1, <1>3, <2>1, <3>1 DEF Settled
    <3>2. CASE t = r.type_url
      <4>1. srv'[t] = Answered(srv[t], r) /\ ~ srv'[t].due
        BY <1>1, <1>3, <2>1, <3>2 DEF Settled
      <4>2. r.nonce # 0
        BY <4>1 DEF Answered, Known
      <4>3. CASE r.nonce = srv[t].nonce
        <5>1. srv'[t] = Known(r.names, srv[t].due \/ r.names # srv[t].names, srv[t].nonce, r.nonce)
          BY <4>1, <4>2, <4>3 DEF Answered
        <5>2. /\ srv'[t].due = (srv[t].due \/ r.names # srv[t].names)
              /\ srv'[t].names = r.names /\ srv'[t].nonce = srv[t].nonce
          BY <5>1 DEF Known
        <5>3. ~ srv[t].due /\ r.names = srv[t].names
          BY <4>1, <5>2, Zenon
        <5> QED  BY <4>2, <5>2, <5>3
      <4>4. CASE r.nonce # srv[t].nonce
        BY <4>1, <4>2, <4>4 DEF Answered
      <4> QED  BY <4>2, <4>3, <4>4
    <3> QED  BY <3>1, <3>2
  <2>3. \A i \in 1..Len(requests) : requests[i].type_url = t => requests[i].nonce # 0
    <3> TAKE i \in 1..Len(requests)
    <3>1. CASE i = 1
      BY <1>2, <2>2, <3>1
    <3>2. CASE i # 1
      <4>1. i - 1 \in DOMAIN requests' /\ requests'[i - 1] = requests[i]
        BY <1>2, <3>2
      <4> QED  BY <1>3, <4>1 DEF Settled
    <3> QED  BY <3>1, <3>2
  <2>4. UpToDate(t)
    BY <1>2, <1>3, <2>2, <2>3 DEF Settled, MirrorInv
  <2> QED  BY <1>1, <2>2, <2>4, UpToDateSame
<1> QED  BY <1>1, <1>3 DEF MirrorInv, ListenersSubscribed

\* Clusters no older than the endpoint resources stay so.
LEMMA LaterStill ==
  ASSUME ClustersLate, responses' = responses, LateClusters \subseteq LateClusters'
  PROVE  ClustersLate'
<1> DEFINE O == LateClusters
           P == LateClusters'
<1>1. O \subseteq P
  OBVIOUS
<1>2. \A i \in Arriving("cluster") :
        (\A j \in Arriving("endpoint") : j < i) => responses[i].resources \in Seq(O)
  BY DEF ClustersLate, OfLate
<1> HIDE DEF O, P
<1>3. \A i \in Arriving("cluster") :
        (\A j \in Arriving("endpoint") : j < i) => responses[i].resources \in Seq(P)
  BY <1>1, <1>2
<1> QED  BY <1>3 DEF ClustersLate, OfLate, Arriving, P

\* The resources of a type that is settled did not change.
LEMMA WorldChangesMirror ==
  ASSUME TypeInv, MirrorInv, WorldChanges
  PROVE  MirrorInv'
<1>1. /\ UNCHANGED <<ads, requests, responses, open, nonce>> /\ world' = world + 1
      /\ srv' = [t \in TypeUrls |->
           Known(srv[t].names,
                 srv[t].due \/ /\ srv[t].nonce # 0
                               /\ Worlds[world].resources[t] # Worlds[world'].resources[t],
                 srv[t].nonce, srv[t].acked)]
  BY DEF WorldChanges, client
<1>2. world \in Nat
  BY EnvironmentAssumption DEF TypeInv, Bounds
<1>3. ASSUME open, NEW t \in DOMAIN ads.subscriptions, Settled(t)' PROVE UpToDate(t)'
  <2> DEFINE old == Worlds[world].resources[t]
             new == Worlds[world'].resources[t]
  <2>1. t \in TypeUrls
    BY DEF TypeInv, Bounds
  <2>2. /\ srv'[t].due = (srv[t].due \/ (srv[t].nonce # 0 /\ old # new))
        /\ srv'[t].names = srv[t].names /\ srv'[t].nonce = srv[t].nonce
    BY <1>1, <2>1 DEF Known
  <2>3. ~ srv[t].due /\ (srv[t].nonce = 0 \/ old = new)
    BY <1>3, <2>2, Zenon DEF Settled
  <2>4. Settled(t)
    BY <1>1, <1>3, <2>3 DEF Settled
  <2>5. UpToDate(t)
    BY <1>3, <2>4 DEF MirrorInv
  <2>6. old = new
    BY <2>3, <2>5 DEF UpToDate
  <2>7. Arriving(t)' = Arriving(t) /\ Subscribed(t, srv[t].names)' = Subscribed(t, srv[t].names)
    BY <1>1, <2>2, <2>6, Zenon DEF Arriving, Subscribed
  <2>8. t = "endpoint" => /\ LateClusters \subseteq LateClusters'
                          /\ \A n : AssignedLately(n) \subseteq AssignedLately(n)'
    BY <1>1, <1>2, <2>6, LateGrow
  <2>9. Mirrored(t) => Mirrored(t)'
    BY <1>1, <2>6, <2>8 DEF Mirrored, Overwritten
  <2>10. ASSUME t = "endpoint", ClustersLate PROVE ClustersLate'
    BY <1>1, <2>8, <2>10, LaterStill
  <2> QED  BY <1>1, <2>2, <2>5, <2>7, <2>9, <2>10, Zenon DEF UpToDate
<1> QED  BY <1>1, <1>3 DEF MirrorInv, ListenersSubscribed

\* A push carries what the server has under the names it knows.
LEMMA PushMirror ==
  ASSUME TypeInv, MirrorInv, NEW u, NEW r, r.type_url = u, responses' = Append(responses, r),
         UNCHANGED <<ads, requests, open, world>>, nonce' = nonce + 1,
         \A t \in TypeUrls \ {u} : srv'[t] = srv[t],
         u \in TypeUrls => /\ srv'[u].nonce = nonce + 1
                           /\ r.resources = Subscribed(u, srv'[u].names),
         u = "cluster" => OfLate(r.resources)
  PROVE  MirrorInv'
<1> DEFINE L == Len(responses)
<1>1. /\ L \in Nat /\ DOMAIN responses = 1..L
      /\ DOMAIN responses' = 1..(L + 1)
      /\ responses'[L + 1] = r
      /\ \A i \in 1..L : responses'[i] = responses[i]
  BY QueueAppend DEF TypeInv, Shape
<1> HIDE DEF L
<1>2. ASSUME open, NEW t \in DOMAIN ads.subscriptions, Settled(t)' PROVE UpToDate(t)'
  <2>1. t \in TypeUrls
    BY DEF TypeInv, Bounds
  <2>2. CASE t = u
    <3>1. L + 1 \in Arriving(t)' /\ \A i \in Arriving(t)' : i \in 1..(L + 1)
      BY <1>1, <2>2 DEF Arriving
    <3>2. \A i \in Arriving(t)' : (\A j \in Arriving(t)' : j <= i) => i = L + 1
      BY <1>1, <3>1
    <3>3. srv'[t].nonce # 0
      BY <2>1, <2>2 DEF MirrorInv
    <3>4. r.resources = Subscribed(t, srv[t].names)'
      BY <2>1, <2>2 DEF Subscribed
    <3>5. t = "endpoint" => ClustersLate'
      <4>1. SUFFICES ASSUME t = "endpoint", NEW i \in Arriving("cluster")',
                            \A j \in Arriving("endpoint")' : j < i
                     PROVE  FALSE
        BY DEF ClustersLate
      <4>2. i \in 1..(L + 1) /\ L + 1 < i
        BY <1>1, <3>1, <4>1 DEF Arriving
      <4> QED  BY <1>1, <4>2
    <3> QED  BY <1>1, <3>1, <3>2, <3>3, <3>4, <3>5 DEF UpToDate
  <2>3. CASE t # u
    <3>1. srv'[t] = srv[t]
      BY <2>1, <2>3
    <3>2. UpToDate(t)
      BY <1>2, <3>1 DEF MirrorInv, Settled
    <3>3. Arriving(t)' = Arriving(t) /\ \A i \in Arriving(t) : responses'[i] = responses[i]
      BY <1>1, <2>3 DEF Arriving
    <3>4. Subscribed(t, srv[t].names)' = Subscribed(t, srv[t].names)
      BY <3>1 DEF Subscribed
    <3>5. Mirrored(t) => Mirrored(t)'
      BY LateSame DEF Mirrored, Overwritten
    <3>6. ASSUME t = "endpoint", NEW i \in Arriving("cluster")', \A j \in Arriving("endpoint")' : j < i
          PROVE  OfLate(responses'[i].resources)
      <4>1. CASE i = L + 1
        <5>1. u = "cluster" /\ responses'[i] = r
          BY <1>1, <3>6, <4>1 DEF Arriving
        <5> QED  BY <5>1
      <4>2. CASE i # L + 1
        <5>1. i \in Arriving("cluster") /\ responses'[i] = responses[i]
          BY <1>1, <3>6, <4>2 DEF Arriving
        <5> QED  BY <3>2, <3>3, <3>6, <5>1 DEF UpToDate, ClustersLate
      <4> QED  BY <4>1, <4>2, Zenon
    <3>7. t = "endpoint" => ClustersLate'
      BY <3>6, LateSame, Zenon DEF ClustersLate, OfLate
    <3> QED  BY <3>1, <3>2, <3>3, <3>4, <3>5, <3>7, ZenonT(20) DEF UpToDate
  <2> QED  BY <2>2, <2>3
<1> QED  BY <1>2 DEF MirrorInv, ListenersSubscribed

\* What a response with everything subscribed does to its type, and any response to
\* the others.
TakenOver(r) ==
  \A t \in DOMAIN ads.subscriptions :
    r.type_url = t /\ r.resources = Subscribed(t, ads.subscriptions[t]) => Mirrored(t)'
LeftAlone(r) ==
  \A t \in TypeUrls :
    /\ Mirrored(t) /\ r.type_url # t
    /\ t = "endpoint" /\ r.type_url = "cluster" => OfLate(r.resources)
    => Mirrored(t)'

\* Once the last response under way is taken over, AdsState mirrors it.
LEMMA ReceiveMirror ==
  ASSUME TypeInv, AgreeInv, MirrorInv, Receive, Decodes(Head(responses)),
         TakenOver(Head(responses)), LeftAlone(Head(responses))
  PROVE  MirrorInv'
<1> DEFINE r == Head(responses)
           L == Len(responses)
<1>1. /\ ads' = apply_response(ads, r) /\ responses' = Tail(responses) /\ responses # <<>>
      /\ UNCHANGED <<requests, open, world, nonce, srv>>
  BY DEF Receive, server
<1>2. /\ L \in Nat \ {0} /\ DOMAIN responses = 1..L
      /\ DOMAIN responses' = 1..(L - 1)
      /\ r = responses[1]
      /\ \A i \in 1..(L - 1) : responses'[i] = responses[i + 1]
  BY <1>1, QueueTail DEF TypeInv, Shape
<1>3. ads'.subscriptions = ads.subscriptions
  BY <1>1, ApplyFacts, Zenon DEF TypeInv, Shape
<1>4. TakenOver(r) /\ LeftAlone(r)
  OBVIOUS
<1> HIDE DEF r, L
<1>5. ASSUME open, NEW t \in DOMAIN ads.subscriptions, Settled(t) PROVE UpToDate(t)'
  <2>1. UpToDate(t) /\ srv[t].names = ads.subscriptions[t] /\ t \in TypeUrls
    BY <1>5, SettledAgrees DEF MirrorInv, AgreeInv, TypeInv, Bounds
  <2>2. Subscribed(t, srv[t].names)' = Subscribed(t, srv[t].names)
    BY <1>1 DEF Subscribed
  <2>3. \A i \in 1..(L - 1) : i \in Arriving(t)' <=> i + 1 \in Arriving(t)
    BY <1>2 DEF Arriving
  <2>4. Arriving(t)' \subseteq 1..(L - 1) /\ Arriving(t) \subseteq 1..L
    BY <1>2 DEF Arriving
  <2>5. ASSUME NEW i \in Arriving(t)', \A j \in Arriving(t)' : j <= i
        PROVE  responses'[i].resources = Subscribed(t, srv[t].names)
    <3>1. i + 1 \in Arriving(t) /\ i \in 1..(L - 1)
      BY <2>3, <2>4, <2>5
    <3>2. ASSUME NEW j \in Arriving(t) PROVE j <= i + 1
      <4>1. CASE j = 1
        BY <3>1, <4>1
      <4>2. CASE j # 1
        <5>1. j - 1 \in 1..(L - 1) /\ (j - 1) + 1 = j
          BY <1>2, <2>4, <4>2
        <5>2. j - 1 \in Arriving(t)'
          BY <2>3, <5>1
        <5>3. j - 1 <= i
          BY <2>5, <5>2
        <5> QED  BY <1>2, <3>1, <5>1, <5>3
      <4> QED  BY <4>1, <4>2
    <3>3. responses[i + 1].resources = Subscribed(t, srv[t].names)
      BY <2>1, <3>1, <3>2 DEF UpToDate
    <3> QED  BY <1>2, <3>1, <3>3
  <2>6. ASSUME Arriving(t)' = {} PROVE Mirrored(t)'
    <3>1. Arriving(t) \subseteq {1}
      <4> SUFFICES ASSUME NEW j \in Arriving(t), j # 1 PROVE FALSE
        OBVIOUS
      <4>1. j - 1 \in 1..(L - 1) /\ (j - 1) + 1 = j
        BY <1>2, <2>4
      <4> QED  BY <2>3, <2>6, <4>1
    <3>2. CASE r.type_url = t
      <4>1. 1 \in Arriving(t)
        BY <1>2, <3>2 DEF Arriving
      <4>2. r.resources = Subscribed(t, ads.subscriptions[t])
        BY <1>2, <2>1, <3>1, <4>1 DEF UpToDate
      <4> QED  BY <1>4, <3>2, <4>2 DEF TakenOver
    <3>3. CASE r.type_url # t
      <4>1. Arriving(t) = {}
        BY <1>2, <3>1, <3>3 DEF Arriving
      <4>2. ASSUME t = "endpoint", r.type_url = "cluster" PROVE OfLate(r.resources)
        <5>1. 1 \in Arriving("cluster")
          BY <1>2, <4>2 DEF Arriving
        <5> QED  BY <1>2, <2>1, <4>1, <4>2, <5>1 DEF UpToDate, ClustersLate
      <4> QED  BY <1>4, <2>1, <3>3, <4>1, <4>2 DEF LeftAlone, UpToDate
    <3> QED  BY <3>2, <3>3
  <2>7. ASSUME t = "endpoint", NEW i \in Arriving("cluster")', \A j \in Arriving("endpoint")' : j < i
        PROVE  OfLate(responses'[i].resources)
    <3>1. i \in 1..(L - 1) /\ i + 1 \in Arriving("cluster") /\ responses'[i] = responses[i + 1]
      BY <1>2, <2>7 DEF Arriving
    <3>2. ASSUME NEW j \in Arriving("endpoint") PROVE j < i + 1
      <4>1. CASE j = 1
        BY <1>2, <3>1, <4>1
      <4>2. CASE j # 1
        <5>1. j - 1 \in 1..(L - 1) /\ (j - 1) + 1 = j
          BY <1>2, <2>4, <2>7, <4>2
        <5>2. j - 1 < i
          BY <2>3, <2>7, <5>1
        <5> QED  BY <1>2, <3>1, <5>1, <5>2
      <4> QED  BY <4>1, <4>2
    <3> QED  BY <2>1, <2>7, <3>1, <3>2 DEF UpToDate, ClustersLate
  <2>8. t = "endpoint" => ClustersLate'
    BY <1>1, <2>7, LateSame, Zenon DEF ClustersLate, OfLate
  <2> QED  BY <1>1, <2>1, <2>2, <2>5, <2>6, <2>8, Zenon DEF UpToDate
<1>6. \A t : Settled(t)' => Settled(t)
  BY <1>1 DEF Settled
<1> QED  BY <1>1, <1>3, <1>5, <1>6 DEF MirrorInv, ListenersSubscribed

-----------------------------------------------------------------------------
(* No listener that was not asked for                                      *)

Wanted(n) == ListenerNames = {} \/ n \in ListenerNames
WantedOnly(r) == r.type_url = "listener" => \A k \in DOMAIN r.resources : Wanted(r.resources[k].name)
ForWanted(r) == r.type_url = "listener" => r.names = ListenerNames

\* Requests for listeners name those wanted; so do, from the first of them on, the
\* server's record of the stream, its pushes and AdsState.
WantedInv ==
  open => /\ \A i \in DOMAIN requests : ForWanted(requests[i])
          /\ srv["listener"].due \/ srv["listener"].nonce # 0 => srv["listener"].names = ListenerNames
          /\ \A i \in DOMAIN responses : WantedOnly(responses[i])
          /\ \A n \in DOMAIN ads.listeners : Wanted(n)

\* There is no stream at the start.
LEMMA WantedInit == Init => WantedInv
BY DEF Init, WantedInv

\* A new stream starts with a request for the listeners wanted.
LEMMA ConnectWanted ==
  ASSUME Connect
  PROVE  WantedInv'
<1> DEFINE r == Request("listener", ListenerNames, "", 0)
<1>1. /\ requests' = <<r>> /\ responses' = <<>> /\ srv' = Unsubscribed
      /\ ads' = set_subscription(NewAdsState, "listener", ListenerNames)
  BY Zenon DEF Connect
<1>2. ForWanted(r)
  BY DEF ForWanted, Request
<1> HIDE DEF r
<1>3. \A i \in DOMAIN requests' : requests'[i] = r
  BY <1>1, QueueSmall
<1>4. DOMAIN responses' = {}
  BY <1>1
<1>5. ~ srv'["listener"].due /\ srv'["listener"].nonce = 0
  BY <1>1 DEF Unsubscribed, Known, TypeUrls
<1>6. DOMAIN ads'.listeners = {}
  <2>1. Fields(NewAdsState)
    BY DEF NewAdsState, State, Fields
  <2>2. OneSubscription(NewAdsState, ads', "listener", ListenerNames)
    BY <1>1, <2>1, SubscribeFacts
  <2> QED  BY <2>2, Zenon DEF OneSubscription, NewAdsState, State, EmptyMap
<1> QED  BY <1>2, <1>3, <1>4, <1>5, <1>6 DEF WantedInv

\* Steps that send at most one request, for listeners only those wanted, and
\* change no listener.
LEMMA SendWanted ==
  ASSUME TypeInv, WantedInv, UNCHANGED <<responses, srv, open>>, ads'.listeners = ads.listeners,
         requests' = requests \/ \E r : requests' = Append(requests, r) /\ (open => ForWanted(r))
  PROVE  WantedInv'
<1>1. CASE requests' = requests
  BY <1>1 DEF WantedInv
<1>2. CASE requests' # requests
  <2>1. PICK r : requests' = Append(requests, r) /\ (open => ForWanted(r))
    BY <1>2
  <2>2. /\ Len(requests) \in Nat /\ DOMAIN requests = 1..Len(requests)
        /\ DOMAIN requests' = 1..(Len(requests) + 1) /\ requests'[Len(requests) + 1] = r
        /\ \A i \in 1..Len(requests) : requests'[i] = requests[i]
    BY <2>1, QueueAppend DEF TypeInv, Shape
  <2>3. ASSUME open, NEW i \in DOMAIN requests' PROVE ForWanted(requests'[i])
    <3>1. CASE i = Len(requests) + 1
      BY <2>1, <2>2, <2>3, <3>1, Zenon
    <3>2. CASE i # Len(requests) + 1
      <4>1. i \in DOMAIN requests /\ requests'[i] = requests[i]
        BY <2>2, <3>2
      <4> QED  BY <2>3, <4>1 DEF WantedInv
    <3> QED  BY <3>1, <3>2
  <2> QED  BY <2>3 DEF WantedInv
<1> QED  BY <1>1, <1>2

\* An acknowledgement of listeners names those subscribed.
LEMMA AcknowledgeWanted ==
  ASSUME TypeInv, MirrorInv, WantedInv, Acknowledge
  PROVE  WantedInv'
<1> DEFINE r == Request(resp.type_url, subscription(ads, resp.type_url), resp.version_info, resp.nonce)
<1>1. requests' = Append(requests, r) /\ UNCHANGED <<ads, responses, srv, open>>
  BY DEF Acknowledge, server
<1>2. open => ForWanted(r)
  BY DEF ForWanted, Request, MirrorInv, ListenersSubscribed, subscription
<1> HIDE DEF r
<1> QED  BY <1>1, <1>2, SendWanted

\* A new subscription is not one of listeners.
LEMMA SubscribeWanted ==
  ASSUME TypeInv, WantedInv, Subscribe
  PROVE  WantedInv'
<1>1. UNCHANGED <<responses, srv, open>>
  BY Zenon DEF Subscribe, server
<1>2. CASE UNCHANGED <<ads, requests>>
  BY <1>1, <1>2, SendWanted
<1>3. CASE ~ UNCHANGED <<ads, requests>>
  <2>1. PICK u \in DiscoveryUpdates(ads, resp.type_url) :
          /\ ads' = set_subscription(ads, u[1], u[2])
          /\ requests' = Append(requests, Request(u[1], u[2], "", 0))
    BY <1>3, Zenon DEF Subscribe
  <2>2. ads'.listeners = ads.listeners
    <3>1. Fields(ads)
      BY DEF TypeInv, Shape
    <3>2. OneSubscription(ads, ads', u[1], u[2])
      BY <2>1, <3>1, SubscribeFacts, ZenonT(20)
    <3> QED  BY <3>2 DEF OneSubscription
  <2>3. ForWanted(Request(u[1], u[2], "", 0))
    BY UpdateFacts DEF ForWanted, Request
  <2> QED  BY <1>1, <2>1, <2>2, <2>3, SendWanted, Zenon
<1> QED  BY <1>2, <1>3

\* The server takes over the names of a request.
LEMMA ServerReceivesWanted ==
  ASSUME TypeInv, WantedInv, ServerReceives
  PROVE  WantedInv'
<1> DEFINE r == Head(requests)
<1>1. /\ UNCHANGED <<ads, responses, open>>
      /\ requests # <<>> /\ requests' = Tail(requests)
      /\ srv' = [t \in TypeUrls |-> IF t = r.type_url THEN Answered(srv[t], r) ELSE srv[t]]
  BY DEF ServerReceives, client
<1>2. /\ Len(requests) \in Nat \ {0} /\ DOMAIN requests = 1..Len(requests)
      /\ DOMAIN requests' = 1..(Len(requests) - 1)
      /\ r = requests[1]
      /\ \A i \in 1..(Len(requests) - 1) : requests'[i] = requests[i + 1]
  BY <1>1, QueueTail DEF TypeInv, Shape
<1> HIDE DEF r
<1> SUFFICES ASSUME open PROVE WantedInv'
  BY <1>1 DEF WantedInv
<1>3. ForWanted(r)
  BY <1>2 DEF WantedInv
<1>4. \A i \in DOMAIN requests' : ForWanted(requests'[i])
  BY <1>2 DEF WantedInv
<1>5. srv'["listener"].due \/ srv'["listener"].nonce # 0 => srv'["listener"].names = ListenerNames
  <2> DEFINE k == srv["listener"]
  <2>1. srv'["listener"] = IF r.type_url = "listener" THEN Answered(k, r) ELSE k
    BY <1>1 DEF TypeUrls
  <2>2. k.due \/ k.nonce # 0 => k.names = ListenerNames
    BY DEF WantedInv
  <2> HIDE DEF k
  <2>3. CASE r.type_url = "listener" /\ Answered(k, r) # k
    <3>1. Answered(k, r).names = r.names
      BY <2>3 DEF Answered, Known
    <3> QED  BY <1>3, <2>1, <2>3, <3>1 DEF ForWanted
  <2>4. CASE ~ (r.type_url = "listener" /\ Answered(k, r) # k)
    BY <2>1, <2>2, <2>4
  <2> QED  BY <2>3, <2>4
<1> QED  BY <1>1, <1>4, <1>5, Zenon DEF WantedInv

\* The names the server knows stay the same when the resources change.
LEMMA WorldChangesWanted ==
  ASSUME WantedInv, WorldChanges
  PROVE  WantedInv'
<1>1. UNCHANGED <<ads, requests, responses, open>>
  BY DEF WorldChanges, client
<1>2. /\ srv'["listener"].names = srv["listener"].names
      /\ srv'["listener"].nonce = srv["listener"].nonce
      /\ srv'["listener"].due => srv["listener"].due \/ srv["listener"].nonce # 0
  BY Zenon DEF WorldChanges, Known, TypeUrls
<1> QED  BY <1>1, <1>2 DEF WantedInv

-----------------------------------------------------------------------------
(* The last configuration is not held back for nothing                     *)

\* Nothing pushed on this stream was received.
NothingReceived == \A t \in TypeUrls : srv[t].nonce # 0 => Arriving(t) # {}

\* The configuration that AdsState stands for is published if it is valid.
Offering(version) ==
  Valid(runtime_config(ads, version)) => published = runtime_config(ads, version)

PublishedInv == pc = "receive" /\ open => NothingReceived \/ \E version : Offering(version)

\* There is no stream at the start.
LEMMA PublishedInit == Init => PublishedInv
BY DEF Init, PublishedInv

\* Steps of the server and the network while the client waits.
LEMMA WaitingPublished ==
  ASSUME PublishedInv, UNCHANGED <<pc, ads, published, open>>, NothingReceived => NothingReceived'
  PROVE  PublishedInv'
BY DEF PublishedInv, Offering

\* A push is under way until it is received.
LEMMA PushPublished ==
  ASSUME TypeInv, PublishedInv, ServerPushesUnknown \/ \E t \in TypeUrls : ServerPushes(t)
  PROVE  PublishedInv'
<1>1. UNCHANGED <<pc, ads, published, open>>
  BY Zenon DEF ServerPushesUnknown, ServerPushes, client
<1>2. PICK u, r : /\ responses' = Append(responses, r)
                  /\ \A t \in TypeUrls : srv'[t].nonce # srv[t].nonce => t = u /\ r.type_url = u
  <2>1. CASE ServerPushesUnknown
    BY <2>1 DEF ServerPushesUnknown
  <2>2. CASE \E t \in TypeUrls : ServerPushes(t)
    <3>1. PICK t \in TypeUrls : ServerPushes(t)
      BY <2>2
    <3> DEFINE rs == Subscribed(t, srv[t].names)
               r == [type_url |-> t, version_info |-> Worlds[world].version, nonce |-> nonce + 1,
                     resources |-> rs]
    <3>2. responses' = Append(responses, r)
      BY <3>1 DEF ServerPushes
    <3>3. \A u \in TypeUrls : u # t => srv'[u] = srv[u]
      BY <3>1 DEF ServerPushes, TypeInv, Shape
    <3> HIDE DEF rs
    <3>4. r.type_url = t
      OBVIOUS
    <3> HIDE DEF r
    <3> QED  BY <3>2, <3>3, <3>4, Zenon
  <2> QED  BY <2>1, <2>2
<1>3. /\ Len(responses) \in Nat /\ DOMAIN responses = 1..Len(responses)
      /\ DOMAIN responses' = 1..(Len(responses) + 1) /\ responses'[Len(responses) + 1] = r
      /\ \A i \in 1..Len(responses) : responses'[i] = responses[i]
  BY <1>2, QueueAppend DEF TypeInv, Shape
<1>4. Len(responses) + 1 \in DOMAIN responses' /\ \A i \in DOMAIN responses : i \in DOMAIN responses'
  BY <1>3
<1>5. \A t : Arriving(t) \subseteq Arriving(t)' /\ (r.type_url = t => Len(responses) + 1 \in Arriving(t)')
  BY <1>3, <1>4 DEF Arriving
<1>6. NothingReceived => NothingReceived'
  BY <1>2, <1>5 DEF NothingReceived
<1> QED  BY <1>1, <1>6, WaitingPublished

\* Every response that is handled leads to a configuration, and it is published
\* unless it is invalid.
LEMMA PublishedStep == TypeInv /\ PublishedInv /\ [Next]_vars => PublishedInv'
<1> SUFFICES ASSUME TypeInv, PublishedInv, [Next]_vars PROVE PublishedInv'
  OBVIOUS
<1>1. CASE InvalidEndpoint \/ ConnectFails \/ Reconnect \/ Acknowledge \/ Subscribe
  BY <1>1 DEF InvalidEndpoint, ConnectFails, Reconnect, Acknowledge, Subscribe, PublishedInv
<1>2. CASE Connect
  <2>1. srv' = Unsubscribed
    BY <1>2, Zenon DEF Connect
  <2>2. NothingReceived'
    BY <2>1 DEF NothingReceived, Unsubscribed, Known
  <2> QED  BY <2>2 DEF PublishedInv
<1>3. CASE Receive \/ ReceiveFails \/ SendFails
  BY <1>3 DEF Receive, ReceiveFails, SendFails, Return, PublishedInv
<1>4. CASE Publish
  <2> DEFINE v == resp.version_info
  <2>1. ads' = ads /\ published' = IF Valid(runtime_config(ads, v)) THEN runtime_config(ads, v) ELSE published
    BY <1>4 DEF Publish
  <2> HIDE DEF v
  <2>2. Valid(runtime_config(ads', v)) => published' = runtime_config(ads', v)
    BY <2>1
  <2> QED  BY <2>2 DEF PublishedInv, Offering
<1>5. CASE StreamBreaks
  BY <1>5 DEF StreamBreaks, PublishedInv
<1>6. CASE WorldChanges \/ ServerReceives
  <2>1. UNCHANGED <<pc, ads, published, open, responses>>
    BY <1>6 DEF WorldChanges, ServerReceives, client
  <2>2. ASSUME NEW t \in TypeUrls
        PROVE  srv'[t].nonce = srv[t].nonce
    <3>1. CASE WorldChanges
      BY <3>1 DEF WorldChanges, Known
    <3>2. CASE ServerReceives
      <4>1. srv'[t] \in {Answered(srv[t], Head(requests)), srv[t]}
        BY <3>2 DEF ServerReceives
      <4> QED  BY <4>1 DEF Answered, Known
    <3> QED  BY <1>6, <3>1, <3>2
  <2>3. NothingReceived => NothingReceived'
    BY <2>1, <2>2 DEF NothingReceived, Arriving
  <2> QED  BY <2>1, <2>3, WaitingPublished
<1>7. CASE ServerPushesUnknown \/ \E t \in TypeUrls : ServerPushes(t)
  BY <1>7, PushPublished
<1>8. CASE UNCHANGED vars
  BY <1>8 DEF vars, PublishedInv, NothingReceived, Offering, Arriving
<1> QED
  BY <1>1, <1>2, <1>3, <1>4, <1>5, <1>6, <1>7, <1>8 DEF Next, run, Environment

==============================================================================

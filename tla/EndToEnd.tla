------------------------------ MODULE EndToEnd -------------------------------
(***************************************************************************)
(* From the control plane to the configuration in force: the ADS client    *)
(* (module AdsClient) and the configuration path of the process (module    *)
(* Gateway) joined by the watch channel.  What the client publishes is     *)
(* what the channel gets: a step of the client that changes the channel's  *)
(* value and Gateway's XdsPublish are one step, and so are the client's    *)
(* end and Gateway's XdsInvalidEndpoint.  The client starts when main has  *)
(* spawned it.                                                             *)
(***************************************************************************)
EXTENDS AdsClient

CONSTANTS StaticConfigs,  \* what the static file can hold
          MaxPublished    \* bound on the values of the channel, not reached

ASSUME BoundAssumption == MaxPublished \in Nat

VARIABLES config, conflicts, ready, served,  \* ProxyState
          channel,                           \* the values the channel has held
          seen, sender,
          tasks,                             \* where main and the apply task are
          job, xds,
          probe                              \* readiness requests: none here

gateway == <<config, conflicts, ready, served, channel, seen, sender, tasks, job, xds, probe>>

\* The resources of a type that the server ever has.
Ever(t) == UNION {Range(Worlds[w].resources[t]) : w \in DOMAIN Worlds}

\* The maps made of some of the entries.
Maps(entries) ==
  {m \in UNION {[keys -> {e[2] : e \in entries}] : keys \in SUBSET {e[1] : e \in entries}} :
     \A n \in DOMAIN m : <<n, m[n]>> \in entries}

\* What the server's resources put into each map of AdsState.
ListenerEntries == {<<l.name, listener_snapshot(l)>> : l \in Ever("listener")}
RouteEntries == {<<r.name, convert_virtual_hosts(r.virtual_hosts)>> : r \in Ever("route")}
ClusterEntries == {<<c.name, cluster_snapshot(c)>> : c \in Ever("cluster")}
EndpointEntries ==
  {<<a.name, endpoints_from_assignment(a)>> : a \in Ever("endpoint")} \cup
  {<<cluster_snapshot(c).eds_service_name, endpoints_from_assignment(c.assignment[1])>> :
     c \in {c \in Ever("cluster") : c.assignment # None}}

Versions == {Worlds[w].version : w \in DOMAIN Worlds}

\* The configurations the client can make of the server's resources.
ClientConfigs ==
  {runtime_config(State(EmptyMap, l, r, c, e), v) :
     l \in Maps(ListenerEntries), r \in Maps(RouteEntries), c \in Maps(ClusterEntries),
     e \in Maps(EndpointEntries), v \in Versions}

G == INSTANCE Gateway
  WITH XdsConfigs <- ClientConfigs, Readers <- {}, published <- channel, pc <- tasks

adsVars == <<endpoint_valid, pc, ads, resp, requests, responses, open, breaks, server>>
allVars == <<vars, gateway>>

EndToEndInit == Init /\ G!Init

\* main and the apply task; main may put the static file into the channel.
Process ==
  /\ G!MainStep \/ G!Task
  /\ published' = G!current'
  /\ UNCHANGED adsVars

Running == xds \in {"started", "streaming"}

Follow ==
  /\ Running
  /\ \/ Connect \/ Receive \/ ReceiveFails \/ Acknowledge \/ Subscribe \/ SendFails \/ Reconnect
  /\ UNCHANGED gateway

\* Mutant: the channel is not told of a configuration with the listeners of the
\* one before.
SendChangedListeners ==
  /\ Running /\ Publish
  /\ IF published'.listeners # published.listeners
     THEN G!XdsPublish(published')
     ELSE UNCHANGED gateway

\* publish compares with the value of the channel before it sends.
Send ==
  /\ Running /\ Publish
  /\ IF published' # published THEN G!XdsPublish(published') ELSE UNCHANGED gateway

End == InvalidEndpoint /\ G!XdsInvalidEndpoint

Client == Follow \/ Send \/ End

Outside ==
  /\ \/ StreamBreaks \/ WorldChanges \/ ServerReceives \/ ServerPushesUnknown
     \/ ConnectFails /\ Running
     \/ \E t \in TypeUrls : ServerPushes(t)
  /\ UNCHANGED gateway

EndToEndNext == Process \/ Client \/ Outside

\* Both components' own fairness: the tasks are scheduled, the network delivers
\* and the server pushes what is due.
EndToEndFairness ==
  /\ WF_allVars(Process) /\ WF_allVars(Client)
  /\ WF_allVars(ServerReceives /\ UNCHANGED gateway)
  /\ \A t \in TypeUrls :
       WF_allVars(srv[t].acked = srv[t].nonce /\ ServerPushes(t) /\ UNCHANGED gateway)

EndToEndSafety == EndToEndInit /\ [][EndToEndNext]_allVars

EndToEndSpec == EndToEndSafety /\ EndToEndFairness

-----------------------------------------------------------------------------
(* Properties                                                              *)

\* Type invariant of the composition: the two components agree on the value of
\* the channel, and it never holds a configuration but the bootstrap one, the
\* static file's and those made of resources the server has or had.
EndToEndTypeOK ==
  /\ published = G!current
  /\ \/ published = empty("bootstrap")
     \/ published \in StaticConfigs
     \/ published \in ClientConfigs

\* What each component takes for granted of the other: a configuration the
\* client is about to publish finds a receiver, whatever the apply task does.
PublishFindsReceiver == pc = "publish" => sender /\ tasks["task"] # "done"

\* When nothing is under way between the server and the client, and the apply task
\* has seen the channel's last value, the configuration in force is the one the
\* server's resources stand for, if they are complete: what was in force before, the
\* static file or an earlier state of the server, is gone.
ServedAtRest ==
  Idle /\ Complete /\ tasks["task"] = "changed" /\ seen = Len(channel) =>
    Reachable(config) = Expected[world]

\* When the server's resources stop changing and the stream stops failing, the
\* gateway becomes ready and serves, from then on, what these resources stand
\* for, whether or not a static file was in force and however many configurations
\* the apply task skipped.
ServesControlPlane ==
  endpoint_valid /\ world = Len(Worlds) ~> [](ready /\ Reachable(config) = Expected[world])

==============================================================================

# A TLA+ model of dxgate

dxgate is the gateway of a Dubbo mesh: it takes HTTP requests, finds a route, a
cluster and an endpoint for each, and forwards it. What it routes by comes from a
control plane (dubbod) over an ADS stream, or from a static file. This directory
holds TLA+ models of its parts, the TLC runs that check them, and TLAPS proofs.

## The system and its parts

| part | source | modules |
|------|--------|---------|
| runtime configuration: `validate`, lookups, host/path/header matching | `crates/core/src/config.rs` | `RuntimeConfig` |
| configuration path: static file, watch channel, apply task | `crates/app/src/main.rs` | `Gateway`, `GatewayProofs` |
| `ProxyState::apply_config`, `readiness`; `/readyz`, `/metrics` | `crates/proxy/src/state.rs`, `crates/admin/src/lib.rs` | `Gateway`, `ConfigRegister`, `GatewayProofs` |
| the process: bootstrap file, node identity, servers, exit | `crates/app/src/main.rs`, `crates/core/src/identity.rs` | `Process`, `GatewayProofs` |
| `pick_cluster`, `pick_endpoint` | `crates/proxy/src/state.rs` | `Picker`, `ForwardProofs` |
| `forward`, `UpstreamClients` | `crates/proxy/src/server.rs` | `Forward`, `ForwardProofs` |
| `MtlsClientPool::client_for`, `tls_config` | `crates/proxy/src/server.rs` | `ClientPool`, `ClientCache`, `ClientPoolProofs` |
| xDS resources to runtime configuration | `crates/xds/src/client.rs` 464-753 | `XdsConvert`, `AdsLemmas` |
| `AdsState` | `crates/xds/src/client.rs` 219-448 | `AdsState`, `AdsLemmas`, `AdsMirror` |
| `XdsClient::run`, `run_once` | `crates/xds/src/client.rs` 77-211 | `AdsClient`, `AdsProofs`, `AdsMirror` |
| from a resource to the route of a request | the three above, `server.rs` | `Routing`, `RoutingProofs` |
| from the control plane to the configuration in force | `client.rs`, `main.rs`, `state.rs` | `EndToEnd`, `EndToEndProofs` |

How they interact:

    dubbod --ADS--> AdsClient --watch channel--> apply task --> ProxyState
                                  ^                               |    |
              static file --------+--(applied by main first)------+    |
                                                  /readyz, /metrics <--+--> forward --> upstream

`Gateway` composes static file, channel, apply task and readiness. On its own it
sees the ADS client as a source of valid configurations (`XdsPublish`), which is
what `AdsClient` establishes (`TypeOK`: what is published is valid); `EndToEnd`
puts the two together. `Process` puts the rest of `main` around `Gateway`.
`Forward` sees `Gateway` as a source of valid configurations (`ApplyConfig`),
which is what `Gateway` establishes (`ImplementsRegister`: only valid ones are
ever served), and `client_for` as a single step, which is what `ClientPool`
establishes (`ImplementsCache`).

## Modules

**RuntimeConfig.** `validate` is a set of conflicts, empty when the
configuration is valid. The code's vector of conflicts has an order nothing
depends on. Names and versions are opaque; hosts, paths and header names are
sequences of characters because `matches_host`, `path_matches` and
`eq_ignore_ascii_case` look inside them. An `Option` is a sequence of length 0 or
1. The secrets of a configuration are read by no code and left out.

**Gateway.** `ProxyState` has two `RwLock`s and an atomic flag. `apply_config`
takes them one after another, so it is five actions (`WriteConfig`,
`ClearConflicts`, `StoreReady`; `WriteConflicts`, `StoreNotReady`), executed by
`main` for the static file and by the apply task for the channel's values.
`readiness` is three actions. The watch channel is the sequence `published` of
all values it has held; `seen` is the receiver's version. `changed()` marks the
newest value as seen, and `borrow()` reads whatever is newest by then.
`served` (history) is the number of the configuration in `ProxyState`. What the
static file can hold and what the control plane can yield are two constants,
`StaticConfigs` and `XdsConfigs`.

**ConfigRegister.** The abstract specification: a log of offered configurations
and a register that only moves forward in it, with a flag that goes up once a
configuration from the log is held. `Gateway!Offers` is the refinement mapping
for the log: a valid static file is an offer from the moment it is loaded,
because `main` applies it before it sends it.

**Process.** What `main` does around that. `args` are the parsed arguments, which
the fields of a bootstrap file replace one by one (`apply_bootstrap`); `node` is
the identity the xDS client presents. Each server is a task that binds its address
or panics, and may end later; `main` selects on both and on ctrl-c, and its return
ends the process with all tasks in it, so every action needs `process = "running"`.

**Picker, Forward.** One call of `forward` is: `Arrive` (clone the configuration,
look up the route), `PickCluster`, `PickEndpoint`, then one of `SendPlain`,
`SendMtlsUnavailable`, `SendMtls`, then the upstream's answer. Each draws on the
shared `picker_counter` or client cache, so other requests and the apply task act
in between. `WeightModulus` and `CounterModulus` stand for 2^32 and 2^64;
the sums wrap, as in a release build (a debug build panics instead).
`tls_config_loads` stands for the whole loading chain of `ClientPool`.
Names in upstream TLS settings are any texts, as in the code, and the cache key joins
them with `|`. Nothing keeps that separator out of the names, and settings that make
different clients can share a key when one of them contains it.
`SentAsClusterRequires` says that this is the only way: it allows another client than
the cluster's own in exactly this case, which the run `forward` reaches. No text of
the repository speaks of it.

**ClientPool, ClientCache.** `client_for` takes a mutex, looks the key up, checks
the paths, reads the certificate, the private key (twice, if it is not PKCS8) and
the roots, builds the client and inserts it. Each read is an action of its own,
because whoever issues the certificates replaces the files at any time
(`Replace`). A file is its kind and the number of times it has been replaced; a
client is what was read for it. `ClientCache` is the abstract specification, in
which a call is answered at one instant. The error for a poisoned mutex is left out:
no step that the model has panics while it holds the lock. A client can be put
together from files before and after a replacement, and is then kept. `ReadsOwnFiles`
and `FailsForCause` speak of calls during which no file they need is replaced
(`calm`).

**XdsConvert, AdsState.** Pure functions. Resource names are numbers, so that the
order of the `BTreeMap`s is the order of the names, and 0 is the empty name.
What the code parses out of names (a listener's port, a cluster's authority) is a
field of its own. Every packed message says whether it decodes. The chains of
iterators are written through what they return: `flatten` is the concatenation,
`Inserted` the map in which the last resource of a name decides, `InOrder` the
values by increasing name. None of them is a recursive operator, so that they can
be reasoned about.

**AdsClient.** `run_once` is sequential; its awaits split it into `Connect`,
`Receive` (with the whole of `apply_response`), `Acknowledge`, `Subscribe`,
`Publish`. `Return` is every way out of `run_once`: local state, channel and
stream are dropped, then `run` sleeps and reconnects. The request channel is
bounded (32 in the code). The server is not in this repository and is modelled
from what the client relies on: it answers subscription requests, pushes a type
again when its resources change, ignores answers to older pushes, and owes
further pushes of a type only once the last is acknowledged; it may push earlier.
It may also push a type the client does not know.

**Routing.** One step: the resources of a control plane become a configuration
(`Configured`), and a request an input for `route_for` (`MatchInput`: the host
without its port, the header values that are visible ASCII). The second half of
the module is an independent reading of the same resources as they are on the
wire, in terms of sets and of what comes before what instead of the code's maps
and loops: which resources are in force (`InForce`), which listener takes the
request (`Takes`), where its virtual hosts are (`Sources`), and which of their
routes accept the request (`Candidates`). `RoutesAsConfigured` says that the
answer is the destinations of the first of these, or none if there is none.

**EndToEnd.** `AdsClient`, with `Gateway` as an instance that shares the channel.
A publication that changes the channel's value and `XdsPublish` are one step, and
so are the two modules' accounts of an invalid endpoint. `ClientConfigs` are the
configurations that the client can make of the resources the server ever has:
`runtime_config` of maps with some of the entries these resources give. They take
the place of `Gateway!XdsConfigs`.

**Modules named MC...** are the instances. A definition whose comment starts with
"Mutant:" is a wrong variant of the definition after it. It is used by no
specification; it is there to show that a property notices the mistake.

## Runs

| run | instance | states | shows |
|-----|----------|--------|-------|
| `gateway` | 3 configurations (one invalid), 1 prober, 4 channel values | 5 thousand | `SingleApplier`, `ReadyReplyCoherent`, `NoLostUpdate`, `ReadyStable`, `ImplementsRegister`, `EventuallyServed` |
| `process` | 2 configurations (one invalid), 3 bootstrap files, 3 channel values | 3 thousand | `StaticBeforeRequests`, `BothServersOrNone` |
| `forward` | 2 requests, 3 configurations, weights mod 8, counter mod 16, 2 providers | 290 thousand | `NoConfigurationHole`, `DrainedClusterUnused`, `SentToHealthyDestination`, `SentAsClusterRequires` |
| `client_pool` | 2 callers, 3 keys, 2 providers, each file replaced once | 370 thousand | `OneClientPerKey`, `FailsForCause`, `ReadsOwnFiles`, `ImplementsCache`, `EveryCallReturns` |
| `ads` | 4 resource sets, all listeners wanted, queues of 2, 1 failure | 650 thousand | `SubscriptionInSync`, `FollowsReferences`, `OnlyMissingClusters`, `MirrorsServer`, `IdleSynced` |
| `ads_live` | 2 resource sets, 2 listeners by name, queues of 1, 1 failure | 21 thousand | `Converges` |
| `routing` | 1458 resource tables, 54 requests | 160 thousand | `RoutesAsConfigured` |
| `end_to_end` | 2 resource sets, a static file or none, queues of 1, 1 failure | 65 thousand | `EndToEndTypeOK`, `PublishFindsReceiver`, `ServedAtRest`, `ServesControlPlane` |
| `shares` | 1 request at a time, weights 1 and 1 | violated | `SharesMatchWeights` |
| `ads_complete` | as `ads`, listeners by name, queues of 1 | violated | `PublishedComplete` |
| `ads_inline` | a listener with its routes inside | violated | `ClustersFollowed` |
| `pod_fields` | as `process` | violated | `PodFieldsFromEnvironment` |

Why the bounds are enough. *gateway*: four channel values allow a value to be
overwritten while the task is applying another and a third to arrive before it
looks again. Probes are independent of each other, so one is enough, and the
proofs cover any number. *process*: the files replace control-plane fields, put
both servers on one address, or name a pod. *forward*: a second request is all
that is needed to move the counter or fill the cache between two steps of the
first. With weights mod 8 and a counter mod 16, `5+6` wraps to 3 and `4+4` to 0,
and the counter wraps too. The settings of three clusters differ in the server name
only, or share a key only because a name contains its separator. The two requests
are symmetric. *client_pool*: the keys take their files from one provider, from two, and from one that lacks a path;
a caller meets another that holds the lock or has just filled the cache, and one
replacement of each file separates any two reads. The proofs cover any number of
either. *ads*: queues of two hold a push together with one that supersedes it, and
a full request channel. The four resource sets add, change and delete at every
level and include one that does not decode. In the third a cluster that no route
names any more carries endpoints contradicting those of its service; in the last all
listeners are gone, so that routes stay subscribed which nothing refers to.
*ads_live* has an endpoint resource that does not decode at first, so streams fail at
the end of the chain of types as well as by the one failure. *routing*: every way a
route can match, be dropped or forward nowhere, in pairs, with hosts of its own and
of a route resource, next to listeners that another port or an earlier name keeps out
of the way. *end_to_end*:
`MaxPublished` is larger than the number of values the channel can hold in this
instance, so no behaviour is cut short by it.

Deadlock checking is off where the system may stop: in the `ads` runs and in
`end_to_end` the client rests when the server has nothing to push, or has exited;
in `process` and `pod_fields` the process ends; in `client_pool` callers call
once; `routing` is one step; `shares` stops after six picks.

Fairness. In `Gateway`, main and the apply task are polled by the tokio runtime
whenever they can go on; probes and the control plane get no fairness. `Process`
adds that binding an address succeeds or fails and that main's select notices the
end of a server. In `ClientPool` a caller that holds the lock, or could take it,
runs on; as `std::sync::Mutex` promises no order, weak fairness on each caller is
enough only because a caller calls once. In `AdsClient`, the client's task is
polled likewise (`run` includes the end of the reconnect delay), requests are
delivered, and the server pushes what is due once its last push of that type is
acknowledged. The resources need not change, and failures are bounded by
`MaxBreaks`: `Converges` speaks of the time after the last of them. A server that
falls silent without the transport noticing is excluded by this fairness; the
client has neither keep-alive nor timeout for it. `EndToEnd` assumes both
components' fairness and nothing more.

## What the violated runs show

* `shares`: the endpoint pick advances the counter that the cluster pick reads.
  One request after another, a route of weights 1 and 1 sends everything to its
  first cluster. The unit test of `pick_cluster` asserts the rotation by weights
  without an endpoint pick in between.
* `ads_complete`: a listener whose routes have not arrived has no virtual hosts
  and passes `validate`. Each new stream thus publishes the bare listeners. At
  start-up this makes `/readyz` report ready without a route, and after a
  reconnect it replaces a complete configuration until the routes are back. The
  client's log line takes the held-back configurations to be the incomplete ones.
* `ads_inline`: `cluster_names` reads the RDS routes only, so clusters named
  inside a listener's own route configuration are not subscribed, `validate` keeps
  reporting them missing, and the configuration is not published.
* `pod_fields`: the repository's README says that pod-specific fields come from
  the Downward API environment; `apply_bootstrap` lets a file replace them too, and
  the node the gateway presents itself as is then not that of its pod.

## Proofs

Eight modules hold the proofs. `GatewayProofs` proves of the configuration path, for
every set of configurations and of probers and every bound on the channel:

* `TypeCorrectness`, `OneApplier`, `CoherentReadiness`, `UpdatesNotLost`: the
  invariants of the `gateway` run;
* `ReadyForGood`: the action property `ReadyStable`;
* `Refinement`: the property `ImplementsRegister`, by `RegisterInit` and
  `RegisterStep`.

All rest on `Invariance`, that `IndInv` holds throughout:

* `ChannelInv`: everything after the first value of the channel is valid, so the
  apply task never takes the rejecting branch (`TaskInv`: it is never at
  "unready"). This is what makes `ready` stable, and it needs both senders to
  validate before they send;
* `MainInv`: until main has applied the static file nobody else has anything to
  do: the channel still holds its first value and the task waits. This is why two
  unsynchronised calls of `apply_config` are safe;
* `TaskInv`: what the task has borrowed is at least as new as what it has marked
  as seen, which rules out lost updates in spite of `changed()` and `borrow()`
  being two steps;
* `ServedInv`, `ProbeInv`: `ready` implies that the conflicts were cleared and an
  offer is served; as `ready` never falls, a probe that read it keeps being right
  while it reads the rest.

`validate` stays unexpanded: nothing depends on which configurations are valid.
The only assumption on the constants is that the bound is a natural number.

The same module carries this over to the process: `ProcessIsGateway`, every behaviour
of `Process` is one of `Gateway`, so that all of the above holds of the process;
`StaticInForce`, the property `StaticBeforeRequests`, from `StaticInv` and from
`ready` never falling; and `ProcessTypeCorrectness`, the type invariant, for any
arguments and bootstrap file.

`ForwardProofs`: `TypeCorrect`, `NoHole`, `NoDrainedCluster`, `HealthyDestination`
and `OwnClient`, for any number of requests and all configurations that are valid
and have the shape the types of the code give them (`ConfigsAssumption`). `IndInv`
says what a call knows at each step (`RouteKnown`, `ClusterKnown`, `EndpointKnown`,
`ClientKnown`), all in terms of the configuration it cloned, so a reload cannot
disturb it; and that a cached client was built from settings with its key
(`CacheInv`). Two facts the theorems rest on are lemmas: a valid configuration has a
cluster for each destination of its routes, and the joined cache key determines what
a client is built from where no name contains the separator
(`KeyDeterminesClient`). Nothing is assumed about the names themselves.

The pickers are in the same module (`PicksUndrained`, `PicksHealthy`): for every
list of weights, every modulus and every count, `pick_cluster` returns a cluster of
positive weight unless the sum wraps to zero, and `pick_endpoint` a healthy endpoint
if there is one. The loops are recursive functions of the position; that they
satisfy their own equations, and what their values are, is shown by a least
counterexample among the naturals.

`AdsProofs`: `AdsTypeCorrect`, `ServerKnowsSubscriptions` and `ReferencesFollowed`,
for all resources, capacities and numbers of failures. `SubscriptionInSync` speaks
of the last request under way for a type; that is not inductive, because the
server may ignore it as the answer to an older push. `AgreeInv` is: from some
request on, which the server cannot ignore or has received, everything under way
carries the current names. `FollowInv` allows a type to be behind only while the
response that changed it is being handled.

`AdsMirror`, for all resources that have the shape the protobuf types give them
(`ResourcesAssumption`; names may repeat, references may dangle, messages may not
decode):

* `HeldBackOnlyIncomplete`, the property `OnlyMissingClusters`, from `ContentsInv`:
  everything in `AdsState` was converted from a resource that the server offered,
  under that resource's name, and the responses under way carry nothing else. Maps
  keyed by name rule out duplicate names, and converted routes have a destination;
  that `validate` can then only miss clusters is the lemma `OnlyClustersMissing`.
* `IdleMirrorsServer`, the property `MirrorsServer`. It speaks of moments when
  nothing is under way and is not inductive. `MirrorInv` says what holds in between,
  for each type for which no push is due and no request is under way that makes one
  due: the last response under way has exactly what the server has for the names it
  knows, and if there is none, `AdsState` has it. Together with `AgreeInv`, that
  these names are the client's, `apply_response` carries the first case into the
  second. `WantedInv` adds that no listener is stored but those asked for. The code
  puts the endpoints inside a cluster into the same map as the load assignments, so
  the later of the two is kept. The exception in `MirrorsServer` is therefore that of
  a cluster which the server has had since its endpoint resources last changed;
  `ClustersLate`, a part of `MirrorInv`, says that clusters arriving behind the last
  endpoints under way are of that time.
* `IdlePublished`, the property `IdleSynced`: with nothing under way the published
  configuration is the one that the server's resources stand for. It is limited to
  resources that are `Complete`, because the code holds back what lacks a cluster,
  never asks for clusters that are named only inside a listener (run `ads_inline`),
  and lets endpoints inside clusters contradict the endpoint resources. `PublishedInv`
  says that between two responses the configuration `AdsState` stands for is published
  unless it is invalid or the stream has brought nothing yet. `MirrorsServer` gives
  that `AdsState` and the server's resources agree under the names subscribed,
  `FollowInv` that these are the names referred to, and a chain of lemmas that two
  states which agree on these names have the same listeners and the same reachable
  clusters (`ConfigSynced`), and that a complete configuration is valid.

`AdsLemmas` has what these proofs, and those about routing, need to know of the
conversions: ranks and sorted sequences without repetition, concatenations and their
order, what insertion and pruning leave under a name, where the parts of a
configuration come from, and that a response for the names subscribed leaves each of
them as if everything the server has had been inserted into an empty `AdsState`.

`RoutingProofs`: `RoutedAsConfigured`, the property `RoutesAsConfigured`, for all
listeners, route configurations and requests whose fields have the types of the
protobuf messages and of an HTTP request (`TablesAssumption`, `RequestsAssumption`;
again names may repeat, references may dangle, routes may be dropped). The two sides
share only `eq_ignore_ascii_case`. The argument goes up from texts to the
configuration:

* texts: `starts_with`, the stripped wildcard and the host without its port say what
  the declarative reading says (`StartsWith`, `HostMatches`, `HostAsked`);
* a route converts to one that accepts the same requests and has the same
  destinations, or is dropped, and is then one that the wire reading leaves out too
  (`RouteConverted`, `MatchConverted`, `RouteTaken`);
* `flatten`, `filter_map` and the sorted maps keep the order: each converted virtual
  host, and each route in it, has a place on the wire, and the places increase with
  the positions (`FlattenJoins`, `PlaceOf`, `HostsPlaced`, `SourcesPlaced`);
* the map of a response holds the resources in force (`TableReceived`), and the first
  listener on the port in the configuration is the one the wire reading picks
  (`ListenerTaking`);
* `route_for` takes the first position that matches; order and matching carry over, so
  it is the first candidate on the wire (`FirstFound`, `RouteFor`).

`ClientPoolProofs`: `PoolTypeCorrect`, `SharedClients`, `FailuresHaveCause`,
`BuiltFromOwnFiles`, and `PoolRefinement`, the property `ImplementsCache`, for any
callers, keys, providers and replacements. `LockInv`: whoever is past the lock
holds it alone and builds only for a key without a client. `ReadInv`: what has been
read is still in the file if nothing the call needs has been replaced, and a file
being searched for an RSA key has no PKCS8 key.

`EndToEndProofs`, for all resources, static files, capacities and failures:

* `EndToEndTypeCorrect`: client and process agree on the value of the channel, and
  it is the bootstrap configuration, one of the static file, or one of
  `ClientConfigs`;
* `ReceiverFound`, the property `PublishFindsReceiver`;
* `ImplementsGateway`: the composition implements `Gateway` with `ClientConfigs` for
  `XdsConfigs`, so the assumption that `Gateway` makes about its source is met;
* `PathCorrect`, `ClientCorrect`: hence the invariants and the action property of
  the configuration path hold of it, and those of the client do as well, although
  main also writes to the channel;
* `RestServes`, the property `ServedAtRest`: with nothing under way between server,
  client and apply task, the configuration in force is the one the server's (complete)
  resources stand for. It joins `IdleSynced` to `ServedInv`: the value the client last
  published is the last of the channel, and a task that has seen it has applied it.

They rest on `WholeInv`: the invariants of the client (`TypeInv`, `AgreeInv`,
`FollowInv`, `ContentsInv`, `MirrorInv`, `WantedInv`, `PublishedInv`, and `StoredInv`:
the maps of `AdsState` and the versions under way are those `ClientConfigs` is made
of), `IndInv` of the gateway, and `Coupled`: the two modules' channels have the same value, and the
client is where `xds` says it is. A step of the client is a step of `Gateway` or
leaves it alone, and the other way round. The fairness of the specifications plays
no part: the theorems are about `EndToEndSafety`.

Only model-checked is liveness, which needs reasoning about `ENABLED` and fairness:
`EventuallyServed`, `BothServersOrNone`, `EveryCallReturns`, `Converges`,
`ServesControlPlane`. The safety half of the last two, that what is at rest is right, is
proved (`IdlePublished`, `RestServes`); that rest is reached is checked by TLC. The
properties of the violated runs are of course not proved either. Every invariant and
action property of a passing run is proved for all values of the constants.

## Not modelled

* Parsing of JSON, YAML, PEM, arguments, URIs, HTTP and protobuf: a parse is an
  input that succeeds with some value or fails. What the code itself takes out of
  names (a listener's port, a cluster's authority) is a field.
* The certificate verifier, `SpiffeCompatibleVerifier`: it delegates to webpki's
  cryptography and inspects its error values.
* `/healthz` and the debug endpoints, which format a clone of the configuration.
* Error and matcher types and generated protobuf code, which have no behaviour.
* Refresh of mTLS clients when certificate files rotate: the code has none. A key
  keeps its first client until the process ends, which `ImplementsCache` shows, and
  no text of the repository promises otherwise.

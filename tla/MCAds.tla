-------------------------------- MODULE MCAds --------------------------------
(***************************************************************************)
(* Instance of AdsClient: a complete set of resources, then one with a     *)
(* listener that does not decode, then one in which a listener, routes and *)
(* clusters were deleted, added and renamed, then one without listeners.   *)
(* Listeners are 1 and 2, routes 3 and 4, clusters 5, 6 and 9, endpoint    *)
(* services 7 and 9.  Cluster 9 is last referred to by route 3, which is   *)
(* deleted; from then on it carries endpoints that contradict those of its *)
(* service.                                                                *)
(***************************************************************************)
EXTENDS AdsClient

At(port) == Some([address |-> 1, port |-> Some(port)])

Manager(specifier, name, hosts) ==
  [decodes |-> TRUE, specifier |-> specifier, route_config_name |-> name, virtual_hosts |-> hosts]
Rds(name) == Manager("rds", name, <<>>)
Inline(routes) == Manager("inline", EmptyName, <<[domains |-> <<<<"*">>>>, routes |-> routes]>>)

MCListener(name, address, managers) ==
  [decodes |-> TRUE, name |-> name, address |-> address, port_in_name |-> None,
   managers |-> managers]

MCRoute(specifier, clusters, match) ==
  [action |-> "route", specifier |-> specifier, clusters |-> clusters, match |-> match]
To(name) == MCRoute("cluster", <<[name |-> name, weight |-> None]>>, None)
Regex == [type |-> "safe_regex", value |-> <<"/">>]

MCRoutes(name, routes) ==
  [decodes |-> TRUE, name |-> name,
   virtual_hosts |-> <<[domains |-> <<<<"a">>>>, routes |-> routes]>>]

MCCluster(name, service_name, assignment, socket) ==
  [decodes |-> TRUE, name |-> name, authority |-> Some(<<"a">>), service_name |-> service_name,
   assignment |-> assignment, socket |-> socket]

MCSocket(decodes) ==
  Some([upstream_tls |-> TRUE, decodes |-> decodes, sni |-> None, certificate_provider |-> None,
        validation_provider |-> None, alpn_protocols |-> <<>>])

MCEndpoints(name, lb_endpoints) == [decodes |-> TRUE, name |-> name, lb_endpoints |-> lb_endpoints]
Lb(address, port, health) ==
  [address |-> Some([address |-> address, port |-> port]), health |-> health]

\* Both the endpoints of service 7 and, at first, those inside cluster 5.
MCService ==
  <<Lb(2, Some(80), "healthy"), Lb(1, None, "healthy"), Lb(1, Some(81), "draining"),
    Lb(1, Some(80), "unknown")>>

MCFirst ==
  [version |-> "1", extra |-> FALSE, resources |->
    [listener |-> <<MCListener(1, At(80), <<Rds(3)>>), MCListener(2, None, <<>>)>>,
     route |-> <<MCRoutes(3, <<To(EmptyName), To(5), To(9)>>)>>,
     cluster |-> <<MCCluster(5, 7, Some(MCEndpoints(5, MCService)), MCSocket(FALSE)),
                   MCCluster(9, EmptyName, None, None)>>,
     endpoint |-> <<MCEndpoints(7, MCService), MCEndpoints(9, <<Lb(1, Some(80), "healthy")>>)>>]]

\* Listener 2 does not decode.
MCBroken ==
  [MCFirst EXCEPT !.version = "2", !.resources.listener =
     <<MCListener(1, None, <<Rds(3), Rds(4)>>),
       MCListener(2, At(70000), <<[Rds(4) EXCEPT !.decodes = FALSE]>>)>>]

MCSecond ==
  [version |-> "", extra |-> FALSE, resources |->
    [listener |-> <<MCListener(1, At(443), <<Rds(4), Inline(<<To(5)>>), Rds(EmptyName)>>)>>,
     route |-> <<MCRoutes(4, <<MCRoute("weighted", <<[name |-> 6, weight |-> None],
                                                     [name |-> 5, weight |-> Some(3)]>>, None),
                               MCRoute("cluster", <<[name |-> 8, weight |-> None]>>,
                                       Some([path |-> Some(Regex), headers |-> <<>>])),
                               [To(8) EXCEPT !.action = "non_forwarding"]>>)>>,
     cluster |-> <<MCCluster(5, 7, None, None), MCCluster(6, 7, None, MCSocket(TRUE)),
                   MCCluster(9, EmptyName, Some(MCEndpoints(9, <<Lb(2, Some(80), "healthy")>>)), None)>>,
     endpoint |-> <<MCEndpoints(7, <<Lb(1, Some(80), "timeout"), Lb(2, Some(80), "unhealthy")>>),
                    MCEndpoints(9, <<Lb(1, Some(80), "healthy")>>)>>]]

\* No listener is left to refer to the routes subscribed.
MCWithdrawn ==
  [MCSecond EXCEPT !.version = "3", !.extra = TRUE, !.resources.listener = <<>>]

MCWorlds == <<MCFirst, MCBroken, MCSecond, MCWithdrawn>>

\* For liveness: at first an endpoint resource does not decode, so that every
\* stream ends when it is pushed.
MCLiveWorlds ==
  <<[MCFirst EXCEPT !.resources.endpoint = <<[@[1] EXCEPT !.decodes = FALSE]>>],
    MCSecond>>

\* A listener with its routes inside it.
MCInlineWorlds ==
  <<[MCSecond EXCEPT !.resources.listener = <<MCListener(1, At(80), <<Inline(<<To(5)>>)>>)>>]>>

==============================================================================

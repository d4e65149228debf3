----------------------------- MODULE MCEndToEnd ------------------------------
(***************************************************************************)
(* Instance of EndToEnd: a control plane that has nothing at first, then   *)
(* one listener, route, cluster and endpoint service; a static file with a *)
(* listener of its own, or none (run gateway has files that are not valid).*)
(***************************************************************************)
EXTENDS EndToEnd

MCListener ==
  [decodes |-> TRUE, name |-> 1, address |-> Some([address |-> 1, port |-> Some(80)]),
   port_in_name |-> None,
   managers |-> <<[decodes |-> TRUE, specifier |-> "rds", route_config_name |-> 3,
                   virtual_hosts |-> <<>>]>>]

MCRoutes ==
  [decodes |-> TRUE, name |-> 3,
   virtual_hosts |-> <<[domains |-> <<<<"a">>>>,
                        routes |-> <<[action |-> "route", specifier |-> "cluster",
                                      clusters |-> <<[name |-> 5, weight |-> None]>>,
                                      match |-> None]>>]>>]

MCCluster ==
  [decodes |-> TRUE, name |-> 5, authority |-> None, service_name |-> 7,
   assignment |-> None, socket |-> None]

MCEndpoints ==
  [decodes |-> TRUE, name |-> 7,
   lb_endpoints |-> <<[address |-> Some([address |-> 2, port |-> Some(80)]),
                       health |-> "healthy"]>>]

MCNothing == [version |-> "1", extra |-> TRUE, resources |-> [t \in TypeUrls |-> <<>>]]

MCComplete ==
  [version |-> "2", extra |-> FALSE, resources |->
    [listener |-> <<MCListener>>, route |-> <<MCRoutes>>, cluster |-> <<MCCluster>>,
     endpoint |-> <<MCEndpoints>>]]

MCWorlds == <<MCNothing, MCComplete>>

MCStaticConfigs ==
  {[version |-> "file", clusters |-> <<>>, listeners |->
      <<[name |-> 2, bind |-> [ip |-> "unspecified", port |-> 80], protocol |-> "http",
         tls_secret |-> None, virtual_hosts |-> <<>>]>>]}

==============================================================================

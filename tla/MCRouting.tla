----------------------------- MODULE MCRouting ------------------------------
(***************************************************************************)
(* Instance of Routing: a listener on another port, the one in force with  *)
(* virtual hosts of its own and of a route resource, and one behind it on  *)
(* the same port; older resources of the same names; a route resource      *)
(* without a name.  Every route goes to clusters of its own.               *)
(***************************************************************************)
EXTENDS Routing

MCPath(type, value) == Some([type |-> type, value |-> value])
MCHeader(type) == [type |-> type, name |-> <<"A">>, value |-> <<"b">>]
MCTo(match, name) ==
  [action |-> "route", specifier |-> "weighted",
   clusters |-> <<[name |-> EmptyName, weight |-> None], [name |-> name, weight |-> Some(2)]>>,
   match |-> match]
MCMatch(path, headers) == Some([path |-> path, headers |-> headers])

MCRoutes(name) ==
  {MCTo(None, name),
   MCTo(MCMatch(None, <<>>), name),
   MCTo(MCMatch(MCPath("prefix", <<"/", "a">>), <<>>), name),
   MCTo(MCMatch(MCPath("exact", <<"/", "a">>), <<MCHeader("none")>>), name),
   MCTo(MCMatch(MCPath("safe_regex", <<"/">>), <<>>), name),
   MCTo(MCMatch(None, <<MCHeader("exact")>>), name),
   MCTo(MCMatch(MCPath("prefix", <<"/">>), <<MCHeader("safe_regex")>>), name),
   [MCTo(None, name) EXCEPT !.action = "non_forwarding"],
   [MCTo(None, name) EXCEPT !.clusters = <<>>]}

MCCatchAll(name) == <<[domains |-> <<<<"*">>>>, routes |-> <<MCTo(None, name)>>]>>

MCDomains == {<<<<"*">>>>, <<<<"*", ".", "b">>>>, <<<<"a", ".", "B">>, <<"a">>>>}

MCListener(name, port, managers) ==
  [decodes |-> TRUE, name |-> name, address |-> Some([address |-> 0, port |-> Some(port)]),
   port_in_name |-> None, managers |-> managers]
MCInline(vhosts) ==
  [decodes |-> TRUE, specifier |-> "inline", route_config_name |-> EmptyName, virtual_hosts |-> vhosts]
MCRds(name) ==
  [decodes |-> TRUE, specifier |-> "rds", route_config_name |-> name, virtual_hosts |-> <<>>]

MCDiscovered(name, vhosts) == [decodes |-> TRUE, name |-> name, virtual_hosts |-> vhosts]

MCTable(inline, discovered) ==
  [listeners |-> <<MCListener(3, 80, <<MCInline(MCCatchAll(93))>>),
                   MCListener(1, 8080, <<MCInline(MCCatchAll(91))>>),
                   MCListener(2, 80, <<MCInline(MCCatchAll(92))>>),
                   MCListener(2, 80, <<MCRds(7), MCRds(EmptyName), MCInline(inline)>>)>>,
   routes |-> <<MCDiscovered(7, MCCatchAll(97)), MCDiscovered(7, discovered),
                MCDiscovered(8, MCCatchAll(98)), MCDiscovered(EmptyName, MCCatchAll(90))>>]

MCTables ==
  {MCTable(<<[domains |-> d, routes |-> <<r, s>>]>>, <<[domains |-> e, routes |-> <<t>>]>>) :
     d \in MCDomains, e \in MCDomains, r \in MCRoutes(11), s \in MCRoutes(12), t \in {MCTo(None, 13), MCTo(MCMatch(MCPath("exact", <<"/">>), <<>>), 13)}}

MCHosts == {None, Some(<<"a", ".", "b">>), Some(<<"A", ".", "b", ":", "8">>), Some(<<"a", "b">>), Some(<<"a", ":">>), Some(<<":">>)}

MCRequests ==
  [host : MCHosts, path_and_query : {<<"/">>, <<"/", "a">>, <<"/", "a", "?">>},
   headers : {{}, {[name |-> <<"a">>, value |-> Some(<<"b">>)]},
              {[name |-> <<"a">>, value |-> None], [name |-> <<"a">>, value |-> Some(<<"c">>)]}}]

==============================================================================

---------------------------- MODULE RoutingProofs ----------------------------
(***************************************************************************)
(* Theorems of module Routing: whatever resources the control plane sends  *)
(* and whatever the request, the route taken is the first one on the wire  *)
(* that can have it.                                                       *)
(***************************************************************************)
EXTENDS Routing, AdsLemmas

-----------------------------------------------------------------------------
(* Texts                                                                   *)

\* A part of a text.
LEMMA PartOf ==
  ASSUME NEW S, NEW s \in Seq(S), NEW m \in 1..(Len(s) + 1), NEW n \in (m - 1)..Len(s)
  PROVE  /\ SubSeq(s, m, n) \in Seq(S)
         /\ Len(SubSeq(s, m, n)) = n - m + 1 /\ DOMAIN SubSeq(s, m, n) = 1..(n - m + 1)
         /\ \A i \in 1..(n - m + 1) : SubSeq(s, m, n)[i] = s[m + i - 1]
OBVIOUS

\* Texts with the same characters are the same.
LEMMA SameText ==
  ASSUME NEW S, NEW T, NEW s \in Seq(S), NEW t \in Seq(T), Len(s) = Len(t),
         \A i \in 1..Len(s) : s[i] = t[i]
  PROVE  s = t
OBVIOUS

\* str::starts_with looks at the first characters.
LEMMA StartsWith ==
  ASSUME NEW text, Vector(text), NEW prefix, Vector(prefix)
  PROVE  starts_with(text, prefix) <=> Begins(text, prefix)
<1> DEFINE m == Len(text)
           n == Len(prefix)
<1>1. m \in Nat /\ DOMAIN text = 1..m /\ n \in Nat /\ DOMAIN prefix = 1..n
  BY DEF Vector
<1>2. CASE n <= m
  <2> DEFINE start == SubSeq(text, 1, n)
  <2>1. /\ start \in Seq(Range(text)) /\ Len(start) = n
        /\ \A i \in 1..n : start[i] = text[i]
    <3>1. 1 \in 1..(m + 1) /\ n \in (1 - 1)..m /\ n - 1 + 1 = n
      BY <1>1, <1>2
    <3>2. /\ start \in Seq(Range(text)) /\ Len(start) = n - 1 + 1
          /\ \A i \in 1..(n - 1 + 1) : start[i] = text[1 + i - 1]
      BY <3>1, PartOf DEF Vector
    <3>3. \A i \in 1..n : 1 + i - 1 = i
      BY <1>1
    <3> QED  BY <3>1, <3>2, <3>3
  <2>2. start = prefix <=> \A i \in 1..n : text[i] = prefix[i]
    <3> HIDE DEF start, m, n
    <3>1. ASSUME \A i \in 1..n : text[i] = prefix[i] PROVE start = prefix
      BY <2>1, <3>1, SameText DEF Vector, n
    <3> QED  BY <2>1, <3>1
  <2>3. \A i \in 1..n : i \in 1..m
    BY <1>1, <1>2
  <2> QED  BY <1>1, <1>2, <2>2, <2>3 DEF starts_with, Begins
<1>3. CASE ~ (n <= m)
  <2>1. n \in DOMAIN prefix /\ n \notin DOMAIN text
    BY <1>1, <1>3
  <2> QED  BY <1>3, <2>1 DEF starts_with, Begins
<1> QED  BY <1>2, <1>3

\* A domain that starts with an asterisk and a dot goes on with an end of the host.
LEMMA Wildcard ==
  ASSUME NEW domain, Vector(domain), NEW host, NEW S, host \in Seq(S)
  PROVE  (starts_with(domain, <<"*", ".">>) /\ ends_with(host, SubSeq(domain, 3, Len(domain)))) <=>
         \E k \in 1..(Len(host) + 1) : domain = <<"*", ".">> \o SubSeq(host, k, Len(host))
<1> DEFINE n == Len(domain)
           m == Len(host)
           dot == <<"*", ".">>
           rest == SubSeq(domain, 3, n)
<1>1. n \in Nat /\ m \in Nat /\ domain \in Seq(Range(domain)) /\ dot \in Seq({"*", "."})
      /\ Len(dot) = 2 /\ dot[1] = "*" /\ dot[2] = "."
  BY DEF Vector
<1> HIDE DEF n, m
<1>2. ASSUME starts_with(domain, dot), ends_with(host, rest)
      PROVE  \E k \in 1..(m + 1) : domain = dot \o SubSeq(host, k, m)
  <2>1. Len(dot) = 2 /\ n >= 2 /\ domain[1] = dot[1] /\ domain[2] = dot[2]
    <3>1. Vector(dot)
      BY DEF Vector, Range
    <3>2. Begins(domain, dot)
      BY <1>2, <3>1, StartsWith
    <3>3. DOMAIN dot = 1..2 /\ DOMAIN domain = 1..n
      BY <1>1 DEF n
    <3>4. 1 \in 1..2 /\ 2 \in 1..2
      OBVIOUS
    <3>5. 2 \in 1..n /\ domain[1] = dot[1] /\ domain[2] = dot[2]
      BY <3>2, <3>3, <3>4 DEF Begins
    <3> QED  BY <1>1, <3>5
  <2>2. /\ rest \in Seq(Range(domain)) /\ Len(rest) = n - 2
        /\ \A i \in 1..(n - 2) : rest[i] = domain[i + 2]
    <3>1. 3 \in 1..(n + 1) /\ n \in (3 - 1)..n /\ n - 3 + 1 = n - 2 /\ \A i \in 1..(n - 2) : 3 + i - 1 = i + 2
      BY <1>1, <2>1
    <3> QED  BY <1>1, <3>1, PartOf DEF n
  <2> DEFINE k == m - (n - 2) + 1
             end == SubSeq(host, k, m)
  <2>3. n - 2 <= m /\ end = rest
    BY <1>2, <2>2 DEF ends_with, m
  <2>4. k \in 1..(m + 1)
    BY <1>1, <2>1, <2>3
  <2> DEFINE whole == dot \o rest
  <2>5. /\ whole \in Seq({"*", "."} \cup Range(domain)) /\ Len(whole) = n
        /\ whole[1] = dot[1] /\ whole[2] = dot[2]
        /\ \A i \in 1..(n - 2) : whole[2 + i] = rest[i]
    <3> DEFINE T == {"*", "."} \cup Range(domain)
    <3>1. dot \in Seq(T) /\ rest \in Seq(T)
      BY <1>1, <2>2
    <3> HIDE DEF T, dot, rest
    <3>2. /\ Len(whole) = Len(dot) + Len(rest) /\ whole \in Seq(T)
          /\ \A i \in 1..Len(dot) : whole[i] = dot[i]
          /\ \A i \in 1..Len(rest) : whole[Len(dot) + i] = rest[i]
      BY <3>1, Concatenation
    <3>3. 1 \in 1..2 /\ 2 \in 1..2 /\ 2 + (n - 2) = n
      BY <1>1
    <3> QED  BY <1>1, <2>2, <3>2, <3>3 DEF T
  <2>6. ASSUME NEW i \in 1..n PROVE whole[i] = domain[i]
    <3>1. CASE i = 1 \/ i = 2
      BY <2>1, <2>5, <3>1
    <3>2. CASE ~ (i = 1 \/ i = 2)
      <4>1. i - 2 \in 1..(n - 2) /\ 2 + (i - 2) = i /\ (i - 2) + 2 = i
        BY <1>1, <3>2
      <4> QED  BY <2>2, <2>5, <4>1
    <3> QED  BY <3>1, <3>2, Zenon
  <2> HIDE DEF whole, k, end, rest
  <2>7. whole = domain
    BY <1>1, <2>5, <2>6, SameText DEF n
  <2> QED  BY <2>3, <2>4, <2>7, Zenon DEF whole, end
<1>3. ASSUME NEW k \in 1..(m + 1), domain = dot \o SubSeq(host, k, m)
      PROVE  starts_with(domain, dot) /\ ends_with(host, rest)
  <2> DEFINE end == SubSeq(host, k, m)
             T == {"*", "."} \cup S
             z == m - k + 1
  <2>1. /\ end \in Seq(S) /\ Len(end) = z /\ z \in Nat
        /\ \A i \in 1..z : end[i] = host[k + i - 1]
    <3>1. m \in (k - 1)..m /\ z \in Nat
      BY <1>1
    <3> QED  BY <3>1, PartOf DEF m
  <2>2. end \in Seq(T) /\ dot \in Seq(T)
    BY <1>1, <2>1
  <2> HIDE DEF T, end, dot, z
  <2>3. /\ n = 2 + z /\ \A i \in 1..2 : domain[i] = dot[i]
        /\ \A i \in 1..z : domain[2 + i] = end[i]
    <3>1. domain = dot \o end
      BY <1>3 DEF end
    <3>2. /\ Len(dot \o end) = Len(dot) + Len(end)
          /\ \A i \in 1..Len(dot) : (dot \o end)[i] = dot[i]
          /\ \A i \in 1..Len(end) : (dot \o end)[Len(dot) + i] = end[i]
      BY <2>2, Concatenation
    <3> QED  BY <1>1, <2>1, <3>1, <3>2 DEF n
  <2>4. starts_with(domain, dot)
    <3>1. Vector(dot)
      BY <1>1 DEF Vector, Range, dot
    <3>2. DOMAIN dot = 1..2 /\ DOMAIN domain = 1..n
      BY <1>1 DEF n, dot
    <3>3. \A i \in 1..2 : i \in 1..n
      BY <1>1, <2>1, <2>3
    <3>4. Begins(domain, dot)
      BY <2>3, <3>2, <3>3 DEF Begins
    <3> QED  BY <3>1, <3>4, StartsWith
  <2>5. /\ rest \in Seq(Range(domain)) /\ Len(rest) = z
        /\ \A i \in 1..z : rest[i] = domain[2 + i]
    <3>1. 3 \in 1..(n + 1) /\ n \in (3 - 1)..n /\ n - 3 + 1 = z /\ \A i \in 1..z : 3 + i - 1 = 2 + i
      BY <1>1, <2>1, <2>3
    <3> QED  BY <1>1, <3>1, PartOf DEF n
  <2> HIDE DEF rest
  <2>6. rest = end
    BY <2>1, <2>3, <2>5, SameText, Zenon
  <2>7. m - z + 1 = k /\ z <= m
    BY <1>1, <2>1 DEF z
  <2> QED  BY <2>4, <2>5, <2>6, <2>7 DEF ends_with, end, m
<1> QED  BY <1>2, <1>3, Zenon DEF n, m

\* forward asks for the host before the first colon.
LEMMA HostAsked ==
  ASSUME request \in Requests
  PROVE  MatchInput(request).host = WireHost /\ \E S : WireHost \in Seq(S)
<1> DEFINE full == request.host[1]
           n == Len(full)
           C == {i \in DOMAIN full : full[i] = ":"}
           colon == First(C)
<1>1. CASE request.host = None
  <2>1. WireHost = <<"*">> /\ MatchInput(request).host = <<"*">>
    BY <1>1 DEF WireHost, MatchInput, host_header, unwrap_or, None
  <2>2. <<"*">> \in Seq({"*"})
    OBVIOUS
  <2>3. \E S : <<"*">> \in Seq(S)
    BY <2>2, Zenon
  <2> QED  BY <2>1, <2>3
<1>2. CASE request.host # None
  <2>1. full \in Seq(Range(full)) /\ n \in Nat /\ DOMAIN full = 1..n
    BY <1>2, RequestsAssumption DEF Vector
  <2> DEFINE Part(k) == SubSeq(full, 1, k)
             Is(text) == /\ \A i \in DOMAIN text : text[i] # ":"
                         /\ text = full \/ full[Len(text) + 1] = ":"
             host == IF colon = 0 THEN full ELSE Part(colon - 1)
  <2>2. WireHost = CHOOSE text \in {Part(k) : k \in 0..n} : Is(text)
    BY <1>2, Zenon DEF WireHost
  <2>3. MatchInput(request).host = host
    <3>1. host_header(request) = Some(host)
      BY <1>2 DEF host_header
    <3> HIDE DEF host
    <3> QED  BY <3>1 DEF MatchInput, unwrap_or, Some, None
  <2>4. ASSUME NEW k \in 0..n
        PROVE  /\ Part(k) \in Seq(Range(full)) /\ Len(Part(k)) = k /\ DOMAIN Part(k) = 1..k
               /\ \A i \in 1..k : Part(k)[i] = full[i]
    <3>1. 1 \in 1..(n + 1) /\ k \in (1 - 1)..n /\ k - 1 + 1 = k /\ \A i \in 1..k : 1 + i - 1 = i
      BY <2>1
    <3> QED  BY <2>1, <3>1, PartOf
  <2>5. Part(n) = full
    <3>1. n \in 0..n
      BY <2>1
    <3> HIDE DEF Part, full
    <3> QED  BY <2>1, <2>4, <3>1, SameText
  <2>6. \E z \in 0..n : /\ host = Part(z) /\ \A i \in 1..z : i \notin C
                        /\ z = n \/ z + 1 \in C
    <3>1. CASE C = {}
      <4>1. host = full
        BY <3>1 DEF First
      <4>2. n \in 0..n
        BY <2>1
      <4> HIDE DEF C, Part, host
      <4> QED  BY <2>5, <3>1, <4>1, <4>2
    <3>2. CASE C # {}
      <4>1. PICK c \in C : \A i \in C : c <= i
        <5>1. C \subseteq Nat
          BY <2>1
        <5> HIDE DEF C
        <5> QED  BY <3>2, <5>1, Least, Zenon
      <4>2. colon \in C /\ \A i \in C : colon <= i
        <5> HIDE DEF C
        <5> QED  BY <3>2, <4>1 DEF First, Min
      <4>3. colon \in 1..n
        BY <2>1, <4>2
      <4> HIDE DEF C, colon
      <4>4. colon - 1 \in 0..n /\ (colon - 1) + 1 = colon /\ host = Part(colon - 1)
        BY <2>1, <4>3
      <4>5. \A i \in 1..(colon - 1) : i \notin C
        BY <2>1, <4>2, <4>3
      <4> HIDE DEF host, Part
      <4> QED  BY <4>2, <4>4, <4>5
    <3> QED  BY <3>1, <3>2, Zenon
  <2>7. PICK z \in 0..n : host = Part(z) /\ (\A i \in 1..z : i \notin C) /\ (z = n \/ z + 1 \in C)
    BY <2>6, Zenon
  <2>8. ASSUME NEW k \in 0..n PROVE Is(Part(k)) <=> (\A i \in 1..k : i \notin C) /\ (k = n \/ k + 1 \in C)
    <3>1. \A i \in 1..k : i \in 1..n
      BY <2>1
    <3>2. (\A i \in DOMAIN Part(k) : Part(k)[i] # ":") <=> \A i \in 1..k : i \notin C
      <4> HIDE DEF Part, full
      <4> QED  BY <2>1, <2>4, <3>1, Zenon
    <3>3. Part(k) = full <=> k = n
      <4> HIDE DEF Part, full
      <4> QED  BY <2>4, <2>5 DEF n
    <3>4. k # n => (full[Len(Part(k)) + 1] = ":" <=> k + 1 \in C)
      <4>1. k # n => k + 1 \in 1..n
        BY <2>1
      <4> HIDE DEF Part, full
      <4> QED  BY <2>1, <2>4, <4>1, Zenon
    <3> HIDE DEF Part, full, C, n
    <3> QED  BY <3>2, <3>3, <3>4
  <2>9. ASSUME NEW k \in 0..n, Is(Part(k)) PROVE k = z
    <3>1. (\A i \in 1..k : i \notin C) /\ (k = n \/ k + 1 \in C)
      BY <2>8, <2>9
    <3> HIDE DEF Part, full, C, n, Is
    <3>2. ~ (k < z)
      <4>1. k < z => k + 1 \in 1..z /\ k # n
        BY <2>1
      <4> QED  BY <2>7, <3>1, <4>1
    <3>3. ~ (z < k)
      <4>1. z < k => z + 1 \in 1..k /\ z # n
        BY <2>1
      <4> QED  BY <2>7, <3>1, <4>1
    <3> QED  BY <2>1, <3>2, <3>3
  <2>10. Is(Part(z))
    BY <2>7, <2>8
  <2> HIDE DEF Part, Is, host, n, full
  <2>11. WireHost = Part(z)
    BY <2>2, <2>9, <2>10
  <2>12. Part(z) \in Seq(Range(full))
    BY <2>4
  <2> QED  BY <2>3, <2>7, <2>11, <2>12
<1> QED  BY <1>1, <1>2

\* VirtualHost::matches_host on what it is asked is what the domains say.
LEMMA HostMatches ==
  ASSUME request \in Requests, NEW vh, HostFields(vh), NEW c, c.domains = vh.domains
  PROVE  matches_host(c, MatchInput(request).host) <=> Hosts(vh)
<1> DEFINE host == WireHost
<1>1. MatchInput(request).host = host /\ \E S : host \in Seq(S)
  BY HostAsked
<1> HIDE DEF host
<1>2. PICK S : host \in Seq(S)
  BY <1>1
<1>3. ASSUME NEW i \in DOMAIN vh.domains
      PROVE  LET domain == vh.domains[i] IN
               (starts_with(domain, <<"*", ".">>) /\ ends_with(host, SubSeq(domain, 3, Len(domain)))) <=>
               \E k \in 1..(Len(host) + 1) : domain = <<"*", ".">> \o SubSeq(host, k, Len(host))
  <2>1. Vector(vh.domains[i])
    BY DEF HostFields
  <2> QED  BY <1>2, <2>1, Wildcard, Zenon
<1>4. Hosts(vh) <=> \E i \in DOMAIN vh.domains :
                      \/ vh.domains[i] = <<"*">>
                      \/ eq_ignore_ascii_case(vh.domains[i], host)
                      \/ \E k \in 1..(Len(host) + 1) :
                           vh.domains[i] = <<"*", ".">> \o SubSeq(host, k, Len(host))
  BY DEF Hosts, host
<1>5. matches_host(c, host) <=> \E i \in DOMAIN vh.domains :
        \/ vh.domains[i] = <<"*">>
        \/ eq_ignore_ascii_case(vh.domains[i], host)
        \/ starts_with(vh.domains[i], <<"*", ".">>) /\ ends_with(host, SubSeq(vh.domains[i], 3, Len(vh.domains[i])))
  BY DEF matches_host
<1> QED  BY <1>1, <1>3, <1>4, <1>5, Zenon

-----------------------------------------------------------------------------
(* Routes                                                                  *)

NamedClusters(route) == {i \in DOMAIN route.clusters : route.clusters[i].name # EmptyName}

\* The destinations of a route are its clusters with a name.
LEMMA RouteDestinations ==
  ASSUME NEW route, Vector(route.clusters)
  PROVE  /\ Destinations(route) # <<>> <=> Forwards(route)
         /\ Forwards(route) => Names(Destinations(route), route.clusters)
<1> DEFINE K == NamedClusters(route)
           cs == route.clusters
           q == InOrder(cs, K)
           ws == Destinations(route)
           N == Cardinality(K)
<1>1. cs \in Seq(Range(cs)) /\ K \subseteq DOMAIN cs /\ DOMAIN cs = 1..Len(cs) /\ Len(cs) \in Nat
  BY DEF Vector, NamedClusters
<1>2. K \subseteq Nat /\ IsFiniteSet(K)
  <2>1. IsFiniteSet(1..Len(cs))
    BY <1>1, FS_Interval
  <2> HIDE DEF K
  <2> QED  BY <1>1, <2>1, FS_Subset
<1>3. /\ N \in Nat /\ DOMAIN sorted_unique(K) = 1..N
      /\ N = 0 <=> K = {}
  <2> HIDE DEF K
  <2> QED  BY <1>2, SortedFacts, FS_EmptySet, Zenon
<1>4. DOMAIN q = 1..N /\ \A i \in 1..N : q[i] = cs[sorted_unique(K)[i]]
  <2> HIDE DEF K, cs
  <2> QED  BY <1>1, <1>3, InOrderFacts
<1>5. Forwards(route) <=> route.action = "route" /\ route.specifier \in {"cluster", "weighted"} /\ K # {}
  BY DEF Forwards, NamedClusters
<1>6. CASE route.action = "route" /\ route.specifier \in {"cluster", "weighted"}
  <2> DEFINE one(i) == [name |-> q[i].name, weight |-> SingleWeight]
             many(i) == [name |-> q[i].name, weight |-> unwrap_or(q[i].weight, DefaultWeight)]
  <2>5. \/ ws = [i \in DOMAIN q |-> one(i)] \/ ws = [i \in DOMAIN q |-> many(i)]
    BY <1>6 DEF Destinations, convert_route_action, NamedClusters
  <2>6. \A i : one(i).name = q[i].name /\ many(i).name = q[i].name
    OBVIOUS
  <2> HIDE DEF one, many
  <2>1. DOMAIN ws = 1..N /\ \A i \in 1..N : ws[i].name = q[i].name
    <3> HIDE DEF q, N, ws
    <3>1. DOMAIN ws = DOMAIN q /\ \A i \in DOMAIN q : ws[i] = one(i) \/ ws[i] = many(i)
      BY <2>5
    <3> QED  BY <1>4, <2>6, <3>1
  <2>2. ws = <<>> <=> N = 0
    <3> HIDE DEF q, N, ws
    <3>1. ws = [i \in 1..N |-> ws[i]]
      BY <1>4, <2>5, Zenon
    <3>2. ws \in Seq(Range(ws)) /\ Len(ws) = N
      BY <1>3, <2>1, <3>1 DEF Range
    <3> QED  BY <1>3, <3>2
  <2>3. ASSUME NEW i \in K PROVE ws[Cardinality({j \in K : j <= i})].name = cs[i].name
    <3>1. Rank(K, i) \in 1..N /\ sorted_unique(K)[Rank(K, i)] = i
      <4> HIDE DEF K
      <4> QED  BY <1>2, SortedRank, ZenonT(20)
    <3> HIDE DEF q, N, ws, K, cs
    <3>2. ws[Rank(K, i)].name = q[Rank(K, i)].name /\ q[Rank(K, i)] = cs[i]
      BY <1>4, <2>1, <3>1
    <3> QED  BY <3>2 DEF Rank
  <2>4. Names(ws, cs)
    BY <2>1, <2>3 DEF Names, NamedClusters
  <2> HIDE DEF K, ws, N, cs
  <2> QED  BY <1>3, <1>5, <1>6, <2>2, <2>4 DEF ws, cs
<1>7. CASE ~ (route.action = "route" /\ route.specifier \in {"cluster", "weighted"})
  BY <1>5, <1>7 DEF Destinations, convert_route_action
<1> QED  BY <1>6, <1>7

\* A match the gateway can evaluate.
Evaluable(route) ==
  route.match # None =>
    /\ route.match[1].path = None \/ route.match[1].path[1].type # "safe_regex"
    /\ \A i \in DOMAIN route.match[1].headers : route.match[1].headers[i].type # "safe_regex"

\* A route that converts keeps its match, if it has one, and its destinations.
LEMMA RouteConverted ==
  ASSUME NEW route, Vector(route.clusters)
  PROVE  /\ convert_route(route) = <<>> \/ \E x : convert_route(route) = <<x>>
         /\ convert_route(route) # <<>> <=> Forwards(route) /\ Evaluable(route)
         /\ convert_route(route) # <<>> =>
              /\ convert_route(route)[1].weighted_clusters = Destinations(route)
              /\ convert_route(route)[1].matches =
                   IF route.match = None THEN <<>> ELSE convert_route_match(route.match[1])
<1> DEFINE ws == Destinations(route)
           ms == IF route.match = None THEN <<>> ELSE convert_route_match(route.match[1])
<1>1. ws # <<>> <=> Forwards(route)
  BY RouteDestinations
<1>2. convert_route(route) = IF ws = <<>> THEN <<>>
                             ELSE IF route.match # None /\ ms = None THEN <<>>
                             ELSE <<[matches |-> ms, weighted_clusters |-> ws]>>
  BY DEF convert_route, RouteTo
<1>3. (route.match # None /\ ms = None) <=> ~ Evaluable(route)
  <2>1. CASE route.match = None
    BY <2>1 DEF Evaluable
  <2>2. CASE route.match # None
    <3> DEFINE m == route.match[1]
    <3>1. ms = convert_route_match(m)
      BY <2>2
    <3> HIDE DEF m
    <3>2. convert_route_match(m) = None <=>
            \/ m.path # None /\ m.path[1].type = "safe_regex"
            \/ \E i \in DOMAIN m.headers : m.headers[i].type = "safe_regex"
      BY DEF convert_route_match, None, Some
    <3> HIDE DEF ms
    <3> QED  BY <2>2, <3>1, <3>2 DEF m, Evaluable
  <2> QED  BY <2>1, <2>2
<1> HIDE DEF ws, ms
<1> QED  BY <1>1, <1>2, <1>3 DEF ws, ms

\* Route::matches on the converted match is what the match says.
LEMMA MatchConverted ==
  ASSUME request \in Requests, NEW m, NEW x,
         m.path # None => m.path[1].type \in {"prefix", "exact", "safe_regex"} /\ Vector(m.path[1].value),
         m.path = None \/ m.path[1].type # "safe_regex",
         \A i \in DOMAIN m.headers : m.headers[i].type # "safe_regex",
         x.matches = convert_route_match(m)
  PROVE  route_matches(x, MatchInput(request)) <=>
           /\ IF m.path = None THEN Begins(request.path_and_query, <<"/">>)
              ELSE \/ m.path[1].type = "prefix" /\ Begins(request.path_and_query, m.path[1].value)
                   \/ m.path[1].type = "exact" /\ m.path[1].value = request.path_and_query
           /\ \A i \in DOMAIN m.headers :
                LET wanted == m.headers[i] IN
                  /\ wanted.type # "safe_regex"
                  /\ wanted.type = "exact" =>
                       \E h \in request.headers :
                         eq_ignore_ascii_case(h.name, wanted.name) /\ h.value = Some(wanted.value)
<1> DEFINE text == request.path_and_query
           path == unwrap_or(m.path, [type |-> "prefix", value |-> <<"/">>])
           E == {i \in DOMAIN m.headers : m.headers[i].type = "exact"}
           hs == {[name |-> m.headers[i].name, value |-> m.headers[i].value] : i \in E}
           input == MatchInput(request)
<1>1. x.matches = Some([path |-> path, headers |-> hs])
  BY DEF convert_route_match
<1>2. route_matches(x, input) <=> path_matches(path, text) /\ \A h \in hs : header_matches(h, input)
  <2>1. input.path = text
    BY DEF MatchInput
  <2> HIDE DEF path, hs, input, text
  <2>2. x.matches # <<>> /\ DOMAIN x.matches = {1} /\ x.matches[1] = [path |-> path, headers |-> hs]
    BY <1>1 DEF Some
  <2> QED  BY <2>1, <2>2 DEF route_matches
<1>3. path_matches(path, text) <=>
        IF m.path = None THEN Begins(text, <<"/">>)
        ELSE \/ m.path[1].type = "prefix" /\ Begins(text, m.path[1].value)
             \/ m.path[1].type = "exact" /\ m.path[1].value = text
  <2>1. Vector(text) /\ Vector(<<"/">>)
    <3>1. Range(<<"/">>) = {"/"} /\ <<"/">> \in Seq({"/"})
      BY DEF Range
    <3> QED  BY <3>1, RequestsAssumption DEF Vector
  <2>2. CASE m.path = None
    <3>1. path.type = "prefix" /\ path.value = <<"/">>
      BY <2>2 DEF unwrap_or
    <3> HIDE DEF path, text
    <3> QED  BY <2>1, <2>2, <3>1, StartsWith DEF path_matches
  <2>3. CASE m.path # None
    <3>1. path = m.path[1]
      BY <2>3 DEF unwrap_or
    <3> HIDE DEF path, text
    <3> QED  BY <2>1, <2>3, <3>1, StartsWith DEF path_matches
  <2> QED  BY <2>2, <2>3
<1>4. ASSUME NEW name, NEW value
      PROVE  header_matches([name |-> name, value |-> value], input) <=>
             \E h \in request.headers : eq_ignore_ascii_case(h.name, name) /\ h.value = Some(value)
  <2>1. input.headers = {[name |-> h.name, value |-> h.value[1]] : h \in {h \in request.headers : h.value # None}}
    BY DEF MatchInput, header_pairs
  <2>2. ASSUME NEW h \in request.headers, h.value # None PROVE h.value[1] = value <=> h.value = Some(value)
    <3>1. h.value = Some(h.value[1])
      BY <2>2, RequestsAssumption DEF Option
    <3>2. Some(value)[1] = value
      BY DEF Some
    <3> QED  BY <3>1, <3>2
  <2>3. Some(value) # None
    BY DEF Some, None
  <2>4. header_matches([name |-> name, value |-> value], input) <=>
          \E h \in request.headers : h.value # None /\ eq_ignore_ascii_case(h.name, name) /\ h.value[1] = value
    <3> DEFINE w == [name |-> name, value |-> value]
               fits(p) == eq_ignore_ascii_case(p.name, w.name) /\ p.value = w.value
               pair(h) == [name |-> h.name, value |-> h.value[1]]
    <3>1. header_matches(w, input) <=> \E p \in input.headers : fits(p)
      BY DEF header_matches
    <3>2. \A h : fits(pair(h)) <=> eq_ignore_ascii_case(h.name, name) /\ h.value[1] = value
      OBVIOUS
    <3> HIDE DEF fits, input
    <3>3. (\E p \in input.headers : fits(p)) <=> \E h \in request.headers : h.value # None /\ fits(pair(h))
      BY <2>1, Zenon
    <3> HIDE DEF pair, w
    <3>4. header_matches(w, input) <=>
            \E h \in request.headers : h.value # None /\ eq_ignore_ascii_case(h.name, name) /\ h.value[1] = value
      BY <3>1, <3>2, <3>3
    <3> QED  BY <3>4 DEF w
  <2> QED  BY <2>2, <2>3, <2>4
<1>5. (\A h \in hs : header_matches(h, input)) <=>
        \A i \in DOMAIN m.headers :
          LET wanted == m.headers[i] IN
            wanted.type = "exact" =>
              \E h \in request.headers :
                eq_ignore_ascii_case(h.name, wanted.name) /\ h.value = Some(wanted.value)
  <2> HIDE DEF input
  <2>1. (\A h \in hs : header_matches(h, input)) <=>
          \A i \in E : header_matches([name |-> m.headers[i].name, value |-> m.headers[i].value], input)
    OBVIOUS
  <2> HIDE DEF hs
  <2> QED  BY <1>4, <2>1, ZenonT(20)
<1> HIDE DEF path, hs, input
<1> QED  BY <1>2, <1>3, <1>5 DEF input


\* A route can have the request just when it converts and what it converts to matches.
LEMMA RouteTaken ==
  ASSUME request \in Requests, NEW vh, HostFields(vh), NEW r \in DOMAIN vh.routes
  PROVE  LET route == vh.routes[r] IN
           Forwards(route) /\ Accepts(route) <=>
             /\ convert_route(route) # <<>>
             /\ route_matches(convert_route(route)[1], MatchInput(request))
<1> DEFINE route == vh.routes[r]
           x == convert_route(route)[1]
           m == route.match[1]
<1>1. /\ Vector(route.clusters)
      /\ route.match # None /\ m.path # None =>
           m.path[1].type \in {"prefix", "exact", "safe_regex"} /\ Vector(m.path[1].value)
  BY Zenon DEF HostFields
<1> HIDE DEF route
<1>2. /\ convert_route(route) # <<>> <=> Forwards(route) /\ Evaluable(route)
      /\ convert_route(route) # <<>> =>
           x.matches = IF route.match = None THEN <<>> ELSE convert_route_match(m)
  BY <1>1, RouteConverted
<1> HIDE DEF x, m
<1>3. Accepts(route) => Evaluable(route)
  BY Zenon DEF Accepts, Evaluable, m
<1>4. ASSUME convert_route(route) # <<>>, Evaluable(route)
      PROVE  route_matches(x, MatchInput(request)) <=> Accepts(route)
  <2>1. CASE route.match = None
    BY <1>2, <1>4, <2>1 DEF route_matches, Accepts
  <2>2. CASE route.match # None
    <3>1. x.matches = convert_route_match(m)
      BY <1>2, <1>4, <2>2
    <3>2. /\ m.path # None => m.path[1].type \in {"prefix", "exact", "safe_regex"} /\ Vector(m.path[1].value)
          /\ m.path = None \/ m.path[1].type # "safe_regex"
          /\ \A i \in DOMAIN m.headers : m.headers[i].type # "safe_regex"
      BY <1>1, <1>4, <2>2 DEF Evaluable, m
    <3>3. Accepts(route) <=>
             /\ IF m.path = None THEN Begins(request.path_and_query, <<"/">>)
                ELSE \/ m.path[1].type = "prefix" /\ Begins(request.path_and_query, m.path[1].value)
                     \/ m.path[1].type = "exact" /\ m.path[1].value = request.path_and_query
             /\ \A i \in DOMAIN m.headers :
                  LET wanted == m.headers[i] IN
                    /\ wanted.type # "safe_regex"
                    /\ wanted.type = "exact" =>
                         \E h \in request.headers :
                           eq_ignore_ascii_case(h.name, wanted.name) /\ h.value = Some(wanted.value)
      BY <2>2 DEF Accepts, m
    <3> QED  BY <3>1, <3>2, <3>3, MatchConverted
  <2> QED  BY <2>1, <2>2
<1> QED  BY <1>2, <1>3, <1>4 DEF x, route

-----------------------------------------------------------------------------
(* The routes of a virtual host                                            *)

\* What convert_virtual_hosts makes of one.
Converted(vh) == [domains |-> vh.domains, routes |-> filter_map(convert_route, vh.routes)]

Converts(vh, r) == convert_route(vh.routes[r]) # <<>>

\* The routes that convert are in q, the r-th at ro[r], in their order.
RoutesPlaced(q, vh, ro) ==
  /\ DOMAIN q \subseteq Nat
  /\ \A r \in DOMAIN vh.routes :
       Converts(vh, r) => ro[r] \in DOMAIN q /\ q[ro[r]] = convert_route(vh.routes[r])[1]
  /\ \A k \in DOMAIN q : \E r \in DOMAIN vh.routes : Converts(vh, r) /\ k = ro[r]
  /\ \A r, s \in DOMAIN vh.routes : Converts(vh, r) /\ Converts(vh, s) /\ ro[r] <= ro[s] => r <= s

\* filter_map keeps the routes that convert, in their order.
LEMMA RoutesConverted ==
  ASSUME NEW vh, HostFields(vh), Vector(vh.routes)
  PROVE  \E ro : RoutesPlaced(Converted(vh).routes, vh, ro)
<1> DEFINE rs == vh.routes
           ss == [r \in DOMAIN rs |-> convert_route(rs[r])]
           S == {ss[r][1] : r \in DOMAIN rs}
           q == flatten(ss)
<1>1. DOMAIN rs = 1..Len(rs) /\ Len(rs) \in Nat
  BY DEF Vector
<1>2. ASSUME NEW r \in DOMAIN rs PROVE ss[r] = <<>> \/ ss[r] = <<ss[r][1]>>
  <2>1. Vector(rs[r].clusters)
    BY DEF HostFields
  <2>2. convert_route(rs[r]) = <<>> \/ \E x : convert_route(rs[r]) = <<x>>
    BY <2>1, RouteConverted
  <2> QED  BY <2>2
<1>3. Converted(vh).routes = q
  BY DEF Converted, filter_map
<1>4. DOMAIN ss = DOMAIN rs /\ \A r \in DOMAIN rs : ss[r] = convert_route(rs[r])
  OBVIOUS
<1>5. ss = [r \in DOMAIN rs |-> ss[r]]
  OBVIOUS
<1> HIDE DEF ss
<1>6. \A r \in DOMAIN rs : ss[r][1] \in S
  OBVIOUS
<1> HIDE DEF S
<1>7. ASSUME NEW r \in DOMAIN rs PROVE ss[r] \in Seq(S)
  <2> DEFINE x == ss[r][1]
  <2>1. x \in S
    BY <1>6
  <2>2. ss[r] = <<>> \/ ss[r] = <<x>>
    BY <1>2
  <2> HIDE DEF x
  <2>3. <<>> \in Seq(S) /\ <<x>> \in Seq(S)
    BY <2>1
  <2> QED  BY <2>2, <2>3, Zenon
<1>8. ss \in Seq(Seq(S))
  BY <1>1, <1>5, <1>7
<1>9. q \in Seq(S)
  BY <1>8, FlattenType
<1>10. PICK off : Joined(q, ss, off)
  BY <1>8, FlattenJoins
<1>11. DOMAIN q \subseteq Nat
  BY <1>9
<1> HIDE DEF q
<1> DEFINE ro == [r \in DOMAIN rs |-> off[r] + 1]
<1>12. ASSUME NEW r \in DOMAIN rs, Converts(vh, r) PROVE ss[r] # <<>> /\ 1 \in DOMAIN ss[r]
  BY <1>2, <1>4, <1>12 DEF Converts
<1>13. ASSUME NEW r \in DOMAIN rs, Converts(vh, r)
       PROVE  ro[r] \in DOMAIN q /\ q[ro[r]] = convert_route(rs[r])[1]
  BY <1>4, <1>10, <1>12, <1>13 DEF Joined
<1>14. ASSUME NEW k \in DOMAIN q PROVE \E r \in DOMAIN rs : Converts(vh, r) /\ k = ro[r]
  <2>1. PICK r \in DOMAIN rs : \E j \in DOMAIN ss[r] : k = off[r] + j
    BY <1>4, <1>10 DEF Joined
  <2>2. PICK j \in DOMAIN ss[r] : k = off[r] + j
    BY <2>1
  <2>3. ss[r] # <<>> /\ j = 1
    BY <1>2
  <2> QED  BY <1>4, <2>2, <2>3 DEF Converts
<1>15. ASSUME NEW r \in DOMAIN rs, NEW s \in DOMAIN rs, Converts(vh, r), Converts(vh, s), ro[r] <= ro[s]
       PROVE  r <= s
  <2>1. off[r] \in Nat /\ off[s] \in Nat /\ r \in Nat /\ s \in Nat
    BY <1>1, <1>4, <1>10 DEF Joined
  <2>2. 1 \in DOMAIN ss[r] /\ 1 \in DOMAIN ss[s]
    BY <1>12, <1>15
  <2>3. /\ off[r] + 1 < off[s] + 1 => r < s \/ (r = s /\ 1 < 1)
        /\ off[r] + 1 = off[s] + 1 => r = s
    BY <1>4, <1>8, <1>10, <2>2, JoinedOrder
  <2>4. off[r] + 1 <= off[s] + 1
    BY <1>15
  <2> QED  BY <2>1, <2>3, <2>4
<1> HIDE DEF ro
<1>16. RoutesPlaced(q, vh, ro)
  BY <1>11, <1>13, <1>14, <1>15 DEF RoutesPlaced
<1> QED  BY <1>3, <1>16

\* Where the routes of a virtual host go.
PlaceOf(vh) == CHOOSE ro : RoutesPlaced(Converted(vh).routes, vh, ro)

-----------------------------------------------------------------------------
(* The virtual hosts of a listener                                         *)

\* The virtual hosts of the sources are in q, those of s after at[s] places, in
\* the order of the wire.
HostsPlaced(q, srcs, at) ==
  /\ Vector(q) /\ at \in [srcs -> Nat]
  /\ \A s \in srcs : \A h \in DOMAIN s.hosts :
       h \in Nat /\ at[s] + h \in DOMAIN q /\ q[at[s] + h] = Converted(s.hosts[h])
  /\ \A k \in DOMAIN q : \E s \in srcs : \E h \in DOMAIN s.hosts : k = at[s] + h
  /\ \A s, u \in srcs : \A h \in DOMAIN s.hosts : \A g \in DOMAIN u.hosts :
       /\ at[s] + h < at[u] + g => SourceBefore(s, u) \/ (s = u /\ h < g)
       /\ at[s] + h = at[u] + g => s = u /\ h = g

\* ss has what the sources convert to, that of s as its num[s]-th.
Numbered(ss, srcs, num) ==
  /\ \A s \in srcs : /\ num[s] \in DOMAIN ss /\ DOMAIN ss[num[s]] = DOMAIN s.hosts
                     /\ \A h \in DOMAIN s.hosts : ss[num[s]][h] = Converted(s.hosts[h])
  /\ \A i \in DOMAIN ss : ss[i] # <<>> => \E s \in srcs : num[s] = i
  /\ \A s, u \in srcs : /\ num[s] < num[u] => SourceBefore(s, u)
                        /\ num[s] = num[u] => s = u

\* Flattening what the sources convert to puts their virtual hosts in order.
LEMMA SourcesFlattened ==
  ASSUME NEW S, NEW ss, ss \in Seq(Seq(S)), NEW srcs, NEW num, Numbered(ss, srcs, num)
  PROVE  \E at : HostsPlaced(flatten(ss), srcs, at)
<1> DEFINE q == flatten(ss)
<1>1. PICK off : Joined(q, ss, off)
  BY FlattenJoins
<1>2. q \in Seq(S)
  BY FlattenType
<1> DEFINE at == [s \in srcs |-> off[num[s]]]
<1> HIDE DEF q
<1>3. Vector(q) /\ DOMAIN q \subseteq Nat
  BY <1>2 DEF Vector, Range
<1>4. at \in [srcs -> Nat] /\ \A s \in srcs : at[s] = off[num[s]]
  BY <1>1 DEF Joined, Numbered
<1> HIDE DEF at
<1>5. ASSUME NEW s \in srcs, NEW h \in DOMAIN s.hosts
      PROVE  h \in Nat /\ at[s] + h \in DOMAIN q /\ q[at[s] + h] = Converted(s.hosts[h])
  <2>1. num[s] \in DOMAIN ss /\ h \in DOMAIN ss[num[s]] /\ ss[num[s]][h] = Converted(s.hosts[h])
    BY DEF Numbered
  <2>2. h \in Nat
    BY <2>1, VectorsOf
  <2> QED  BY <1>1, <1>4, <2>1, <2>2 DEF Joined
<1>6. ASSUME NEW k \in DOMAIN q PROVE \E s \in srcs : \E h \in DOMAIN s.hosts : k = at[s] + h
  <2>1. PICK i \in DOMAIN ss : \E j \in DOMAIN ss[i] : k = off[i] + j
    BY <1>1 DEF Joined
  <2>2. PICK j \in DOMAIN ss[i] : k = off[i] + j
    BY <2>1
  <2>3. ss[i] # <<>>
    BY <2>2
  <2>4. PICK s \in srcs : num[s] = i
    BY <2>3 DEF Numbered
  <2>5. j \in DOMAIN s.hosts
    BY <2>2, <2>4 DEF Numbered
  <2> QED  BY <1>4, <2>2, <2>4, <2>5
<1>7. ASSUME NEW s \in srcs, NEW u \in srcs, NEW h \in DOMAIN s.hosts, NEW g \in DOMAIN u.hosts
      PROVE  /\ at[s] + h < at[u] + g => SourceBefore(s, u) \/ (s = u /\ h < g)
             /\ at[s] + h = at[u] + g => s = u /\ h = g
  <2> DEFINE i == num[s]
             k == num[u]
  <2>1. i \in DOMAIN ss /\ h \in DOMAIN ss[i] /\ k \in DOMAIN ss /\ g \in DOMAIN ss[k]
    BY DEF Numbered
  <2>2. (i < k => SourceBefore(s, u)) /\ (i = k => s = u)
    BY DEF Numbered
  <2>3. at[s] = off[i] /\ at[u] = off[k]
    BY <1>4
  <2> HIDE DEF i, k
  <2>4. /\ off[i] + h < off[k] + g => i < k \/ (i = k /\ h < g)
        /\ off[i] + h = off[k] + g => i = k /\ h = g
    BY <1>1, <2>1, JoinedOrder
  <2> QED  BY <2>2, <2>3, <2>4
<1>8. HostsPlaced(q, srcs, at)
  BY <1>3, <1>4, <1>5, <1>6, <1>7 DEF HostsPlaced
<1> QED  BY <1>8 DEF q

\* c has what the virtual hosts convert to, one by one.
AsConverted(c, vhosts) ==
  /\ Vector(c) /\ DOMAIN c = DOMAIN vhosts
  /\ \A h \in DOMAIN vhosts : c[h] = Converted(vhosts[h])

\* convert_virtual_hosts converts them one by one.
LEMMA HostsConverted ==
  ASSUME NEW vhosts, VirtualHosts(vhosts)
  PROVE  AsConverted(convert_virtual_hosts(vhosts), vhosts)
<1> DEFINE c == convert_virtual_hosts(vhosts)
<1>1. DOMAIN vhosts = 1..Len(vhosts) /\ Len(vhosts) \in Nat
  BY DEF VirtualHosts, Vector
<1>2. c \in Seq(Range(c))
  BY HostsDirected
<1>3. DOMAIN c = DOMAIN vhosts /\ \A h \in DOMAIN vhosts : c[h] = Converted(vhosts[h])
  BY DEF convert_virtual_hosts, Converted
<1> QED  BY <1>2, <1>3 DEF AsConverted, Vector

\* Vectors some of which are left empty.
LEMMA SomeOfThem ==
  ASSUME NEW ss, NEW n \in Nat, NEW c, IsMap(ss), DOMAIN ss = 1..n,
         \A i \in 1..n : ss[i] = <<>> \/ (ss[i] = c[i] /\ Vector(c[i]))
  PROVE  \E S : ss \in Seq(Seq(S))
<1> DEFINE S == UNION {Range(ss[i]) : i \in 1..n}
<1>1. ASSUME NEW i \in 1..n PROVE ss[i] \in Seq(S)
  <2>1. Range(ss[i]) \subseteq S
    OBVIOUS
  <2> HIDE DEF S
  <2>2. CASE ss[i] = <<>>
    BY <2>2
  <2>3. CASE ss[i] # <<>>
    <3>1. ss[i] \in Seq(Range(ss[i]))
      BY <2>3 DEF Vector
    <3> QED  BY <2>1, <3>1
  <2> QED  BY <2>2, <2>3
<1> HIDE DEF S
<1>2. ss \in Seq(Seq(S))
  BY <1>1 DEF IsMap
<1> QED  BY <1>2

\* The virtual hosts inside a listener, in the order of its managers.
LEMMA OwnPlaced ==
  ASSUME NEW l, ListenerFields(l)
  PROVE  \E at : HostsPlaced(listener_snapshot(l).inline_virtual_hosts, Own(l), at)
<1> DEFINE ms == l.managers
           hosts == [m \in DOMAIN ms |-> convert_virtual_hosts(ms[m].virtual_hosts)]
           ss == [m \in DOMAIN ms |-> IF ms[m].specifier = "inline" THEN hosts[m] ELSE <<>>]
           num == [s \in Own(l) |-> s.number]
<1>1. DOMAIN ms = 1..Len(ms) /\ Len(ms) \in Nat
  BY DEF ListenerFields, WellFormed, Vector
<1>2. ASSUME NEW m \in DOMAIN ms PROVE AsConverted(hosts[m], ms[m].virtual_hosts)
  <2>1. VirtualHosts(ms[m].virtual_hosts)
    BY DEF ListenerFields, WellFormed
  <2> QED  BY <2>1, HostsConverted
<1>3. listener_snapshot(l).inline_virtual_hosts = flatten(ss)
  <2>1. ss = [m \in DOMAIN ms |-> IF ms[m].specifier = "inline" THEN convert_virtual_hosts(ms[m].virtual_hosts) ELSE <<>>]
    OBVIOUS
  <2> HIDE DEF ss
  <2> QED  BY <2>1 DEF listener_snapshot, filter_map
<1>4. /\ IsMap(ss) /\ DOMAIN ss = DOMAIN ms
      /\ \A m \in DOMAIN ms : ss[m] = IF ms[m].specifier = "inline" THEN hosts[m] ELSE <<>>
  BY DEF IsMap
<1> HIDE DEF ss, hosts
<1>5. \A m \in DOMAIN ms : ss[m] = <<>> \/ (ss[m] = hosts[m] /\ Vector(hosts[m]))
  BY <1>2, <1>4 DEF AsConverted
<1>6. PICK S : ss \in Seq(Seq(S))
  <2> HIDE DEF ms
  <2> QED  BY <1>1, <1>4, <1>5, SomeOfThem
<1>7. ASSUME NEW s \in Own(l)
      PROVE  /\ s.number \in DOMAIN ms /\ ms[s.number].specifier = "inline"
             /\ s = [part |-> 1, number |-> s.number, hosts |-> ms[s.number].virtual_hosts]
  BY DEF Own
<1>8. \A s \in Own(l) : num[s] = s.number
  OBVIOUS
<1> HIDE DEF num
<1>9. ASSUME NEW s \in Own(l)
      PROVE  /\ num[s] \in DOMAIN ss /\ DOMAIN ss[num[s]] = DOMAIN s.hosts
             /\ \A h \in DOMAIN s.hosts : ss[num[s]][h] = Converted(s.hosts[h])
  <2> DEFINE m == num[s]
  <2>1. m \in DOMAIN ms /\ ms[m].specifier = "inline" /\ s.hosts = ms[m].virtual_hosts
    BY <1>7, <1>8
  <2> HIDE DEF m
  <2>2. m \in DOMAIN ss /\ ss[m] = hosts[m] /\ AsConverted(hosts[m], s.hosts)
    BY <1>2, <1>4, <2>1
  <2> QED  BY <2>2 DEF AsConverted, m
<1>10. ASSUME NEW i \in DOMAIN ss, ss[i] # <<>> PROVE \E s \in Own(l) : num[s] = i
  <2>1. i \in DOMAIN ms /\ ms[i].specifier = "inline"
    BY <1>4, <1>10
  <2> DEFINE s == [part |-> 1, number |-> i, hosts |-> ms[i].virtual_hosts]
  <2>2. s \in Own(l) /\ s.number = i
    BY <2>1 DEF Own
  <2> QED  BY <1>8, <2>2
<1>11. ASSUME NEW s \in Own(l), NEW u \in Own(l)
       PROVE  /\ num[s] < num[u] => SourceBefore(s, u)
              /\ num[s] = num[u] => s = u
  BY <1>7, <1>8 DEF SourceBefore
<1>12. Numbered(ss, Own(l), num)
  BY <1>9, <1>10, <1>11 DEF Numbered
<1> QED  BY <1>3, <1>6, <1>12, SourcesFlattened

-----------------------------------------------------------------------------
(* The resources in force                                                  *)

\* m has what the resources in force are stored as, each under its name.
Holds(m, rs, value) ==
  /\ \A i \in InForce(rs) : rs[i].name \in DOMAIN m /\ m[rs[i].name] = value[i]
  /\ \A n \in DOMAIN m : \E i \in InForce(rs) : rs[i].name = n

\* No two resources in force have the same name.
LEMMA InForceUnique ==
  ASSUME NEW rs, Vector(rs), NEW i \in InForce(rs), NEW j \in InForce(rs), rs[i].name = rs[j].name
  PROVE  i = j
<1>1. i \in Nat /\ j \in Nat
  BY DEF InForce, Vector
<1>2. i <= j /\ j <= i
  BY DEF InForce
<1> QED  BY <1>1, <1>2

\* Inserting resources into an empty map leaves those in force.
LEMMA InsertedInForce ==
  ASSUME NEW rs, Vector(rs), NEW p, DOMAIN p = {}, NEW b, NEW value,
         Insertion(p, b, rs, DOMAIN rs, value)
  PROVE  Holds(b, rs, value)
<1> DEFINE P(n) == Positions(rs, DOMAIN rs, n)
<1>1. rs \in Seq(Range(rs)) /\ DOMAIN rs \subseteq Nat
  BY DEF Vector
<1>2. ASSUME NEW n, P(n) # {} PROVE Max(P(n)) \in P(n) /\ \A i \in P(n) : i <= Max(P(n))
  BY <1>1, <1>2, LastPosition
<1>3. ASSUME NEW n PROVE \A i : i \in P(n) <=> i \in DOMAIN rs /\ rs[i].name = n
  BY DEF Positions
<1>4. ASSUME NEW n \in DOMAIN b PROVE Max(P(n)) \in P(n) /\ b[n] = value[Max(P(n))]
  BY DEF Insertion
<1>5. \A i \in DOMAIN rs : rs[i].name \in DOMAIN b
  BY DEF Insertion
<1> HIDE DEF P
<1>6. ASSUME NEW i \in InForce(rs) PROVE rs[i].name \in DOMAIN b /\ b[rs[i].name] = value[i]
  <2> DEFINE n == rs[i].name
             k == Max(P(n))
  <2>1. i \in DOMAIN rs /\ \A j \in DOMAIN rs : rs[j].name = n => j <= i
    BY DEF InForce
  <2> HIDE DEF n
  <2>2. i \in P(n)
    BY <1>3, <2>1 DEF n
  <2>3. n \in DOMAIN b
    BY <1>5, <2>1 DEF n
  <2>4. k \in P(n) /\ i <= k /\ b[n] = value[k]
    BY <1>2, <1>4, <2>2, <2>3
  <2> HIDE DEF k
  <2>5. k \in DOMAIN rs /\ k <= i
    BY <1>3, <2>1, <2>4
  <2>6. k = i
    BY <1>1, <2>1, <2>4, <2>5
  <2> QED  BY <2>3, <2>4, <2>6 DEF n
<1>7. ASSUME NEW n \in DOMAIN b PROVE \E i \in InForce(rs) : rs[i].name = n
  <2> DEFINE k == Max(P(n))
  <2>1. k \in P(n) /\ \A i \in P(n) : i <= k
    BY <1>2, <1>4
  <2> HIDE DEF k
  <2>2. k \in DOMAIN rs /\ rs[k].name = n /\ \A j \in DOMAIN rs : rs[j].name = n => j <= k
    BY <1>3, <2>1
  <2>3. k \in InForce(rs)
    BY <2>2 DEF InForce
  <2> QED  BY <2>2, <2>3
<1> QED  BY <1>6, <1>7 DEF Holds

\* What the two responses leave in AdsState.
Received(t) == apply_routes(apply_listeners(NewAdsState, t.listeners), t.routes)

\* AdsState has the listeners and the routes of the table that are in force.
LEMMA TableReceived ==
  ASSUME table \in Tables
  PROVE  LET a == Received(table) IN
           /\ Holds(a.listeners, table.listeners, ListenerValues(table.listeners))
           /\ Holds(a.routes, table.routes, RouteValues(table.routes))
           /\ IsFiniteSet(DOMAIN a.listeners) /\ DOMAIN a.listeners \subseteq Nat
<1> DEFINE a == Received(table)
           ls == table.listeners
           rs == table.routes
           p == prune_requested(EmptyMap, subscription(NewAdsState, "listener"))
           q == prune_requested(EmptyMap, subscription(apply_listeners(NewAdsState, ls), "route"))
<1>1. Vector(ls) /\ Vector(rs) /\ \A i \in DOMAIN ls : ls[i].name \in Nat
  BY TablesAssumption DEF ListenerFields, WellFormed
<1>2. DOMAIN EmptyMap = {}
  BY DEF EmptyMap
<1>3. DOMAIN p = {} /\ DOMAIN q = {}
  <2>1. ASSUME NEW names PROVE DOMAIN prune_requested(EmptyMap, names) = {}
    BY <1>2 DEF prune_requested
  <2> QED  BY <2>1
<1>4. a.listeners = insert_listeners(p, ls) /\ a.routes = insert_routes(q, rs)
  BY Zenon DEF Received, apply_routes, apply_listeners, State, NewAdsState
<1> HIDE DEF a, ls, rs, p, q
<1>5. ls \in Seq(Range(ls)) /\ rs \in Seq(Range(rs))
  BY <1>1 DEF Vector
<1>6. /\ Insertion(p, a.listeners, ls, DOMAIN ls, ListenerValues(ls))
      /\ Insertion(q, a.routes, rs, DOMAIN rs, RouteValues(rs))
  BY <1>4, <1>5, InsertListeners, InsertRoutes, ZenonT(20)
<1>7. \A r \in Range(ls) : r.name \in Nat
  BY <1>1 DEF Range
<1>8. IsFiniteSet({})
  BY FS_EmptySet
<1>9. IsFiniteSet(DOMAIN a.listeners) /\ DOMAIN a.listeners \subseteq Nat
  <2> DEFINE O == Range(ls)
             m == EmptyMap
             kept == DOMAIN ls
             value == ListenerValues(ls)
             b == a.listeners
  <2>1. ls \in Seq(O) /\ (\A r \in O : r.name \in Nat) /\ kept \subseteq DOMAIN ls
    BY <1>5, <1>7
  <2>2. IsFiniteSet(DOMAIN m) /\ DOMAIN m \subseteq Nat /\ DOMAIN p \subseteq DOMAIN m
    BY <1>2, <1>3, <1>8
  <2>3. Insertion(p, b, ls, kept, value)
    BY <1>6
  <2> HIDE DEF O, m, kept, value, b
  <2>4. IsFiniteSet(DOMAIN b) /\ DOMAIN b \subseteq Nat
    BY <2>1, <2>2, <2>3, InsertionDomain
  <2> QED  BY <2>4 DEF b
<1> QED  BY <1>1, <1>3, <1>6, <1>9, InsertedInForce DEF a, ls, rs

-----------------------------------------------------------------------------
(* The listener that takes the request                                     *)

\* What a source that is a route resource is.
LEMMA DiscoveredSource ==
  ASSUME NEW l, NEW s
  PROVE  s \in Discovered(l) <=>
           \E i \in InForce(table.routes) :
             /\ table.routes[i].name \in listener_snapshot(l).route_names
             /\ s = [part |-> 2, number |-> table.routes[i].name, hosts |-> table.routes[i].virtual_hosts]
<1> DEFINE N == listener_snapshot(l).route_names
           K == {i \in DOMAIN l.managers : l.managers[i].specifier = "rds"}
<1>1. N = {l.managers[i].route_config_name : i \in K} \ {EmptyName}
  BY Zenon DEF listener_snapshot
<1> HIDE DEF N
<1>3. ASSUME NEW n
      PROVE  n \in N <=>
               /\ n # EmptyName
               /\ \E m \in DOMAIN l.managers : l.managers[m].specifier = "rds" /\ l.managers[m].route_config_name = n
  BY <1>1
<1> QED  BY <1>3 DEF Discovered, N

\* The virtual hosts of the route resources that a listener names, in the order of
\* the names.
LEMMA DiscoveredPlaced ==
  ASSUME table \in Tables, NEW l, ListenerFields(l),
         NEW a, Holds(a.routes, table.routes, RouteValues(table.routes))
  PROVE  \E at : HostsPlaced(Routed(a, listener_snapshot(l)), Discovered(l), at)
<1> DEFINE rs == table.routes
           D == Discovered(l)
           N == listener_snapshot(l).route_names
           names == sorted_unique(N)
           hosts == [k \in DOMAIN names |-> a.routes[names[k]]]
           ss == [k \in DOMAIN names |-> IF names[k] \in DOMAIN a.routes THEN a.routes[names[k]] ELSE <<>>]
           num == [s \in D |-> Rank(N, s.number)]
<1>1. Vector(rs) /\ \A i \in DOMAIN rs : VirtualHosts(rs[i].virtual_hosts) /\ rs[i].name \in Nat
  BY TablesAssumption DEF RouteFields, WellFormed
<1>2. IsFiniteSet(N) /\ N \subseteq Nat
  BY RouteNamesFinite DEF ListenerFields
<1>3. ASSUME NEW s
      PROVE  s \in D <=>
               \E i \in InForce(rs) : /\ rs[i].name \in N
                                      /\ s = [part |-> 2, number |-> rs[i].name, hosts |-> rs[i].virtual_hosts]
  BY DiscoveredSource
<1>4. Routed(a, listener_snapshot(l)) = flatten(ss)
  BY DEF Routed
<1> HIDE DEF D, N
<1>5. /\ Cardinality(N) \in Nat /\ DOMAIN names = 1..Cardinality(N)
      /\ \A k \in DOMAIN names : names[k] \in N
      /\ \A j, k \in DOMAIN names : j < k => names[j] < names[k]
      /\ \A n \in N : \E k \in DOMAIN names : names[k] = n
  <2> HIDE DEF hosts, ss, num
  <2> QED  BY <1>2, SortedFacts, Zenon
<1>6. ASSUME NEW n \in N PROVE Rank(N, n) \in DOMAIN names /\ names[Rank(N, n)] = n
  <2>1. Rank(N, n) \in 1..Cardinality(N) /\ sorted_unique(N)[Rank(N, n)] = n
    BY <1>2, SortedRank, Zenon
  <2> QED  BY <1>5, <2>1
<1> HIDE DEF names
<1>7. /\ IsMap(ss) /\ DOMAIN ss = DOMAIN names
      /\ \A k \in DOMAIN names : ss[k] = IF names[k] \in DOMAIN a.routes THEN hosts[k] ELSE <<>>
  BY DEF IsMap
<1>8. ASSUME NEW k \in DOMAIN names PROVE hosts[k] = a.routes[names[k]]
  OBVIOUS
<1>9. \A s \in D : num[s] = Rank(N, s.number)
  OBVIOUS
<1> HIDE DEF ss, hosts, num
<1>10. ASSUME NEW i \in InForce(rs)
       PROVE  rs[i].name \in DOMAIN a.routes /\ AsConverted(a.routes[rs[i].name], rs[i].virtual_hosts)
  <2>1. i \in DOMAIN rs
    BY DEF InForce
  <2>2. rs[i].name \in DOMAIN a.routes /\ a.routes[rs[i].name] = convert_virtual_hosts(rs[i].virtual_hosts)
    <3>1. rs[i].name \in DOMAIN a.routes /\ a.routes[rs[i].name] = RouteValues(rs)[i]
      BY DEF Holds
    <3>2. RouteValues(rs)[i] = convert_virtual_hosts(rs[i].virtual_hosts)
      BY <2>1 DEF RouteValues
    <3> QED  BY <3>1, <3>2
  <2> QED  BY <1>1, <2>1, <2>2, HostsConverted
<1>11. ASSUME NEW n \in DOMAIN a.routes PROVE \E i \in InForce(rs) : rs[i].name = n
  BY DEF Holds
<1> HIDE DEF rs
<1>12. \A k \in DOMAIN names : ss[k] = <<>> \/ (ss[k] = hosts[k] /\ Vector(hosts[k]))
  <2>1. ASSUME NEW k \in DOMAIN names, names[k] \in DOMAIN a.routes PROVE Vector(hosts[k])
    <3>1. PICK i \in InForce(rs) : rs[i].name = names[k]
      BY <1>11, <2>1
    <3> QED  BY <1>8, <1>10, <3>1 DEF AsConverted
  <2> QED  BY <1>7, <2>1
<1>13. PICK S : ss \in Seq(Seq(S))
  <2> DEFINE n == Cardinality(N)
  <2>1. n \in Nat /\ DOMAIN names = 1..n
    BY <1>5
  <2> HIDE DEF n
  <2>2. /\ IsMap(ss) /\ DOMAIN ss = 1..n
        /\ \A k \in 1..n : ss[k] = <<>> \/ (ss[k] = hosts[k] /\ Vector(hosts[k]))
    BY <1>7, <1>12, <2>1
  <2> QED  BY <2>1, <2>2, SomeOfThem
<1>14. ASSUME NEW s \in D
       PROVE  /\ num[s] \in DOMAIN names /\ names[num[s]] = s.number /\ s.part = 2
              /\ s.number \in DOMAIN a.routes /\ AsConverted(a.routes[s.number], s.hosts)
  <2>1. PICK i \in InForce(rs) : /\ rs[i].name \in N
                                 /\ s = [part |-> 2, number |-> rs[i].name, hosts |-> rs[i].virtual_hosts]
    BY <1>3
  <2>2. s.part = 2 /\ s.number = rs[i].name /\ s.hosts = rs[i].virtual_hosts
    BY <2>1
  <2> QED  BY <1>6, <1>9, <1>10, <2>1, <2>2
<1>15. ASSUME NEW s \in D
       PROVE  /\ num[s] \in DOMAIN ss /\ DOMAIN ss[num[s]] = DOMAIN s.hosts
              /\ \A h \in DOMAIN s.hosts : ss[num[s]][h] = Converted(s.hosts[h])
  <2>1. num[s] \in DOMAIN ss /\ ss[num[s]] = a.routes[s.number]
    BY <1>7, <1>8, <1>14
  <2>2. AsConverted(ss[num[s]], s.hosts)
    BY <1>14, <2>1
  <2> QED  BY <2>1, <2>2 DEF AsConverted
<1>16. ASSUME NEW k \in DOMAIN ss, ss[k] # <<>> PROVE \E s \in D : num[s] = k
  <2>1. k \in DOMAIN names /\ names[k] \in DOMAIN a.routes /\ names[k] \in N
    BY <1>5, <1>7, <1>16
  <2>2. PICK i \in InForce(rs) : rs[i].name = names[k]
    BY <1>11, <2>1
  <2> DEFINE s == [part |-> 2, number |-> rs[i].name, hosts |-> rs[i].virtual_hosts]
  <2>3. s \in D /\ s.number = names[k]
    BY <1>3, <2>1, <2>2
  <2> HIDE DEF s
  <2>4. num[s] \in DOMAIN names /\ names[num[s]] = names[k]
    BY <1>14, <2>3
  <2>5. num[s] = k
    <3> DEFINE j == num[s]
    <3> HIDE DEF j
    <3>1. j \in DOMAIN names /\ k \in DOMAIN names /\ names[j] = names[k]
      BY <2>1, <2>4 DEF j
    <3>4. names[k] \in Nat
      BY <1>2, <2>1, Zenon
    <3>2. ~ (j < k) /\ ~ (k < j)
      BY <1>5, <3>1, <3>4
    <3>3. j \in Nat /\ k \in Nat
      BY <1>5, <3>1
    <3> QED  BY <3>2, <3>3 DEF j
  <2> QED  BY <2>3, <2>5
<1>17. ASSUME NEW s \in D, NEW u \in D
       PROVE  /\ num[s] < num[u] => SourceBefore(s, u)
              /\ num[s] = num[u] => s = u
  <2>1. num[s] < num[u] => SourceBefore(s, u)
    BY <1>5, <1>14 DEF SourceBefore
  <2>2. ASSUME num[s] = num[u] PROVE s = u
    <3>1. PICK i \in InForce(rs) : s = [part |-> 2, number |-> rs[i].name, hosts |-> rs[i].virtual_hosts]
      BY <1>3
    <3>2. PICK j \in InForce(rs) : u = [part |-> 2, number |-> rs[j].name, hosts |-> rs[j].virtual_hosts]
      BY <1>3
    <3>3. rs[i].name = s.number /\ rs[j].name = u.number /\ s.number = u.number
      BY <1>14, <2>2, <3>1, <3>2
    <3>4. i = j
      BY <1>1, <3>3, InForceUnique
    <3> QED  BY <3>1, <3>2, <3>4
  <2> QED  BY <2>1, <2>2
<1>18. Numbered(ss, D, num)
  BY <1>15, <1>16, <1>17 DEF Numbered
<1> QED  BY <1>4, <1>13, <1>18, SourcesFlattened DEF D

\* The sources of the first part come before those of the second.
LEMMA PartsPlaced ==
  ASSUME NEW p, NEW A, NEW u, HostsPlaced(p, A, u), \A s \in A : s.part = 1,
         NEW q, NEW B, NEW v, HostsPlaced(q, B, v), \A s \in B : s.part = 2
  PROVE  \E at : HostsPlaced(p \o q, A \cup B, at)
<1> DEFINE S == Range(p) \cup Range(q)
           n == Len(p)
           w == p \o q
           C == A \cup B
           at == [s \in C |-> IF s.part = 1 THEN u[s] ELSE n + v[s]]
<1>1. p \in Seq(S) /\ q \in Seq(S)
  BY DEF HostsPlaced, Vector
<1> HIDE DEF S
<1>2. /\ n \in Nat /\ Len(q) \in Nat /\ Len(w) = n + Len(q)
      /\ \A i \in 1..n : w[i] = p[i]
      /\ \A j \in 1..Len(q) : w[n + j] = q[j]
  BY <1>1, Concatenation
<1>3. DOMAIN p = 1..n /\ DOMAIN q = 1..Len(q) /\ DOMAIN w = 1..Len(w) /\ w \in Seq(S)
  BY <1>1
<1> HIDE DEF w, n
<1>4. Vector(w)
  BY <1>3 DEF Vector, Range
<1>5. /\ \A s \in A : u[s] \in Nat
      /\ \A s \in B : v[s] \in Nat
  BY DEF HostsPlaced
<1>6. /\ at \in [C -> Nat]
      /\ \A s \in A : s \in C /\ s.part = 1 /\ at[s] = u[s]
      /\ \A s \in B : s \in C /\ s.part = 2 /\ at[s] = n + v[s]
  BY <1>2, <1>5
<1>7. \A s \in C : s \in A \/ s \in B
  OBVIOUS
<1> HIDE DEF at, C
<1>8. ASSUME NEW s \in A, NEW h \in DOMAIN s.hosts
      PROVE  h \in Nat /\ at[s] + h \in 1..n /\ p[at[s] + h] = Converted(s.hosts[h])
  <2>1. h \in Nat /\ u[s] + h \in DOMAIN p /\ p[u[s] + h] = Converted(s.hosts[h])
    BY DEF HostsPlaced
  <2> QED  BY <1>3, <1>6, <2>1
<1>9. ASSUME NEW s \in B, NEW h \in DOMAIN s.hosts
      PROVE  h \in Nat /\ v[s] + h \in 1..Len(q) /\ q[v[s] + h] = Converted(s.hosts[h]) /\ at[s] + h = n + (v[s] + h)
  <2>1. h \in Nat /\ v[s] + h \in 1..Len(q) /\ q[v[s] + h] = Converted(s.hosts[h])
    BY <1>3 DEF HostsPlaced
  <2> QED  BY <1>2, <1>5, <1>6, <2>1
<1>10. ASSUME NEW s \in C, NEW h \in DOMAIN s.hosts
       PROVE  h \in Nat /\ at[s] + h \in DOMAIN w /\ w[at[s] + h] = Converted(s.hosts[h])
  <2>1. CASE s \in A
    BY <1>2, <1>3, <1>8, <2>1
  <2>2. CASE s \in B
    BY <1>2, <1>3, <1>9, <2>2
  <2> QED  BY <1>7, <2>1, <2>2
<1>11. ASSUME NEW k \in DOMAIN w PROVE \E s \in C : \E h \in DOMAIN s.hosts : k = at[s] + h
  <2>1. CASE k \in DOMAIN p
    <3>1. PICK s \in A : \E h \in DOMAIN s.hosts : k = u[s] + h
      BY <2>1 DEF HostsPlaced
    <3> QED  BY <1>6, <3>1
  <2>2. CASE k \notin DOMAIN p
    <3> DEFINE j == k - n
    <3>1. j \in DOMAIN q /\ k = n + j
      BY <1>2, <1>3, <2>2
    <3> HIDE DEF j
    <3>2. PICK s \in B : \E h \in DOMAIN s.hosts : j = v[s] + h
      BY <3>1 DEF HostsPlaced
    <3>3. PICK h \in DOMAIN s.hosts : j = v[s] + h
      BY <3>2
    <3>4. k = at[s] + h /\ s \in C
      BY <1>6, <1>9, <3>1, <3>3
    <3> QED  BY <3>4
  <2> QED  BY <2>1, <2>2
<1>12. ASSUME NEW s \in C, NEW t \in C, NEW h \in DOMAIN s.hosts, NEW g \in DOMAIN t.hosts
       PROVE  /\ at[s] + h < at[t] + g => SourceBefore(s, t) \/ (s = t /\ h < g)
              /\ at[s] + h = at[t] + g => s = t /\ h = g
  <2>1. CASE s \in A /\ t \in A
    BY <1>6, <2>1 DEF HostsPlaced
  <2>2. CASE s \in B /\ t \in B
    <3>1. /\ v[s] + h < v[t] + g => SourceBefore(s, t) \/ (s = t /\ h < g)
          /\ v[s] + h = v[t] + g => s = t /\ h = g
      BY <2>2 DEF HostsPlaced
    <3>2. at[s] + h = n + (v[s] + h) /\ at[t] + g = n + (v[t] + g) /\ v[s] + h \in Nat /\ v[t] + g \in Nat
      BY <1>9, <2>2
    <3> HIDE DEF HostsPlaced
    <3> QED  BY <1>2, <3>1, <3>2
  <2>3. CASE s \in A /\ t \in B
    <3>1. at[s] + h \in 1..n /\ at[t] + g = n + (v[t] + g) /\ v[t] + g \in 1..Len(q)
      BY <1>8, <1>9, <2>3
    <3>2. SourceBefore(s, t)
      BY <1>6, <2>3 DEF SourceBefore
    <3> QED  BY <1>2, <3>1, <3>2
  <2>4. CASE s \in B /\ t \in A
    <3>1. at[t] + g \in 1..n /\ at[s] + h = n + (v[s] + h) /\ v[s] + h \in 1..Len(q)
      BY <1>8, <1>9, <2>4
    <3> QED  BY <1>2, <3>1
  <2> QED  BY <1>7, <2>1, <2>2, <2>3, <2>4
<1>13. HostsPlaced(w, C, at)
  BY <1>4, <1>6, <1>10, <1>11, <1>12, Zenon DEF HostsPlaced
<1> QED  BY <1>13 DEF w, C

\* The virtual hosts of a listener of the configuration are those of its sources.
LEMMA SourcesPlaced ==
  ASSUME table \in Tables, NEW l, ListenerFields(l),
         NEW a, Holds(a.routes, table.routes, RouteValues(table.routes))
  PROVE  \E at : HostsPlaced(listener_snapshot(l).inline_virtual_hosts \o Routed(a, listener_snapshot(l)),
                             Own(l) \cup Discovered(l), at)
<1> DEFINE p == listener_snapshot(l).inline_virtual_hosts
           q == Routed(a, listener_snapshot(l))
<1>1. PICK u : HostsPlaced(p, Own(l), u)
  BY OwnPlaced
<1>2. PICK v : HostsPlaced(q, Discovered(l), v)
  BY DiscoveredPlaced
<1>3. \A s \in Own(l) : s.part = 1
  BY DEF Own
<1>4. \A s \in Discovered(l) : s.part = 2
  BY DEF Discovered
<1> HIDE DEF p, q
<1>5. \E at : HostsPlaced(p \o q, Own(l) \cup Discovered(l), at)
  BY <1>1, <1>2, <1>3, <1>4, PartsPlaced
<1> QED  BY <1>5 DEF p, q

\* Port 80 in the configuration is port 80 on the wire.
LEMMA PortOnWire ==
  ASSUME NEW l, ListenerFields(l)
  PROVE  Port(l) = HTTP_LISTENER_PORT <=> OnPort(l)
<1>1. CASE l.address # None /\ l.address[1].port # None /\ l.address[1].port[1] <= MaxPort
  <2>1. l.address[1].port[1] \in Nat
    BY <1>1 DEF ListenerFields
  <2> DEFINE x == [address |-> l.address[1].address, port |-> l.address[1].port[1]]
  <2>2. socket_address(l.address) = Some(x)
    BY <1>1, <2>1 DEF socket_address, MaxPort
  <2>3. Some(x) # None /\ Some(x)[1].port = l.address[1].port[1]
    BY DEF Some, None
  <2> HIDE DEF x
  <2>4. Port(l) = l.address[1].port[1]
    BY <2>2, <2>3 DEF Port, listener_port, unwrap_or, Some, None
  <2> QED  BY <1>1, <2>4 DEF OnPort
<1>2. CASE ~ (l.address # None /\ l.address[1].port # None /\ l.address[1].port[1] <= MaxPort)
  <2>1. socket_address(l.address) = None
    <3>1. CASE l.address = None \/ l.address[1].port = None
      BY <3>1 DEF socket_address
    <3>2. CASE ~ (l.address = None \/ l.address[1].port = None)
      <4>1. l.address[1].port[1] \in Nat
        BY <3>2 DEF ListenerFields
      <4> QED  BY <1>2, <3>2, <4>1 DEF socket_address, MaxPort
    <3> QED  BY <3>1, <3>2
  <2>2. Port(l) = unwrap_or(l.port_in_name, 80)
    BY <2>1 DEF Port, listener_port
  <2>3. l.port_in_name = None \/ l.port_in_name = Some(l.port_in_name[1])
    BY DEF ListenerFields, Option
  <2>4. unwrap_or(l.port_in_name, 80) = 80 <=> l.port_in_name \in {None, Some(80)}
    <3> DEFINE o == l.port_in_name
               x == o[1]
    <3>1. CASE o = None
      BY <3>1 DEF unwrap_or
    <3>2. CASE o # None
      <4>1. o = <<x>> /\ unwrap_or(o, 80) = x
        BY <2>3, <3>2 DEF unwrap_or, Some
      <4> HIDE DEF x
      <4>2. x = 80 <=> <<x>> = <<80>>
        OBVIOUS
      <4> QED  BY <3>2, <4>1, <4>2 DEF Some
    <3> QED  BY <3>1, <3>2
  <2> QED  BY <1>2, <2>2, <2>4 DEF OnPort, HTTP_LISTENER_PORT
<1> QED  BY <1>1, <1>2

\* The listener that route_for asks, if there is one, is made of the one that takes
\* the request.
LEMMA ListenerTaking ==
  ASSUME table \in Tables
  PROVE  LET cfg == Configured(table)
             L == listener_by_port(cfg, HTTP_LISTENER_PORT)
         IN  /\ Takes = {} => L \notin DOMAIN cfg.listeners
             /\ \A i \in Takes : /\ L \in DOMAIN cfg.listeners
                                 /\ ConfiguredAs(cfg.listeners[L], Received(table), table.listeners[i])
             /\ \A i, j \in Takes : i = j
<1> DEFINE cfg == Configured(table)
           a == Received(table)
           L == listener_by_port(cfg, HTTP_LISTENER_PORT)
           ls == table.listeners
           V == values(a.listeners)
           ks == sorted_unique(DOMAIN a.listeners)
           P == {k \in DOMAIN cfg.listeners : cfg.listeners[k].bind.port = HTTP_LISTENER_PORT}
<1>1. Vector(ls) /\ \A i \in DOMAIN ls : ListenerFields(ls[i]) /\ ls[i].name \in Nat
  BY TablesAssumption, Zenon DEF ListenerFields, WellFormed
<1>2. /\ Holds(a.listeners, ls, ListenerValues(ls))
      /\ IsFiniteSet(DOMAIN a.listeners) /\ DOMAIN a.listeners \subseteq Nat
  BY TableReceived
<1>3. cfg = runtime_config(a, "1")
  BY DEF Configured, Received
<1>4. L = First(P)
  BY DEF listener_by_port
<1> HIDE DEF cfg, a, L, P
<1>5. /\ DOMAIN ks = 1..Cardinality(DOMAIN a.listeners) /\ Cardinality(DOMAIN a.listeners) \in Nat
      /\ \A k \in DOMAIN ks : ks[k] \in DOMAIN a.listeners
      /\ \A j, k \in DOMAIN ks : j < k => ks[j] < ks[k]
      /\ \A n \in DOMAIN a.listeners : \E k \in DOMAIN ks : ks[k] = n
  BY <1>2, SortedFacts, Zenon
<1>6. DOMAIN V = DOMAIN ks /\ \A k \in DOMAIN ks : V[k] = a.listeners[ks[k]]
  BY <1>2, ValuesFacts
<1>7. DOMAIN cfg.listeners = DOMAIN V
  BY <1>3, ConfigDomains
<1> HIDE DEF ks
<1>8. ASSUME NEW i \in InForce(ls)
      PROVE  ls[i].name \in DOMAIN a.listeners /\ a.listeners[ls[i].name] = listener_snapshot(ls[i])
  <2>1. i \in DOMAIN ls
    BY DEF InForce
  <2>2. ls[i].name \in DOMAIN a.listeners /\ a.listeners[ls[i].name] = ListenerValues(ls)[i]
    BY <1>2 DEF Holds
  <2>3. ListenerValues(ls)[i] = listener_snapshot(ls[i])
    BY <2>1 DEF ListenerValues
  <2> QED  BY <2>2, <2>3
<1>9. ASSUME NEW k \in DOMAIN ks, NEW i \in InForce(ls), ls[i].name = ks[k]
      PROVE  ConfiguredAs(cfg.listeners[k], a, ls[i]) /\ (k \in P <=> OnPort(ls[i]))
  <2>1. k \in DOMAIN V /\ V[k] = listener_snapshot(ls[i])
    BY <1>6, <1>8, <1>9
  <2>2. ConfiguredAs(cfg.listeners[k], a, ls[i])
    BY <1>3, <2>1, ConfigListener
  <2>3. cfg.listeners[k].bind.port = Port(ls[i])
    BY <2>2 DEF ConfiguredAs
  <2>4. ListenerFields(ls[i])
    BY <1>1 DEF InForce
  <2>5. k \in P <=> Port(ls[i]) = HTTP_LISTENER_PORT
    BY <1>7, <2>1, <2>3 DEF P
  <2> QED  BY <2>2, <2>4, <2>5, PortOnWire
<1>10. ASSUME NEW k \in DOMAIN ks PROVE \E i \in InForce(ls) : ls[i].name = ks[k]
  BY <1>2, <1>5 DEF Holds
<1>11. ASSUME NEW i \in InForce(ls) PROVE \E k \in DOMAIN ks : ks[k] = ls[i].name
  BY <1>5, <1>8
<1>12. P \subseteq DOMAIN ks /\ P \subseteq Nat
  BY <1>5, <1>6, <1>7 DEF P
<1>13. (P = {} => L = 0) /\ (P # {} => L \in P /\ \A k \in P : L <= k)
  BY <1>4, <1>12, FirstPosition
<1>14. ASSUME NEW i
       PROVE  i \in Takes <=>
                /\ i \in InForce(ls) /\ OnPort(ls[i])
                /\ \A j \in InForce(ls) : OnPort(ls[j]) => ls[i].name <= ls[j].name
  BY DEF Takes
<1> HIDE DEF ls, V
<1>15. ASSUME NEW i \in Takes, NEW j \in Takes PROVE i = j
  <2>1. i \in InForce(ls) /\ j \in InForce(ls) /\ ls[i].name <= ls[j].name /\ ls[j].name <= ls[i].name
    BY <1>14
  <2>2. ls[i].name \in Nat /\ ls[j].name \in Nat
    BY <1>1, <2>1 DEF InForce
  <2> QED  BY <1>1, <2>1, <2>2, InForceUnique
<1>16. ASSUME P # {} PROVE \E i \in Takes : ls[i].name = ks[L]
  <2>1. L \in DOMAIN ks /\ L \in P /\ L \in Nat /\ \A k \in P : L <= k
    BY <1>12, <1>13, <1>16
  <2>2. PICK i \in InForce(ls) : ls[i].name = ks[L]
    BY <1>10, <2>1
  <2>3. OnPort(ls[i])
    BY <1>9, <2>1, <2>2
  <2>4. ASSUME NEW j \in InForce(ls), OnPort(ls[j]) PROVE ls[i].name <= ls[j].name
    <3>1. PICK k \in DOMAIN ks : ks[k] = ls[j].name
      BY <1>11
    <3>2. k \in P /\ k \in Nat
      BY <1>9, <1>12, <2>4, <3>1
    <3>3. L <= k
      BY <2>1, <3>2
    <3>4. ks[L] \in Nat /\ ks[k] \in Nat
      BY <1>2, <1>5, <2>1, <3>1, Zenon
    <3>5. L = k \/ L < k
      BY <2>1, <3>2, <3>3
    <3>6. ks[L] <= ks[k]
      BY <1>5, <2>1, <3>4, <3>5
    <3> QED  BY <2>2, <3>1, <3>6
  <2> QED  BY <1>14, <2>2, <2>3, <2>4
<1>17. ASSUME NEW i \in Takes PROVE L \in DOMAIN cfg.listeners /\ ConfiguredAs(cfg.listeners[L], a, ls[i])
  <2>1. i \in InForce(ls) /\ OnPort(ls[i])
    BY <1>14
  <2>2. PICK k \in DOMAIN ks : ks[k] = ls[i].name
    BY <1>11, <2>1
  <2>3. P # {}
    BY <1>9, <2>1, <2>2
  <2>4. PICK j \in Takes : ls[j].name = ks[L]
    BY <1>16, <2>3
  <2>5. i = j /\ L \in DOMAIN ks
    BY <1>12, <1>13, <1>15, <2>3, <2>4
  <2> QED  BY <1>6, <1>7, <1>9, <2>1, <2>4, <2>5
<1>18. ASSUME Takes = {} PROVE L \notin DOMAIN cfg.listeners
  <2>1. P = {}
    BY <1>16, <1>18
  <2>2. L = 0 /\ 0 \notin DOMAIN ks
    BY <1>5, <1>13, <2>1
  <2> QED  BY <1>6, <1>7, <2>2
<1> QED  BY <1>15, <1>17, <1>18 DEF cfg, a, L, ls

-----------------------------------------------------------------------------
(* The route taken                                                         *)

\* What is taken for granted of the virtual hosts of the sources.
SourcesFields ==
  \A s \in Sources : \A h \in DOMAIN s.hosts : HostFields(s.hosts[h]) /\ Vector(s.hosts[h].routes)

\* The r-th route of the h-th virtual host of q matches the request.
Hit(q, h, r) ==
  /\ h \in DOMAIN q /\ r \in DOMAIN q[h].routes
  /\ matches_host(q[h], MatchInput(request).host)
  /\ route_matches(q[h].routes[r], MatchInput(request))

\* Where a route of the wire goes.
HostPlace(at, c) == at[c.source] + c.host
RoutePlace(c) == PlaceOf(c.source.hosts[c.host])[c.route]

\* The parts of a route of the wire.
LEMMA WireRouteParts ==
  ASSUME NEW c
  PROVE  c \in WireRoutes <=>
           \E s \in Sources : \E h \in DOMAIN s.hosts : \E r \in DOMAIN s.hosts[h].routes :
             c = [source |-> s, host |-> h, route |-> r]
BY DEF WireRoutes

\* A virtual host of a source is placed, and so are its routes.
LEMMA HostPlaced ==
  ASSUME SourcesFields, NEW q, NEW at, HostsPlaced(q, Sources, at),
         NEW s \in Sources, NEW h \in DOMAIN s.hosts
  PROVE  LET vh == s.hosts[h] IN
           /\ HostFields(vh) /\ at[s] + h \in DOMAIN q
           /\ q[at[s] + h].domains = vh.domains
           /\ RoutesPlaced(q[at[s] + h].routes, vh, PlaceOf(vh))
<1> DEFINE vh == s.hosts[h]
           k == at[s] + h
<1>1. HostFields(vh) /\ Vector(vh.routes)
  BY DEF SourcesFields
<1>2. k \in DOMAIN q /\ q[k] = Converted(vh)
  BY DEF HostsPlaced
<1> HIDE DEF vh, k
<1>3. \E ro : RoutesPlaced(Converted(vh).routes, vh, ro)
  BY <1>1, RoutesConverted
<1>4. RoutesPlaced(Converted(vh).routes, vh, PlaceOf(vh))
  BY <1>3, Zenon DEF PlaceOf
<1>5. Converted(vh).domains = vh.domains
  BY DEF Converted
<1> QED  BY <1>1, <1>2, <1>4, <1>5 DEF vh, k

\* A route that can have the request is found, with its destinations.
LEMMA CandidateFound ==
  ASSUME request \in Requests, SourcesFields, NEW q, NEW at, HostsPlaced(q, Sources, at),
         NEW c \in Candidates
  PROVE  /\ Hit(q, HostPlace(at, c), RoutePlace(c))
         /\ Names(q[HostPlace(at, c)].routes[RoutePlace(c)].weighted_clusters, WireRoute(c).clusters)
<1>1. /\ c \in WireRoutes /\ Hosts(c.source.hosts[c.host])
      /\ Forwards(WireRoute(c)) /\ Accepts(WireRoute(c))
  BY DEF Candidates
<1>2. PICK s \in Sources : \E h \in DOMAIN s.hosts : \E r \in DOMAIN s.hosts[h].routes :
        c = [source |-> s, host |-> h, route |-> r]
  BY <1>1, WireRouteParts
<1>3. PICK h \in DOMAIN s.hosts : \E r \in DOMAIN s.hosts[h].routes :
        c = [source |-> s, host |-> h, route |-> r]
  BY <1>2
<1> DEFINE vh == s.hosts[h]
           k == at[s] + h
<1>4. PICK r \in DOMAIN vh.routes : c = [source |-> s, host |-> h, route |-> r]
  BY <1>3
<1> DEFINE route == vh.routes[r]
           j == PlaceOf(vh)[r]
<1>5. c.source = s /\ c.host = h /\ c.route = r
  BY <1>4
<1>6. WireRoute(c) = route /\ HostPlace(at, c) = k /\ RoutePlace(c) = j
  BY <1>5 DEF WireRoute, HostPlace, RoutePlace
<1>7. Hosts(vh) /\ Forwards(route) /\ Accepts(route)
  BY <1>1, <1>5, <1>6
<1>8. /\ HostFields(vh) /\ k \in DOMAIN q /\ q[k].domains = vh.domains
      /\ RoutesPlaced(q[k].routes, vh, PlaceOf(vh))
  BY HostPlaced
<1> HIDE DEF vh, k
<1>9. convert_route(route) # <<>> /\ route_matches(convert_route(route)[1], MatchInput(request))
  BY <1>7, <1>8, RouteTaken
<1>10. j \in DOMAIN q[k].routes /\ q[k].routes[j] = convert_route(route)[1]
  BY <1>8, <1>9 DEF RoutesPlaced, Converts
<1>11. Vector(route.clusters)
  BY <1>8, ZenonT(20) DEF HostFields
<1> HIDE DEF route, j
<1>12. matches_host(q[k], MatchInput(request).host)
  BY <1>7, <1>8, HostMatches
<1>13. q[k].routes[j].weighted_clusters = Destinations(route)
  BY <1>9, <1>10, <1>11, RouteConverted
<1>14. Names(Destinations(route), route.clusters)
  BY <1>7, <1>11, RouteDestinations
<1> QED  BY <1>6, <1>8, <1>9, <1>10, <1>12, <1>13, <1>14, Zenon DEF Hit

\* What is found is a route that can have the request.
LEMMA FoundCandidate ==
  ASSUME request \in Requests, SourcesFields, NEW q, NEW at, HostsPlaced(q, Sources, at),
         NEW k, NEW j, Hit(q, k, j)
  PROVE  \E c \in Candidates : k = HostPlace(at, c) /\ j = RoutePlace(c)
<1>1. PICK s \in Sources : \E h \in DOMAIN s.hosts : k = at[s] + h
  BY Zenon DEF Hit, HostsPlaced
<1>2. PICK h \in DOMAIN s.hosts : k = at[s] + h
  BY <1>1
<1> DEFINE vh == s.hosts[h]
<1>3. /\ HostFields(vh) /\ q[k].domains = vh.domains
      /\ RoutesPlaced(q[k].routes, vh, PlaceOf(vh))
  BY <1>2, HostPlaced
<1>4. PICK r \in DOMAIN vh.routes : Converts(vh, r) /\ j = PlaceOf(vh)[r]
  BY <1>3, Zenon DEF Hit, RoutesPlaced
<1> DEFINE route == vh.routes[r]
           c == [source |-> s, host |-> h, route |-> r]
<1>5. c \in WireRoutes /\ c.source = s /\ c.host = h /\ c.route = r
  BY WireRouteParts
<1> HIDE DEF c
<1>6. WireRoute(c) = route /\ HostPlace(at, c) = k /\ RoutePlace(c) = j
  BY <1>2, <1>4, <1>5 DEF WireRoute, HostPlace, RoutePlace
<1>7. c.source.hosts[c.host] = vh
  BY <1>5
<1> HIDE DEF vh
<1>8. q[k].routes[j] = convert_route(route)[1] /\ convert_route(route) # <<>>
  BY <1>3, <1>4, ZenonT(20) DEF RoutesPlaced, Converts
<1>9. Forwards(route) /\ Accepts(route)
  BY <1>3, <1>8, RouteTaken, ZenonT(20) DEF Hit
<1>10. Hosts(vh)
  BY <1>3, HostMatches DEF Hit
<1>11. c \in Candidates
  BY <1>5, <1>6, <1>7, <1>9, <1>10 DEF Candidates
<1> QED  BY <1>6, <1>11

\* The order of what is found is the order of the wire.
LEMMA FoundInOrder ==
  ASSUME request \in Requests, SourcesFields, NEW q, NEW at, HostsPlaced(q, Sources, at),
         NEW c \in Candidates, NEW d \in Candidates,
         \/ HostPlace(at, c) < HostPlace(at, d)
         \/ HostPlace(at, c) = HostPlace(at, d) /\ RoutePlace(c) <= RoutePlace(d)
  PROVE  UpTo(c, d)
<1>1. ASSUME NEW e \in Candidates
      PROVE  /\ e.source \in Sources /\ e.host \in DOMAIN e.source.hosts
             /\ e.route \in DOMAIN e.source.hosts[e.host].routes
             /\ Converts(e.source.hosts[e.host], e.route)
  <2>1. PICK s \in Sources : \E h \in DOMAIN s.hosts : \E r \in DOMAIN s.hosts[h].routes :
          e = [source |-> s, host |-> h, route |-> r]
    BY WireRouteParts DEF Candidates
  <2>2. PICK h \in DOMAIN s.hosts : \E r \in DOMAIN s.hosts[h].routes :
          e = [source |-> s, host |-> h, route |-> r]
    BY <2>1
  <2>3. PICK r \in DOMAIN s.hosts[h].routes : e = [source |-> s, host |-> h, route |-> r]
    BY <2>2
  <2>4. e.source = s /\ e.host = h /\ e.route = r
    BY <2>3
  <2>5. HostFields(s.hosts[h])
    BY DEF SourcesFields
  <2>6. Forwards(s.hosts[h].routes[r]) /\ Accepts(s.hosts[h].routes[r])
    BY <2>4, Zenon DEF Candidates, WireRoute
  <2>7. Converts(s.hosts[h], r)
    BY <2>5, <2>6, RouteTaken DEF Converts
  <2> QED  BY <2>4, <2>7
<1> DEFINE s == c.source
           h == c.host
           u == d.source
           g == d.host
<1>2. /\ at[s] + h < at[u] + g => SourceBefore(s, u) \/ (s = u /\ h < g)
      /\ at[s] + h = at[u] + g => s = u /\ h = g
  BY <1>1 DEF HostsPlaced
<1>3. CASE HostPlace(at, c) < HostPlace(at, d)
  BY <1>2, <1>3 DEF HostPlace, UpTo
<1>4. CASE HostPlace(at, c) = HostPlace(at, d) /\ RoutePlace(c) <= RoutePlace(d)
  <2>1. s = u /\ h = g
    BY <1>2, <1>4 DEF HostPlace
  <2> DEFINE vh == s.hosts[h]
             ro == PlaceOf(vh)
  <2>2. RoutesPlaced(q[at[s] + h].routes, vh, ro)
    BY <1>1, HostPlaced
  <2>3. ro[c.route] <= ro[d.route]
    BY <1>4, <2>1, ZenonT(20) DEF RoutePlace
  <2>4. /\ c.route \in DOMAIN vh.routes /\ Converts(vh, c.route)
        /\ d.route \in DOMAIN vh.routes /\ Converts(vh, d.route)
    BY <1>1, <2>1
  <2> HIDE DEF vh, ro
  <2>5. c.route <= d.route
    BY <2>2, <2>3, <2>4 DEF RoutesPlaced
  <2> QED  BY <2>1, <2>5 DEF UpTo
<1> QED  BY <1>3, <1>4

\* The sources are those of the one listener that takes the request.
LEMMA SourcesOfListener ==
  ASSUME table \in Tables, NEW i \in Takes
  PROVE  /\ Sources = Own(table.listeners[i]) \cup Discovered(table.listeners[i])
         /\ ListenerFields(table.listeners[i]) /\ SourcesFields
<1> DEFINE l == table.listeners[i]
<1>1. \A j \in Takes : j = i
  BY ListenerTaking
<1>2. Sources = Own(l) \cup Discovered(l)
  BY <1>1 DEF Sources
<1>3. ListenerFields(l)
  BY TablesAssumption DEF Takes, InForce
<1> HIDE DEF l
<1>4. ASSUME NEW s \in Own(l), NEW h \in DOMAIN s.hosts PROVE HostFields(s.hosts[h]) /\ Vector(s.hosts[h].routes)
  <2>1. PICK m \in DOMAIN l.managers : s.hosts = l.managers[m].virtual_hosts
    BY DEF Own
  <2>2. VirtualHosts(l.managers[m].virtual_hosts)
    BY <1>3 DEF ListenerFields, WellFormed
  <2> QED  BY <1>3, <2>1, <2>2, Zenon DEF ListenerFields, VirtualHosts
<1>5. ASSUME NEW s \in Discovered(l), NEW h \in DOMAIN s.hosts
      PROVE  HostFields(s.hosts[h]) /\ Vector(s.hosts[h].routes)
  <2>1. PICK j \in DOMAIN table.routes : s.hosts = table.routes[j].virtual_hosts
    BY DEF Discovered, InForce
  <2>2. RouteFields(table.routes[j])
    BY TablesAssumption
  <2>3. VirtualHosts(table.routes[j].virtual_hosts)
    BY <2>2 DEF RouteFields, WellFormed
  <2> QED  BY <2>1, <2>2, <2>3 DEF RouteFields, VirtualHosts
<1>6. SourcesFields
  BY <1>2, <1>4, <1>5 DEF SourcesFields
<1> QED  BY <1>2, <1>3, <1>6 DEF l

\* A position is before another, or the same.
Before(p, q) == p[2] < q[2] \/ (p[2] = q[2] /\ p[3] <= q[3])

\* Some position comes first.
LEMMA FirstFound ==
  ASSUME NEW F, F # {}, NEW L,
         \A p \in F : p = <<L, p[2], p[3]>> /\ p[2] \in Nat /\ p[3] \in Nat
  PROVE  \E p \in F : \A q \in F : Before(p, q)
<1> DEFINE H == {p[2] : p \in F}
<1>1. H \subseteq Nat /\ H # {} /\ \A p \in F : p[2] \in H
  OBVIOUS
<1>2. PICK h \in H : \A k \in H : h <= k
  BY <1>1, Least, Zenon
<1> DEFINE R == {p[3] : p \in {p \in F : p[2] = h}}
<1>3. R \subseteq Nat /\ R # {} /\ \A p \in F : p[2] = h => p[3] \in R
  BY <1>2
<1>4. PICK r \in R : \A k \in R : r <= k
  BY <1>3, Least, Zenon
<1>5. PICK p \in F : p[2] = h /\ p[3] = r
  BY <1>4
<1>6. ASSUME NEW q \in F PROVE Before(p, q)
  <2>1. h <= q[2] /\ (q[2] = h => r <= q[3])
    BY <1>1, <1>2, <1>3, <1>4, Zenon
  <2>2. h \in Nat /\ q[2] \in Nat
    BY <1>1, <1>2
  <2>3. h < q[2] \/ h = q[2]
    BY <2>1, <2>2
  <2> QED  BY <1>5, <2>1, <2>3 DEF Before
<1> QED  BY <1>6

\* route_for takes the first route on the wire that can have the request.
LEMMA RouteFor ==
  ASSUME table \in Tables, request \in Requests
  PROVE  LET cfg == Configured(table)
             p == route_for(cfg, HTTP_LISTENER_PORT, MatchInput(request))
         IN  IF Candidates = {} THEN p = <<>>
             ELSE /\ p # <<>>
                  /\ \E c \in Candidates :
                       /\ \A d \in Candidates : UpTo(c, d)
                       /\ Names(RouteAt(cfg, p).weighted_clusters, WireRoute(c).clusters)
<1> DEFINE cfg == Configured(table)
           input == MatchInput(request)
           L == listener_by_port(cfg, HTTP_LISTENER_PORT)
           F == {p \in RoutePositions(cfg) :
                   /\ p[1] = L
                   /\ matches_host(cfg.listeners[L].virtual_hosts[p[2]], input.host)
                   /\ route_matches(RouteAt(cfg, p), input)}
           p0 == route_for(cfg, HTTP_LISTENER_PORT, input)
           q == cfg.listeners[L].virtual_hosts
<1>1. p0 = IF F = {} THEN <<>> ELSE CHOOSE p \in F : \A r \in F : Before(p, r)
  BY DEF route_for, Before
<1>2. ASSUME NEW p
      PROVE  p \in RoutePositions(cfg) <=>
               \E l \in DOMAIN cfg.listeners : \E h \in DOMAIN cfg.listeners[l].virtual_hosts :
                 \E r \in DOMAIN cfg.listeners[l].virtual_hosts[h].routes : p = <<l, h, r>>
  BY DEF RoutePositions
<1>3. /\ Takes = {} => L \notin DOMAIN cfg.listeners
      /\ \A i \in Takes : /\ L \in DOMAIN cfg.listeners
                          /\ ConfiguredAs(cfg.listeners[L], Received(table), table.listeners[i])
  BY ListenerTaking
<1> HIDE DEF cfg, L, p0
<1>4. ASSUME NEW p
      PROVE  p \in F <=> /\ L \in DOMAIN cfg.listeners
                         /\ \E h, r : p = <<L, h, r>> /\ Hit(q, h, r)
  <2>1. ASSUME p \in F PROVE L \in DOMAIN cfg.listeners /\ \E h, r : p = <<L, h, r>> /\ Hit(q, h, r)
    <3>1. PICK h \in DOMAIN cfg.listeners[L].virtual_hosts :
            \E r \in DOMAIN cfg.listeners[L].virtual_hosts[h].routes : p = <<L, h, r>> /\ L \in DOMAIN cfg.listeners
      BY <1>2, <2>1
    <3>2. PICK r \in DOMAIN cfg.listeners[L].virtual_hosts[h].routes : p = <<L, h, r>> /\ L \in DOMAIN cfg.listeners
      BY <3>1
    <3>3. Hit(q, h, r)
      BY <2>1, <3>2, ZenonT(20) DEF Hit, RouteAt
    <3> QED  BY <3>2, <3>3
  <2>2. ASSUME L \in DOMAIN cfg.listeners, NEW h, NEW r, p = <<L, h, r>>, Hit(q, h, r) PROVE p \in F
    <3>1. p \in RoutePositions(cfg)
      BY <1>2, <2>2 DEF Hit
    <3> QED  BY <2>2, <3>1, ZenonT(20) DEF Hit, RouteAt
  <2> QED  BY <2>1, <2>2
<1> HIDE DEF F, q
<1>5. CASE Takes = {}
  <2>1. F = {}
    BY <1>3, <1>4, <1>5
  <2>2. Candidates = {}
    BY <1>5 DEF Candidates, WireRoutes, Sources
  <2> QED  BY <1>1, <2>1, <2>2 DEF cfg, p0
<1>6. ASSUME NEW i \in Takes
      PROVE  IF Candidates = {} THEN p0 = <<>>
             ELSE /\ p0 # <<>>
                  /\ \E c \in Candidates :
                       /\ \A d \in Candidates : UpTo(c, d)
                       /\ Names(RouteAt(cfg, p0).weighted_clusters, WireRoute(c).clusters)
  <2> DEFINE l == table.listeners[i]
             a == Received(table)
  <2>1. L \in DOMAIN cfg.listeners /\ ConfiguredAs(cfg.listeners[L], a, l)
    BY <1>3
  <2>2. Sources = Own(l) \cup Discovered(l) /\ ListenerFields(l) /\ SourcesFields
    BY SourcesOfListener
  <2>3. Holds(a.routes, table.routes, RouteValues(table.routes))
    BY TableReceived
  <2> HIDE DEF l, a
  <2>4. q = listener_snapshot(l).inline_virtual_hosts \o Routed(a, listener_snapshot(l))
    BY <2>1 DEF ConfiguredAs, q
  <2>5. PICK at : HostsPlaced(q, Sources, at)
    BY <2>2, <2>3, <2>4, SourcesPlaced, Zenon
  <2>6. \A p : p \in F <=> \E h, r : p = <<L, h, r>> /\ Hit(q, h, r)
    BY <1>4, <2>1
  <2>7. ASSUME NEW c \in Candidates
        PROVE  /\ <<L, HostPlace(at, c), RoutePlace(c)>> \in F
               /\ Names(q[HostPlace(at, c)].routes[RoutePlace(c)].weighted_clusters, WireRoute(c).clusters)
    BY <2>2, <2>5, <2>6, CandidateFound
  <2>8. ASSUME NEW p \in F
        PROVE  \E c \in Candidates : p = <<L, HostPlace(at, c), RoutePlace(c)>>
    <3>1. PICK h, r : p = <<L, h, r>> /\ Hit(q, h, r)
      BY <2>6
    <3>2. \E c \in Candidates : h = HostPlace(at, c) /\ r = RoutePlace(c)
      BY <2>2, <2>5, <3>1, FoundCandidate
    <3> QED  BY <3>1, <3>2
  <2>9. CASE Candidates = {}
    BY <1>1, <2>8, <2>9
  <2>10. CASE Candidates # {}
    <3>1. F # {}
      <4>1. PICK c \in Candidates : TRUE
        BY <2>10
      <4>2. <<L, HostPlace(at, c), RoutePlace(c)>> \in F
        BY <2>7
      <4> QED  BY <4>2
    <3>2. ASSUME NEW p \in F PROVE p = <<L, p[2], p[3]>> /\ p[2] \in Nat /\ p[3] \in Nat
      <4>1. PICK h, r : p = <<L, h, r>> /\ Hit(q, h, r)
        BY <2>6
      <4>2. h \in Nat
        BY <2>5, <4>1 DEF Hit, HostsPlaced, Vector
      <4>3. PICK s \in Sources : \E g \in DOMAIN s.hosts : h = at[s] + g
        BY <2>5, <4>1 DEF Hit, HostsPlaced
      <4>4. PICK g \in DOMAIN s.hosts : h = at[s] + g
        BY <4>3
      <4>5. RoutesPlaced(q[at[s] + g].routes, s.hosts[g], PlaceOf(s.hosts[g]))
        BY <2>2, <2>5, HostPlaced, ZenonT(20)
      <4>6. r \in Nat
        BY <4>1, <4>4, <4>5, Zenon DEF Hit, RoutesPlaced
      <4> QED  BY <4>1, <4>2, <4>6
    <3>3. \E p \in F : \A r \in F : Before(p, r)
      BY <3>1, <3>2, FirstFound, Zenon
    <3>4. p0 \in F /\ \A r \in F : Before(p0, r)
      BY <1>1, <3>1, <3>3, Zenon
    <3>5. PICK c \in Candidates : p0 = <<L, HostPlace(at, c), RoutePlace(c)>>
      BY <2>8, <3>4
    <3>6. ASSUME NEW d \in Candidates PROVE UpTo(c, d)
      <4> DEFINE r == <<L, HostPlace(at, d), RoutePlace(d)>>
      <4>1. Before(p0, r)
        BY <2>7, <3>4
      <4>2. \/ HostPlace(at, c) < HostPlace(at, d)
            \/ HostPlace(at, c) = HostPlace(at, d) /\ RoutePlace(c) <= RoutePlace(d)
        BY <3>5, <4>1 DEF Before
      <4> QED  BY <2>2, <2>5, <4>2, FoundInOrder
    <3>7. RouteAt(cfg, p0) = q[HostPlace(at, c)].routes[RoutePlace(c)]
      BY <3>5 DEF RouteAt, q
    <3>8. p0 # <<>>
      BY <3>5
    <3>9. Names(RouteAt(cfg, p0).weighted_clusters, WireRoute(c).clusters)
      BY <2>7, <3>7, Zenon
    <3> QED  BY <2>10, <3>6, <3>8, <3>9
  <2> QED  BY <2>9, <2>10
<1> QED  BY <1>5, <1>6 DEF cfg, p0

\* Whatever the control plane sends and whatever is asked, what forward takes the
\* request to is what a direct reading of the resources says.
THEOREM RoutedAsConfigured == Spec => []RoutesAsConfigured
<1> DEFINE Inv == table \in Tables /\ request \in Requests /\ RoutesAsConfigured
<1>1. Init => Inv
  BY DEF Init, RoutesAsConfigured
<1>2. Inv /\ [Next]_vars => Inv'
  <2> SUFFICES ASSUME Inv, [Next]_vars PROVE Inv'
    OBVIOUS
  <2>1. ASSUME table' = table, request' = request PROVE Candidates' = Candidates
    <3>1. Sources' = Sources
      BY <2>1 DEF Sources, Takes, Own, Discovered
    <3>2. WireRoutes' = WireRoutes
      BY <3>1 DEF WireRoutes
    <3>3. ASSUME NEW vh PROVE Hosts(vh)' <=> Hosts(vh)
      BY <2>1 DEF Hosts, WireHost
    <3>4. ASSUME NEW route PROVE Accepts(route)' <=> Accepts(route)
      BY <2>1 DEF Accepts
    <3> QED  BY <3>2, <3>3, <3>4 DEF Candidates
  <2>2. CASE UNCHANGED vars
    <3>1. table' = table /\ request' = request /\ answer' = answer
      BY <2>2 DEF vars
    <3>2. Candidates' = Candidates
      BY <2>1, <3>1
    <3> QED  BY <3>1, <3>2 DEF RoutesAsConfigured
  <2>3. CASE Next
    <3> DEFINE cfg == Configured(table)
               p == route_for(cfg, HTTP_LISTENER_PORT, MatchInput(request))
               ws == RouteAt(cfg, p).weighted_clusters
    <3>1. /\ table' = table /\ request' = request
          /\ answer' = IF p = <<>> THEN NotFound ELSE [found |-> TRUE, destinations |-> ws]
      BY <2>3 DEF Next, Route
    <3>2. IF Candidates = {} THEN p = <<>>
          ELSE /\ p # <<>>
               /\ \E c \in Candidates : /\ \A d \in Candidates : UpTo(c, d)
                                        /\ Names(ws, WireRoute(c).clusters)
      BY RouteFor
    <3> HIDE DEF p, ws
    <3>3. Candidates' = Candidates
      BY <2>1, <3>1
    <3>4. IF Candidates = {} THEN answer' = NotFound
          ELSE \E c \in Candidates : /\ \A d \in Candidates : UpTo(c, d)
                                     /\ answer'.found /\ Names(answer'.destinations, WireRoute(c).clusters)
      <4>1. CASE Candidates = {}
        BY <3>1, <3>2, <4>1
      <4>2. CASE Candidates # {}
        <5>1. answer' = [found |-> TRUE, destinations |-> ws]
          BY <3>1, <3>2, <4>2
        <5>2. answer'.found /\ answer'.destinations = ws
          BY <5>1
        <5> QED  BY <3>2, <4>2, <5>2
      <4> QED  BY <4>1, <4>2
    <3>5. RoutesAsConfigured'
      BY <3>3, <3>4 DEF RoutesAsConfigured
    <3> QED  BY <3>1, <3>5
  <2> QED  BY <2>2, <2>3
<1> QED  BY <1>1, <1>2, PTL DEF Spec
==============================================================================

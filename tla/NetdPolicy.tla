------------------------------ MODULE NetdPolicy ------------------------------
(***************************************************************************)
(* A network policy from its source to a decision: the host reads and      *)
(* validates it (NetworkPolicy), netd compiles the canonical document      *)
(* (net/netd/internal/policy: load.go, forward.go, hostmatch.go) and       *)
(* decides flows and requests with it (model.go, eval.go).                 *)
(*                                                                         *)
(* Where netd ranges over a Go map the order is not determined: a lookup   *)
(* that may have several answers is the set of them.  Addresses are        *)
(* abstract and a CIDR is [ok, of], the set of addresses in it.            *)
(***************************************************************************)
EXTENDS NetworkPolicy

CONSTANTS PolicySources,  \* the sources: pairs of a form ("hcl" or "json") and a body
          Flows,          \* flows the gateway asks about
          Requests        \* requests the proxies ask about

VARIABLES polSource,      \* the source at hand
          polStage,       \* how far it has come
          canonical,      \* the canonical document of the host
          compiled,       \* netd's policy
          polAsked,       \* the flow or the request decided last
          decision        \* and netd's answer

polVars == <<polSource, polStage, canonical, compiled, polAsked, decision>>

-----------------------------------------------------------------------------
\* load.go: compiling the canonical document; {} where it returns an error.

PortsLess(r, s) == r.start < s.start \/ (r.start = s.start /\ r.end < s.end)


normalizePortRanges(ranges) ==
  LET merge(merged, r) ==
        IF merged = <<>> THEN <<r>>
        ELSE LET last == Last(merged) IN
             IF r.start <= last.end + 1
             THEN ReplaceAt(merged, Len(merged), [last EXCEPT !.end = Max({last.end, r.end})])
             ELSE Append(merged, r)
  IN FoldLeft(merge, <<>>, SortSeq(ranges, PortsLess))

compileIPEndpoint(e) ==
  IF /\ e.source # <<>> \/ e.destination # <<>>
     /\ e.protocol = "any" => e.ports = <<>>
     /\ \A c \in Range(e.source) \cup Range(e.destination) : c.ok
  THEN {[name |-> e.name, kind |-> e.kind, protocol |-> e.protocol, ports |-> normalizePortRanges(e.ports),
         source |-> {c.of : c \in Range(e.source)}, destination |-> {c.of : c \in Range(e.destination)}, hosts |-> {}]}
  ELSE {}

\* ParseBinding: the port is explicit or the default of the kind.
ParseBinding(h, port) == [labels |-> h.labels, wild |-> h.wild, port |-> IF h.port = 0 THEN port ELSE h.port]

compileHTTPEndpointDecl(e) ==
  IF e.hosts # <<>> /\ \A h \in Range(e.hosts) : h.good
  THEN {[name |-> e.name, kind |-> e.kind, protocol |-> "", ports |-> <<>>, source |-> {}, destination |-> {},
         hosts |-> {ParseBinding(h, Plugins[e.kind].port) : h \in Range(e.hosts)}]}
  ELSE {}

compileRegistryEndpointDecl(e) ==
  IF /\ e.registries # <<>> /\ IsInjective(e.registries) /\ Range(e.registries) \subseteq {"npm", "pypi"}
     /\ e.hosts = registry_hosts(e.registries)
     /\ \E url \in e.feed : parse_https_origin(url) # {} /\ e.egress = parse_https_origin(url)
     /\ \A a \in e.age : a > 0
  THEN compileHTTPEndpointDecl(e) ELSE {}

CompileEndpoint(e) ==
  IF e.name = "" \/ e.kind \notin DOMAIN Plugins \/ ~validate_endpoint_descriptor(e, Plugins[e.kind]) THEN {}
  ELSE CASE Plugins[e.kind].schema = "ip" -> compileIPEndpoint(e)
         [] Plugins[e.kind].schema = "hosts" -> compileHTTPEndpointDecl(e)
         [] Plugins[e.kind].schema = "registries" -> compileRegistryEndpointDecl(e)

\* addHTTPEndpoint: an exact binding is taken once for every transport.
BindingsApart(endpoints) ==
  \A i, j \in DOMAIN endpoints : i # j /\ Plugins[endpoints[i].kind].transport = Plugins[endpoints[j].kind].transport =>
    {b \in endpoints[i].hosts : ~b.wild} \cap {b \in endpoints[j].hosts : ~b.wild} = {}

addCredentialDecl(p, c) ==
  /\ c.kind \in CredentialKinds /\ c.name # ""
  /\ \E e \in Range(p.endpoints) : e.name = c.endpoint /\ Plugins[e.kind].credentials
  /\ \A x \in c.condition : x.ok

addRuleDecl(p, r) ==
  /\ r.endpoints # <<>> /\ \A n \in Range(r.endpoints) : \E e \in Range(p.endpoints) : e.name = n
  /\ LET families == {Plugins[Named_(p.endpoints, n).kind].family : n \in Range(r.endpoints)} IN
     /\ Cardinality(families) = 1
     /\ r.tunnel # {} => r.tunnel = Range(p.tailscale) /\ families = {"ip"} /\ r.verdict = "allow"
     /\ \A c \in r.condition : families # {"ip"} /\ c.ok
     /\ \A n \in r.credential :
          /\ \E c \in Range(p.credentials) : c.name = n
          /\ families = {"http"}
          /\ Named_(p.credentials, n).endpoint \in Range(r.endpoints)
  /\ r.verdict \in {"allow", "deny"}

\* Only forwards of the tailnet to the machine itself are implemented.
compileForwards(p) ==
  /\ \A f \in Range(p.forwards) :
       /\ valid_identifier(f.name) /\ f.kind = "tailscale" /\ f.target = "self"
       /\ p.tailscale # <<>> /\ f.tunnel \subseteq Range(p.tailscale)
       /\ f.protocol = "tcp" => f.tls = {}
       /\ f.protocol = "https" => f.tls # {}
       /\ f.listen.colon /\ f.listen.port \in PORTS \ {22} /\ f.target_port # 0
  /\ Distinct(p.forwards, NameOf)
  /\ \A i, j \in DOMAIN p.forwards : i # j => p.forwards[i].listen.port # p.forwards[j].listen.port

\* sortRules by priority, lowest first.
sortRulesAscending(rules) ==
  LET before(i, j) == rules[i].priority < rules[j].priority \/ (rules[i].priority = rules[j].priority /\ i < j)
      order == SortSeq([i \in DOMAIN rules |-> i], before)
  IN [i \in DOMAIN rules |-> rules[order[i]]]

\* sortRules: a stable sort, highest priority first.
sortRules(rules) ==
  LET before(i, j) == rules[i].priority > rules[j].priority \/ (rules[i].priority = rules[j].priority /\ i < j)
      order == SortSeq([i \in DOMAIN rules |-> i], before)
  IN [i \in DOMAIN rules |-> rules[order[i]]]

\* Disabled rules are checked and then left out; the others are kept for each family.
RulesByFamily(p) ==
  [f \in {"ip", "http", "package"} |->
     sortRules(SelectSeq(p.rules, LAMBDA r : ~r.disabled /\ Plugins[Named_(p.endpoints, r.endpoints[1]).kind].family = f))]

compileNetworkPolicy(p) ==
  LET built == [i \in DOMAIN p.endpoints |-> CompileEndpoint(p.endpoints[i])]
      endpoints == [i \in DOMAIN p.endpoints |-> CHOOSE e \in built[i] : TRUE]
  IN IF /\ p.version = 1
        /\ Len(p.tailscale) <= 1 /\ \A n \in Range(p.tailscale) : n # "silo" /\ valid_identifier(n)
        /\ compileForwards(p)
        /\ \A i \in DOMAIN built : built[i] # {}
        /\ Distinct(p.endpoints, NameOf) /\ BindingsApart(endpoints)
        /\ Distinct(p.credentials, NameOf) /\ \A c \in Range(p.credentials) : addCredentialDecl(p, c)
        /\ \A r \in Range(p.rules) : addRuleDecl(p, r)
     THEN {[default |-> p.default, endpoints |-> Range(endpoints), credentials |-> Range(p.credentials), rules |-> RulesByFamily(p)]}
     ELSE {}

-----------------------------------------------------------------------------
\* model.go and eval.go: deciding.

\* IPEndpoint.match.
MatchesFlow(e, flow) ==
  /\ e.protocol \in {"any", flow.protocol}
  /\ e.ports = <<>> \/ \E r \in Range(e.ports) : flow.port \in r.start..r.end
  /\ e.source = {} \/ flow.from \in UNION e.source
  /\ e.destination = {} \/ flow.to \in UNION e.destination

EndpointNamed(p, name) == CHOOSE e \in p.endpoints : e.name = name

CanClassify(p, flow) ==
  flow.protocol = "tcp" /\ \E e \in p.endpoints : \E b \in e.hosts : b.port = flow.port

EvaluateFlow(p, flow) ==
  LET applies(r) == /\ r.tunnel # {} => flow.tailnet
                    /\ \E n \in Range(r.endpoints) : MatchesFlow(EndpointNamed(p, n), flow)
      first == SelectSeq(p.rules["ip"], applies)
  IN IF first # <<>>
     THEN [action |-> first[1].verdict, rule |-> first[1].name, tunnel |-> first[1].tunnel,
           classify |-> first[1].tunnel = {} /\ first[1].verdict = "allow" /\ CanClassify(p, flow)]
     ELSE [action |-> p.default, rule |-> {}, tunnel |-> {}, classify |-> CanClassify(p, flow)]

\* Binding.Matches: a wildcard stands for one label or more.
MatchesHost(b, authority) ==
  /\ b.port = authority.port
  /\ IF b.wild THEN Len(authority.labels) > Len(b.labels) /\ SubSeq(authority.labels, 1, Len(b.labels)) = b.labels
     ELSE authority.labels = b.labels

\* matchHTTPFamilyHost: an exact binding, otherwise the longest wildcard; the endpoints are a map.
MatchHTTPFamilyHost(p, kind, authority) ==
  LET family == {e \in p.endpoints : Plugins[e.kind].transport = Plugins[kind].transport}
      exact == {e \in family : \E b \in e.hosts : ~b.wild /\ MatchesHost(b, authority)}
      suffixes(e) == {Len(b.labels) : b \in {x \in e.hosts : x.wild /\ MatchesHost(x, authority)}}
      longest == Max({0} \cup UNION {suffixes(e) : e \in family})
  IN IF exact # {} THEN exact ELSE {e \in family : longest \in suffixes(e)}

\* A condition is an error when the query does not parse, whatever it asks.
Outcome(conditions, request) ==
  IF conditions = {} THEN "true"
  ELSE IF ~request.query THEN "error" ELSE (CHOOSE c \in conditions : TRUE).on[request.class]

\* selectedCredential, with no care for a second credential that matches.
selectedCredentialFirst(p, endpoint, request) ==
  LET held == {c \in p.credentials : c.endpoint = endpoint.name}
      matching == {c \in held : Outcome(c.condition, request) = "true"}
  IN [ok |-> \A c \in held : Outcome(c.condition, request) # "error",
      credential |-> IF matching = {} THEN {} ELSE {(CHOOSE c \in matching : TRUE).name}]

selectedCredential(p, endpoint, request) ==
  LET held == {c \in p.credentials : c.endpoint = endpoint.name}
      matching == {c \in held : Outcome(c.condition, request) = "true"}
  IN [ok |-> Cardinality(matching) <= 1 /\ \A c \in held : Outcome(c.condition, request) # "error",
      credential |-> {c.name : c \in matching}]

Deny(why) == [action |-> "deny", rule |-> {}, credential |-> {}, why |-> why]
ByDefault(p) == [action |-> p.default, rule |-> {}, credential |-> {}, why |-> "default"]

\* The first rule of the family that refers to the endpoint and whose predicates hold; an error on the way denies.
FirstRule(p, family, endpoint, credential, request) ==
  LET refers(r) == endpoint.name \in Range(r.endpoints) /\ r.credential \subseteq credential /\ Outcome(r.condition, request) # "false"
      first == SelectSeq(p.rules[family], refers)
  IN IF first = <<>> THEN ByDefault(p)
     ELSE IF Outcome(first[1].condition, request) = "error" THEN [Deny("condition_error") EXCEPT !.rule = first[1].name]
     ELSE [action |-> first[1].verdict, rule |-> first[1].name, why |-> "rule",
           credential |-> IF first[1].verdict = "allow" THEN credential ELSE {}]

\* EvaluateHTTP for the endpoint that the lookup may answer.
DecideAt(p, endpoint, request) ==
  LET chosen == selectedCredential(p, endpoint, request) IN
  IF ~chosen.ok THEN Deny("credential") ELSE FirstRule(p, "http", endpoint, chosen.credential, request)

EvaluateHTTP(p, request) ==
  LET authority == [labels |-> request.labels, port |-> IF request.port = 0 THEN Plugins[request.kind].port ELSE request.port]
      found == MatchHTTPFamilyHost(p, request.kind, authority)
  IN IF ~request.good THEN {Deny("missing_host")}
     ELSE IF found = {} THEN {ByDefault(p)} ELSE {DecideAt(p, e, request) : e \in found}

\* EvaluatePackage: the registry gateway names the endpoint itself.
EvaluatePackage(p, name, request) ==
  IF ~ \E e \in p.endpoints : e.name = name THEN Deny("unknown") ELSE FirstRule(p, "package", EndpointNamed(p, name), {}, request)

-----------------------------------------------------------------------------
PolInit ==
  /\ polSource \in PolicySources
  /\ polStage = "source"
  /\ canonical = {} /\ compiled = {}
  /\ polAsked = {} /\ decision = {}

\* NetworkPolicy::from_source on the host.
LoadPolicy ==
  /\ polStage = "source"
  /\ canonical' = IF polSource[1] = "hcl" THEN from_hcl_source(polSource[2]) ELSE from_json_source(polSource[2])
  /\ polStage' = IF canonical' = {} THEN "refused" ELSE "canonical"
  /\ UNCHANGED <<polSource, compiled, polAsked, decision>>

\* policy.LoadReader when netd starts for a machine.
LoadReader ==
  /\ polStage = "canonical"
  /\ compiled' = UNION {compileNetworkPolicy(p) : p \in canonical}
  /\ polStage' = IF compiled' = {} THEN "unloadable" ELSE "running"
  /\ UNCHANGED <<polSource, canonical, polAsked, decision>>

\* The gateway asks about a flow, a proxy about a request.
DecideFlow(flow) ==
  /\ polStage = "running" /\ polAsked = {}
  /\ polAsked' = {<<"flow", flow>>}
  /\ decision' = {EvaluateFlow(p, flow) : p \in compiled}
  /\ UNCHANGED <<polSource, polStage, canonical, compiled>>

DecideHTTP(request) ==
  /\ polStage = "running" /\ polAsked = {} /\ request.kind # "registries"
  /\ polAsked' = {<<"http", request>>}
  /\ \E p \in compiled : \E d \in EvaluateHTTP(p, request) : decision' = {d}
  /\ UNCHANGED <<polSource, polStage, canonical, compiled>>

DecidePackage(request) ==
  /\ polStage = "running" /\ polAsked = {} /\ request.kind = "registries"
  /\ polAsked' = {<<"package", request>>}
  /\ \E p \in compiled : \E e \in {x \in p.endpoints : x.kind = "registries"} : decision' = {EvaluatePackage(p, e.name, request)}
  /\ UNCHANGED <<polSource, polStage, canonical, compiled>>

PolNext ==
  \/ LoadPolicy \/ LoadReader
  \/ \E flow \in Flows : DecideFlow(flow)
  \/ \E request \in Requests : DecideHTTP(request) \/ DecidePackage(request)

PolSpec == PolInit /\ [][PolNext]_polVars

-----------------------------------------------------------------------------
\* What the host lets through and netd does not load: an IP endpoint without addresses, with a bad one, or
\* with ports for any protocol; a host netd cannot parse; one binding written with and without its port; a
\* tunnel on a rule about requests; a forward other than to the machine itself from a declared tailnet.
NotForNetd(p) ==
  \/ \E e \in Range(p.endpoints) :
       \/ e.kind = "ip" /\ (e.source \o e.destination = <<>> \/ (e.protocol = "any" /\ e.ports # <<>>)
                             \/ \E c \in Range(e.source \o e.destination) : ~c.ok)
       \/ \E h \in Range(e.hosts) : ~h.good
  \/ \E i, j \in DOMAIN p.endpoints : i < j /\ Plugins[p.endpoints[i].kind].transport = Plugins[p.endpoints[j].kind].transport
       /\ \E g \in Range(p.endpoints[i].hosts), h \in Range(p.endpoints[j].hosts) : ~g.wild /\ ~h.wild /\ g.labels = h.labels
            /\ ParseBinding(g, Plugins[p.endpoints[i].kind].port) = ParseBinding(h, Plugins[p.endpoints[j].kind].port)
  \/ \E r \in Range(p.rules) : r.tunnel # {} /\ Named_(p.endpoints, r.endpoints[1]).kind # "ip"
  \/ \E f \in Range(p.forwards) : f.kind # "tailscale" \/ f.target # "self" \/ p.tailscale = <<>>

ValidatorsAgree ==
  \A p \in canonical :
    /\ from_json_source(p) = {p}
    /\ polStage = "unloadable" => NotForNetd(p)
    /\ polStage = "running" => ~NotForNetd(p)

\* A rule of an accepted source speaks of all the endpoints it names, unless it names them in both ways.
EndpointsKept ==
  polSource[1] = "hcl" =>
    \A p \in canonical : LET blocks == Blocks(polSource[2], "rule") IN
      \A i \in DOMAIN blocks :
        Given(blocks[i], {"endpoint"}) = <<>> \/ Given(blocks[i], {"endpoints"}) = <<>> =>
          Range(p.rules[i].endpoints) =
            {a[3].name : a \in Range(Given(blocks[i], {"endpoint"}))} \cup UNION {{r.name : r \in Range(a[3])} : a \in Range(Given(blocks[i], {"endpoints"}))}

\* The rule that decides, straight from the document: of the enabled ones that apply, the highest priority, then the first.
Decider(p, Applies(_)) ==
  LET may == {i \in DOMAIN p.rules : ~p.rules[i].disabled /\ Applies(p.rules[i])} IN
  {i \in may : \A j \in may : p.rules[j].priority < p.rules[i].priority \/ (p.rules[j].priority = p.rules[i].priority /\ i <= j)}

InRanges(ranges, port) == ranges = <<>> \/ \E r \in Range(ranges) : r.start <= port /\ port <= r.end
InPrefixes(cidrs, address) == cidrs = <<>> \/ \E c \in Range(cidrs) : address \in c.of

FlowDecided ==
  \A asked \in {a \in polAsked : a[1] = "flow"}, p \in canonical, d \in decision :
    LET flow == asked[2]
        applies(r) == /\ r.tunnel # {} => flow.tailnet
                      /\ \E n \in Range(r.endpoints) : LET e == Named_(p.endpoints, n) IN
                           /\ e.kind = "ip" /\ e.protocol \in {"any", flow.protocol} /\ InRanges(e.ports, flow.port)
                           /\ InPrefixes(e.source, flow.from) /\ InPrefixes(e.destination, flow.to)
        by == Decider(p, applies)
    IN /\ by = {} => d.action = p.default /\ d.rule = {}
       /\ \A i \in by : d.action = p.rules[i].verdict /\ d.rule = p.rules[i].name /\ d.tunnel = p.rules[i].tunnel

\* A request is allowed with a credential only on the word of the rule that decides for the endpoint, with the one
\* credential of this endpoint that applies; where a condition cannot be evaluated it is denied.
RequestDecided ==
  \A asked \in {a \in polAsked : a[1] = "http"}, p \in canonical, d \in decision :
    LET request == asked[2]
        port == IF request.port = 0 THEN Plugins[request.kind].port ELSE request.port
        binds(e) == /\ e.kind = request.kind
                    /\ \E h \in Range(e.hosts) : MatchesHost(ParseBinding(h, Plugins[e.kind].port), [labels |-> request.labels, port |-> port])
        bound == {e \in Range(p.endpoints) : binds(e)}
        held(e) == {c \in Range(p.credentials) : c.endpoint = e.name /\ Outcome(c.condition, request) = "true"}
        applies(e, r) == e.name \in Range(r.endpoints) /\ r.credential \subseteq {c.name : c \in held(e)} /\ Outcome(r.condition, request) # "false"
        right(e) == LET mine(r) == applies(e, r) IN
          /\ d.action = "allow" /\ d.rule # {} => \A i \in Decider(p, mine) :
               p.rules[i].verdict = "allow" /\ p.rules[i].name = d.rule /\ Outcome(p.rules[i].condition, request) = "true"
          /\ d.action = "allow" => \A c \in Range(p.credentials) : c.endpoint = e.name => Outcome(c.condition, request) # "error"
          /\ d.credential # {} => d.action = "allow" /\ d.credential = {c.name : c \in held(e)} /\ Cardinality(held(e)) = 1
          /\ d.why = "default" => Decider(p, mine) = {}
    IN /\ ~request.good => d.action = "deny"
       /\ request.good /\ bound = {} => d = ByDefault(p)
       /\ request.good /\ bound # {} => \E e \in bound : right(e)

\* The answer is one and the same every time unless two endpoints share a wildcard.
SameAnswer ==
  \A asked \in {a \in polAsked : a[1] = "http"}, p \in compiled :
    \/ Cardinality(EvaluateHTTP(p, asked[2])) = 1
    \/ \E e, f \in p.endpoints : e # f /\ \E b \in e.hosts \cap f.hosts : b.wild

\* The merged port ranges are in order and apart, and hold the ports of the document.
Edges(ranges) == UNION {{r.start - 1, r.start, r.end, r.end + 1} : r \in Range(ranges)}

PortsApart ==
  \A p \in canonical, q \in compiled : \A e \in q.endpoints :
    /\ \A i \in 1..(Len(e.ports) - 1) : e.ports[i].end + 1 < e.ports[i + 1].start
    /\ LET ranges == Named_(p.endpoints, e.name).ports IN
       \A port \in Edges(ranges) : InRanges(ranges, port) <=> InRanges(e.ports, port)

====

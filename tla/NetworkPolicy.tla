---------------------------- MODULE NetworkPolicy ----------------------------
(***************************************************************************)
(* The host's side of a network policy: the HCL reader of common/policy    *)
(* (parse.rs), the lowering to the canonical document, its normalisation   *)
(* and its validation (canonical.rs).                                      *)
(*                                                                         *)
(* A block is [type, labels, attrs, inner]; an attribute is the tuple      *)
(* <<name, the kind of its value, value>>.  Options are sets of at most    *)
(* one element.  A host is [labels (top level first), wild, port, raw,     *)
(* good]: raw when it is written with spaces, capitals or a final dot,     *)
(* good when netd's authority parser takes it.  A condition is [ok (it     *)
(* compiles to a boolean), secret (it names secret material), on (its      *)
(* outcome for every class of request)].  Any diagnostic of severity error *)
(* refuses the whole policy, so the readers are predicates beside the      *)
(* declaration they build.                                                 *)
(***************************************************************************)
EXTENDS Integers, Sequences, FiniteSets, SequencesExt, FiniteSetsExt, Functions, TLC

PORTS == 1..65535

\* Names outside the identifier grammar, and credential kinds.
Malformed == {"", "a b"}
CredentialKinds == {"basic_auth", "bearer_token", "header_token", "github_oauth", "openai_codex_oauth", "aws_credential"}

valid_identifier(name) == name \notin Malformed

\* PluginRegistry::builtins: what every endpoint kind is.
Plugins ==
  [ip |-> [family |-> "ip", transport |-> "packet-filter", port |-> 0, schema |-> "ip", credentials |-> FALSE, tls |-> "none"],
   http |-> [family |-> "http", transport |-> "http-proxy", port |-> 80, schema |-> "hosts", credentials |-> FALSE, tls |-> "none"],
   https |-> [family |-> "http", transport |-> "https-mitm", port |-> 443, schema |-> "hosts", credentials |-> TRUE, tls |-> "terminate"],
   registries |-> [family |-> "package", transport |-> "tls-terminate", port |-> 443, schema |-> "registries",
     credentials |-> FALSE, tls |-> "terminate"]]

RegistryHost(n) == [labels |-> <<"org", n>>, wild |-> FALSE, port |-> 0, raw |-> FALSE, good |-> TRUE]

registry_hosts(repositories) ==
  SelectSeq([i \in DOMAIN repositories |-> RegistryHost(repositories[i])], LAMBDA h : h.labels[2] \in {"npm", "pypi"})

\* A feed URL is [https, clean (no query, fragment, user or space), host, port].
parse_https_origin(url) ==
  IF url.https /\ url.clean /\ url.host # "" /\ url.port \subseteq PORTS
  THEN {[host |-> url.host, port |-> IF url.port = {} THEN 443 ELSE CHOOSE p \in url.port : TRUE]} ELSE {}

-----------------------------------------------------------------------------
\* Reading HCL.

decode_port_ranges(ranges) == \A r \in Range(ranges) : r.start \in PORTS /\ r.end \in PORTS /\ r.start <= r.end

ArgDecodes(a, as) ==
  CASE as = "u16" -> a[2] = "int" /\ a[3] \in PORTS
    [] as = "positive" -> a[2] = "int" /\ a[3] > 0
    [] as = "size" -> a[2] \in {"int", "size"} /\ a[3] >= 0
    [] as = "ports" -> a[2] = "ports" /\ decode_port_ranges(a[3])
    [] as = "ref" -> a[2] = "ref" /\ valid_identifier(a[3].kind) /\ valid_identifier(a[3].name)
    [] as = "refs" -> a[2] = "refs" /\ a[3] # <<>> /\ \A r \in Range(a[3]) : valid_identifier(r.kind) /\ valid_identifier(r.name)
    [] OTHER -> a[2] = as

\* Every attribute of the block is one of its arguments and decodes; the last one of a name counts.
ArgsDecode(b, args) == \A a \in Range(b.attrs) : a[1] \in DOMAIN args /\ ArgDecodes(a, args[a[1]])

Given(b, keys) == SelectSeq(b.attrs, LAMBDA a : a[1] \in keys)

Arg(b, keys, default) == IF Len(Given(b, keys)) = 0 THEN default ELSE Last(Given(b, keys))[3]

\* An optional argument, as a set of at most one value.
Opt(b, key) == {a[3] : a \in Range(Given(b, {key}))}

\* A condition that is the empty text is none at all.
Condition(b) == {c \in Opt(b, "condition") : ~c.empty}

read_audit_settings(b) ==
  /\ ArgsDecode(b, [body_buffer |-> "size", body_buffer_bytes |-> "size", body_storage |-> "size", body_storage_bytes |-> "size"])
  /\ b.inner = <<>>

read_settings(b) ==
  /\ b.labels = <<>>
  /\ ArgsDecode(b, [default_action |-> "string"])
  /\ Arg(b, {"default_action"}, "") \in {"", "allow", "deny"}
  /\ Len(b.inner) <= 1
  /\ \A a \in Range(b.inner) : a.type = "audit" /\ read_audit_settings(a)

EndpointArgs ==
  [ip |-> [source |-> "strings", source_cidrs |-> "strings", destination |-> "strings", destination_cidrs |-> "strings",
     protocol |-> "string", ports |-> "ports"],
   hosts |-> [hosts |-> "strings"],
   registries |-> [registries |-> "strings", malware_feed |-> "url", filter_package_age |-> "positive"]]

read_endpoint(b) ==
  /\ Len(b.labels) = 2
  /\ valid_identifier(b.labels[2])
  /\ b.labels[1] \in DOMAIN Plugins
  /\ b.inner = <<>>
  /\ LET schema == Plugins[b.labels[1]].schema
         registries == Arg(b, {"registries"}, <<>>)
     IN /\ ArgsDecode(b, EndpointArgs[schema])
        /\ schema = "ip" => Arg(b, {"protocol"}, "any") \in {"any", "tcp", "udp"}
        /\ schema = "hosts" => Arg(b, {"hosts"}, <<>>) # <<>>
        /\ schema = "registries" =>
             /\ registries # <<>> /\ IsInjective(registries) /\ Range(registries) \subseteq {"npm", "pypi"}
             /\ \E url \in Opt(b, "malware_feed") : parse_https_origin(url) # {}

CredentialArgs(kind) ==
  [endpoint |-> "ref", condition |-> "condition"]
    @@ CASE kind = "basic_auth" -> [username |-> "string"]
         [] kind = "bearer_token" -> [idempotency_key |-> "bool"]
         [] kind = "header_token" -> [header |-> "string", prefix |-> "string"]
         [] OTHER -> <<>>

read_credential(b) ==
  /\ Len(b.labels) = 2
  /\ b.labels[2] # "silo" /\ valid_identifier(b.labels[2])
  /\ b.inner = <<>>
  /\ ArgsDecode(b, CredentialArgs(b.labels[1]))
  /\ Opt(b, "endpoint") # {}
  /\ b.labels[1] = "basic_auth" => Arg(b, {"username"}, "") # ""
  /\ b.labels[1] = "header_token" => valid_identifier(Arg(b, {"header"}, ""))
  /\ \A c \in Condition(b) : ~c.secret /\ c.ok

\* An `endpoint` adds to the list, an `endpoints` replaces it; with both given only the first entry is kept.
RuleEndpoints(b) ==
  LET add(l, a) == CASE a[1] = "endpoint" -> Append(l, a[3]) [] a[1] = "endpoints" -> a[3] [] OTHER -> l
      all == FoldLeft(add, <<>>, b.attrs)
  IN IF Given(b, {"endpoint"}) # <<>> /\ Given(b, {"endpoints"}) # <<>> THEN SubSeq(all, 1, 1) ELSE all

\* The list after the single endpoint is an error, the single endpoint after the list is not.
read_rule(b) ==
  /\ Len(b.labels) = 1
  /\ b.inner = <<>>
  /\ ArgsDecode(b, [endpoint |-> "ref", endpoints |-> "refs", credential |-> "ref", tunnel |-> "ref", condition |-> "condition",
       verdict |-> "string", priority |-> "int", disabled |-> "bool", reason |-> "string"])
  /\ ~ \E i, j \in DOMAIN b.attrs : i < j /\ b.attrs[i][1] = "endpoint" /\ b.attrs[j][1] = "endpoints"
  /\ RuleEndpoints(b) # <<>>
  /\ Arg(b, {"verdict"}, "") \in {"allow", "deny"}

read_tailscale(b) ==
  /\ Len(b.labels) = 1
  /\ b.labels[1] # "silo" /\ valid_identifier(b.labels[1])
  /\ b.inner = <<>>
  /\ ArgsDecode(b, [ephemeral |-> "bool", tags |-> "strings", hostname |-> "string", control_url |-> "string"])

\* A listen address is [colon (":" and digits only), port, padded (leading zeros)].
validate_forward_transport(kind, target, protocol, tls, listen) ==
  LET own == kind = "tailscale" /\ target = "self" IN
  CASE protocol = "tcp" /\ tls # {} -> [ok |-> FALSE, port |-> {}]
    [] protocol = "https" /\ (~own \/ tls = {}) -> [ok |-> FALSE, port |-> {}]
    [] ~own -> [ok |-> TRUE, port |-> {}]
    [] ~listen.colon \/ listen.port \notin PORTS \ {22} -> [ok |-> FALSE, port |-> {}]
    [] OTHER -> [ok |-> TRUE, port |-> {listen.port}]

NoListen == [colon |-> FALSE, port |-> 0, padded |-> FALSE]

read_forward(b) ==
  /\ Len(b.labels) = 2
  /\ valid_identifier(b.labels[2])
  /\ b.labels[1] \in {"host", "tailscale"}
  /\ ArgsDecode(b, [protocol |-> "string", listen |-> "listen", target |-> "string", target_port |-> "u16", tunnel |-> "ref"])
  /\ Arg(b, {"protocol"}, "tcp") \in {"tcp", "https"}
  /\ Len(b.inner) <= 1
  /\ \A t \in Range(b.inner) : t.type = "tls" /\ t.labels = <<>> /\ t.inner = <<>>
       /\ ArgsDecode(t, [provider |-> "string"]) /\ Len(t.attrs) = 1 /\ t.attrs[1][3] = "tailscale"
  /\ Opt(b, "target") # {} /\ Opt(b, "target_port") # {}
  /\ b.labels[1] = "tailscale" /\ Arg(b, {"target"}, "") # "self" => Opt(b, "tunnel") # {}

\* What the readers build, in the order of the file.
EndpointDecl(b) ==
  LET d == Plugins[b.labels[1]]
      registries == Arg(b, {"registries"}, <<>>)
  IN [kind |-> b.labels[1], name |-> b.labels[2], definition |-> d,
      source |-> Arg(b, {"source", "source_cidrs"}, <<>>), destination |-> Arg(b, {"destination", "destination_cidrs"}, <<>>),
      protocol |-> Arg(b, {"protocol"}, IF d.schema = "ip" THEN "any" ELSE ""), ports |-> Arg(b, {"ports"}, <<>>),
      hosts |-> IF d.schema = "registries" THEN registry_hosts(registries) ELSE Arg(b, {"hosts"}, <<>>),
      registries |-> registries, feed |-> Opt(b, "malware_feed"), age |-> Opt(b, "filter_package_age")]

CredentialDecl(b) ==
  [kind |-> b.labels[1], name |-> b.labels[2], endpoint |-> Arg(b, {"endpoint"}, {}), condition |-> Condition(b)]

RuleDecl(b) ==
  [name |-> b.labels[1], endpoints |-> RuleEndpoints(b), credential |-> Opt(b, "credential"), tunnel |-> Opt(b, "tunnel"),
   verdict |-> Arg(b, {"verdict"}, ""), priority |-> Arg(b, {"priority"}, 0), disabled |-> Arg(b, {"disabled"}, FALSE),
   condition |-> Condition(b)]

ForwardDecl(b) ==
  [kind |-> b.labels[1], name |-> b.labels[2], listen |-> Arg(b, {"listen"}, NoListen), target |-> Arg(b, {"target"}, ""),
   target_port |-> Arg(b, {"target_port"}, 0), tunnel |-> Opt(b, "tunnel"), protocol |-> Arg(b, {"protocol"}, "tcp"),
   tls |-> IF b.inner = <<>> THEN {} ELSE {"tailscale"}]

Blocks(body, type) == SelectSeq(body, LAMBDA b : b.type = type)

Each(Build(_), blocks) == [i \in DOMAIN blocks |-> Build(blocks[i])]

TailscaleName(b) == b.labels[1]

Document(body) ==
  [default |-> IF Arg(Head(Blocks(body, "settings") \o <<[attrs |-> <<>>]>>), {"default_action"}, "") = "deny" THEN "deny" ELSE "allow",
   endpoints |-> Each(EndpointDecl, Blocks(body, "endpoint")), credentials |-> Each(CredentialDecl, Blocks(body, "credential")),
   rules |-> Each(RuleDecl, Blocks(body, "rule")), tailscale |-> Each(TailscaleName, Blocks(body, "tailscale")),
   forwards |-> Each(ForwardDecl, Blocks(body, "forward"))]

\* validate_references: every reference of the document resolves.
Refers(declarations, ref) == \E d \in Range(declarations) : d.kind = ref.kind /\ d.name = ref.name

FamilyOf(d, ref) == (CHOOSE e \in Range(d.endpoints) : e.kind = ref.kind /\ e.name = ref.name).definition.family

TunnelKnown(d, tunnels) == \A t \in tunnels : t.kind = "tailscale" /\ t.name \in Range(d.tailscale)

RuleRefers(d, r) ==
  /\ \A ref \in Range(r.endpoints) : Refers(d.endpoints, ref)
  /\ LET families == {FamilyOf(d, ref) : ref \in Range(r.endpoints)} IN
     /\ Cardinality(families) = 1
     /\ \A c \in r.condition : families # {"ip"} /\ c.ok
     /\ \A c \in r.credential :
          /\ Refers(d.credentials, c)
          /\ families = {"http"}
          /\ \E held \in Range(d.credentials) : held.kind = c.kind /\ held.name = c.name /\ held.endpoint \in Range(r.endpoints)
  /\ TunnelKnown(d, r.tunnel)
  /\ r.tunnel # {} => r.verdict = "allow"

valid_target_selector(target) == target \in {"name:x", "id:x", "label:x"}

ForwardTarget(f) == valid_target_selector(f.target) \/ (f.kind = "tailscale" /\ f.target = "self")

Transport(f) == validate_forward_transport(f.kind, f.target, f.protocol, f.tls, f.listen)

Distinct(s, Of(_)) == \A i, j \in DOMAIN s : i # j => Of(s[i]) # Of(s[j])

DistinctListeners(forwards) ==
  \A i, j \in DOMAIN forwards : i # j => Transport(forwards[i]).port \cap Transport(forwards[j]).port = {}

validate_references(d) ==
  /\ \A c \in Range(d.credentials) :
       /\ c.kind \in CredentialKinds
       /\ \E e \in Range(d.endpoints) : e.kind = c.endpoint.kind /\ e.name = c.endpoint.name /\ e.definition.credentials
  /\ \A r \in Range(d.rules) : RuleRefers(d, r)
  /\ \A f \in Range(d.forwards) :
       /\ ForwardTarget(f) /\ Transport(f).ok
       /\ f.kind = "host" => f.tunnel = {}
       /\ TunnelKnown(d, f.tunnel)
  /\ DistinctListeners(d.forwards)

Labels(b) == b.labels

\* parse_policy: the document, or nothing when a diagnostic is an error.
parse_policy(body) ==
  IF /\ \A b \in Range(body) :
          CASE b.type = "settings" -> read_settings(b)
            [] b.type = "endpoint" -> read_endpoint(b)
            [] b.type = "credential" -> read_credential(b)
            [] b.type = "rule" -> read_rule(b)
            [] b.type = "tailscale" -> read_tailscale(b)
            [] b.type = "forward" -> read_forward(b)
            [] OTHER -> FALSE
     /\ Len(Blocks(body, "settings")) <= 1 /\ Len(Blocks(body, "tailscale")) <= 1
     /\ \A type \in {"endpoint", "credential", "rule", "forward"} : Distinct(Blocks(body, type), Labels)
     /\ validate_references(Document(body))
  THEN {Document(body)} ELSE {}

-----------------------------------------------------------------------------
\* The canonical document.

lower_endpoint(e) ==
  [name |-> e.name, kind |-> e.kind, family |-> e.definition.family, transport |-> e.definition.transport, tls |-> e.definition.tls,
   capabilities |-> IF e.definition.credentials THEN {"credential-injection"} ELSE {},
   registries |-> e.registries, feed |-> e.feed, age |-> e.age,
   egress |-> UNION {parse_https_origin(url) : url \in e.feed},
   source |-> e.source, destination |-> e.destination, protocol |-> IF e.protocol \in {"tcp", "udp"} THEN e.protocol ELSE "any",
   ports |-> e.ports, hosts |-> e.hosts]

Names(refs) == {r.name : r \in refs}

lower_credential(c) == [c EXCEPT !.endpoint = c.endpoint.name]

lower_rule(r) ==
  [r EXCEPT !.endpoints = [i \in DOMAIN r.endpoints |-> r.endpoints[i].name], !.credential = Names(r.credential), !.tunnel = Names(r.tunnel),
            !.name = {n \in {r.name} : n # ""}]

lower_forward(f) == [f EXCEPT !.tunnel = Names(f.tunnel)]

lower_document(d) ==
  [version |-> 1, default |-> d.default, endpoints |-> Each(lower_endpoint, d.endpoints),
   credentials |-> Each(lower_credential, d.credentials), rules |-> Each(lower_rule, d.rules),
   tailscale |-> d.tailscale, forwards |-> Each(lower_forward, d.forwards)]

\* Hosts are trimmed, lower-cased and lose the final dot (not those of a registry); a self listener is rewritten.
normalize_host(h) == [h EXCEPT !.raw = FALSE]

NormalizeEndpoint(e) ==
  IF e.kind \in DOMAIN Plugins /\ Plugins[e.kind].schema = "hosts" THEN [e EXCEPT !.hosts = Each(normalize_host, e.hosts)] ELSE e

NormalizeForward(f) == IF Transport(f).port # {} THEN [f EXCEPT !.listen.padded = FALSE] ELSE f

normalize(p) == [p EXCEPT !.endpoints = Each(NormalizeEndpoint, p.endpoints), !.forwards = Each(NormalizeForward, p.forwards)]

NameOf(x) == x.name

Named_(s, name) == CHOOSE x \in Range(s) : x.name = name

\* Two hosts are the same when their texts are: with and without the default port they differ.
ExactHosts(endpoints) == SelectSeq(FlattenSeq([i \in DOMAIN endpoints |-> endpoints[i].hosts]), LAMBDA h : ~h.wild)

Whole(h) == h

validate_endpoint_descriptor(e, d) ==
  /\ e.family = d.family /\ e.transport = d.transport /\ e.tls = d.tls
  /\ e.capabilities = IF d.credentials THEN {"credential-injection"} ELSE {}

validate_ip_endpoint(e) == e.hosts = <<>> /\ \A r \in Range(e.ports) : r.start # 0 /\ r.end # 0 /\ r.start <= r.end

validate_http_endpoint(e) == e.source = <<>> /\ e.destination = <<>> /\ e.protocol = "any" /\ e.ports = <<>> /\ e.hosts # <<>>

validate_registry_endpoint(e) ==
  /\ validate_http_endpoint(e)
  /\ e.registries # <<>> /\ IsInjective(e.registries) /\ Range(e.registries) \subseteq {"npm", "pypi"}
  /\ e.hosts = registry_hosts(e.registries)
  /\ \E url \in e.feed : parse_https_origin(url) # {} /\ e.egress = parse_https_origin(url)
  /\ \A a \in e.age : a > 0

validate_endpoints(endpoints) ==
  /\ \A e \in Range(endpoints) :
       /\ valid_identifier(e.name) /\ e.kind \in DOMAIN Plugins
       /\ validate_endpoint_descriptor(e, Plugins[e.kind])
       /\ CASE Plugins[e.kind].schema = "ip" -> validate_ip_endpoint(e)
            [] Plugins[e.kind].schema = "hosts" -> validate_http_endpoint(e)
            [] Plugins[e.kind].schema = "registries" -> validate_registry_endpoint(e)
  /\ Distinct(endpoints, NameOf)
  /\ Distinct(ExactHosts(endpoints), Whole)

validate_credentials(p) ==
  /\ \A c \in Range(p.credentials) :
       /\ c.name # "silo" /\ valid_identifier(c.name) /\ c.kind \in CredentialKinds
       /\ \E e \in Range(p.endpoints) : e.name = c.endpoint /\ Plugins[e.kind].credentials
       /\ \A x \in c.condition : x.ok
  /\ Distinct(p.credentials, NameOf)

validate_rules(p) ==
  \A r \in Range(p.rules) :
    /\ \A n \in r.name : valid_identifier(n)
    /\ r.endpoints # <<>> /\ \A n \in Range(r.endpoints) : \E e \in Range(p.endpoints) : e.name = n
    /\ LET families == {Plugins[Named_(p.endpoints, n).kind].family : n \in Range(r.endpoints)} IN
       /\ Cardinality(families) = 1
       /\ \A c \in r.condition : families # {"ip"} /\ c.ok
       /\ \A n \in r.credential :
            /\ \E c \in Range(p.credentials) : c.name = n
            /\ families = {"http"}
            /\ Named_(p.credentials, n).endpoint \in Range(r.endpoints)
    /\ r.tunnel \subseteq Range(p.tailscale)
    /\ r.tunnel # {} => r.verdict = "allow"

validate_canonical_forwards(p) ==
  /\ \A f \in Range(p.forwards) :
       /\ valid_identifier(f.name) /\ f.kind \in {"host", "tailscale"}
       /\ f.kind = "host" => f.tunnel = {}
       /\ f.kind = "tailscale" => f.tunnel \subseteq Range(p.tailscale) /\ (f.tunnel = {} => f.target = "self")
       /\ f.target_port # 0
       /\ ForwardTarget(f) /\ Transport(f).ok
  /\ Distinct(p.forwards, NameOf) /\ DistinctListeners(p.forwards)

validate_tunnels(tunnels) == Len(tunnels) <= 1 /\ \A n \in Range(tunnels) : n # "silo" /\ valid_identifier(n)

\* Derived secret slots are lower-case paths.
UpperCase == {"Up"}

validate_secret_slots(p) == \A n \in {c.name : c \in Range(p.credentials)} \cup Range(p.tailscale) : n \notin UpperCase

\* PolicyValidator::validate finds no error.
PolicyValidates(p) ==
  /\ p.version = 1
  /\ validate_endpoints(p.endpoints) /\ validate_tunnels(p.tailscale)
  /\ validate_credentials(p) /\ validate_rules(p)
  /\ validate_canonical_forwards(p) /\ validate_secret_slots(p)

Canonical(p) == IF PolicyValidates(normalize(p)) THEN {normalize(p)} ELSE {}

from_hcl_source(body) == UNION {Canonical(lower_document(d)) : d \in parse_policy(body)}

from_json_source(p) == Canonical(p)
====

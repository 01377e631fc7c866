------------------------------ MODULE MCRuntime ------------------------------
(***************************************************************************)
(* The parts of the runtime library and of the services beside the monitor, *)
(* each on its own small instances: a behaviour is about one part.          *)
(***************************************************************************)
EXTENDS JobRegistry, Images, FileUpload, FileDownload, GuestDirectory,
        Reports, GuestBoot, MachineConfig, NetdPolicy

VARIABLE part \* the component this behaviour is about

JobSymmetry == Permutations(Jobs)

ImCreate(r, y) == [kind |-> "create", ref |-> r, name |-> "m", policy |-> y, force |-> FALSE]
ImPull(r) == [kind |-> "pull", ref |-> r, name |-> "none", policy |-> "always", force |-> FALSE]
ImRemove(r, f) == [kind |-> "remove", ref |-> r, name |-> "none", policy |-> "none", force |-> f]
ImPrune == [kind |-> "prune", ref |-> "r1", name |-> "none", policy |-> "none", force |-> FALSE]
ImScope(o, t, e) == [ops |-> o, tags |-> t, moves |-> "moves" \in e, faults |-> "faults" \in e, crash |-> "crash" \in e]
OneOf_ == [r1 |-> "d1", r2 |-> "d1"]
Two == [r1 |-> "d1", r2 |-> "d2"]
ImgInstances == {
  ImScope([p1 |-> ImCreate("r1", "missing"), p2 |-> ImCreate("r1", "never")], OneOf_, {}),
  ImScope([p1 |-> ImPull("r1"), p2 |-> ImCreate("r2", "missing")], Two, {"faults"}),
  ImScope([p1 |-> ImPull("r1"), p2 |-> ImPull("r1")], OneOf_, {"moves", "crash"}),
  ImScope([p1 |-> ImCreate("r1", "missing"), p2 |-> ImRemove("r1", TRUE), p3 |-> ImPrune], OneOf_, {}),
  ImScope([p1 |-> ImCreate("r1", "missing"), p2 |-> ImRemove("r1", FALSE), p3 |-> ImPull("r1")], OneOf_, {}),
  ImScope([p1 |-> ImPull("r2"), p2 |-> ImRemove("r2", FALSE), p3 |-> ImPrune], Two, {"crash"}),
  ImScope([p1 |-> ImPull("r2"), p2 |-> ImRemove("r2", FALSE), p3 |-> ImPrune, p4 |-> ImCreate("r2", "always")], Two, {})}
LayersFor == [d1 |-> {"l1", "l2"}, d2 |-> {"l2"}]

UpInstances == {
  [faults |-> {"reader", "caller"}, target |-> Absent],
  [faults |-> {"timeout"}, target |-> Other],
  [faults |-> {"caller", "io", "connect"}, target |-> Other],
  [faults |-> {"reader", "crash"}, target |-> Absent],
  [faults |-> {"others"}, target |-> Other]}

DlInstances == {[callers |-> {"c1", "c2"}, faults |-> {}],
  [callers |-> {"c1", "c2"}, faults |-> {"stall"}],
  [callers |-> {"c1"}, faults |-> {"drop", "io", "crash"}]}

DirCreate(n) == [op |-> "create", name |-> n, parents |-> TRUE, recursive |-> FALSE]
DirRemove(r) == [op |-> "remove", name |-> 0, parents |-> FALSE, recursive |-> r]
DirList == [op |-> "list", name |-> 0, parents |-> FALSE, recursive |-> FALSE]
DirInstances == {
  [jobs |-> [j1 |-> DirList, j2 |-> DirCreate(1), j3 |-> DirCreate(3)], first |-> {2}, restart |-> FALSE, timeout |-> FALSE],
  [jobs |-> [j1 |-> DirList, j2 |-> DirRemove(TRUE), j3 |-> DirCreate(2)], first |-> {1, 2, 3}, restart |-> FALSE, timeout |-> FALSE],
  [jobs |-> [j1 |-> DirCreate(1), j2 |-> DirCreate(1), j3 |-> DirRemove(FALSE)], first |-> {}, restart |-> FALSE, timeout |-> TRUE],
  [jobs |-> [j1 |-> DirList, j2 |-> DirCreate(1), j3 |-> DirCreate(1)], first |-> {2, 3}, restart |-> TRUE, timeout |-> FALSE]}

PlainStatus == [kind |-> "status", at |-> Time(1, 3), state |-> 2, message |-> Text(1), name |-> Text(1),
  addresses |-> <<Text(1)>>, mode |-> 3, init |-> Text(1), took |-> Time(0, 2), step |-> 1,
  policy |-> 1, chain |-> Text(0), backend |-> 1]
PlainMetrics == [kind |-> "metrics", at |-> Time(0, 0), cpus |-> Number(2), mounts |-> {1, 2}, mount |-> Text(1),
  total |-> 4, free |-> 2, available |-> 1]
AnyText == {Text(n) : n \in 0..5} \cup {NulText(2)}
ReportInstances ==
  {[PlainStatus EXCEPT !.at = t, !.took = d] : t \in {Time(s, n) : s \in 0..3, n \in 0..3}, d \in {Time(s, n) : s \in 0..2, n \in 0..3}}
  \cup {[PlainStatus EXCEPT !.state = a, !.message = m] : a \in 1..3, m \in AnyText}
  \cup {[PlainStatus EXCEPT !.name = t] : t \in {Text(n) : n \in 0..5}}
  \cup {[PlainStatus EXCEPT !.addresses = a] : a \in {<<>>, <<Text(1), Text(1)>>, <<Text(1), Text(1), Text(1)>>}}
  \cup {[PlainStatus EXCEPT !.mode = m, !.init = t] : m \in 1..3, t \in {Text(n) : n \in 0..5}}
  \cup {[PlainStatus EXCEPT !.step = a, !.policy = p, !.chain = c] : a \in 1..4, p \in 1..2, c \in AnyText}
  \cup {[PlainStatus EXCEPT !.backend = b] : b \in 1..3}
  \cup {[PlainMetrics EXCEPT !.mounts = m, !.mount = t] : m \in SUBSET (1..3), t \in {Text(n) : n \in 1..5}}
  \cup {[PlainMetrics EXCEPT !.total = a, !.free = b, !.available = c] : a \in {4}, b \in 0..4, c \in {0}}
  \cup {[PlainMetrics EXCEPT !.free = b, !.available = b] : b \in 0..4}
  \cup {[PlainMetrics EXCEPT !.cpus = c] : c \in {Missing, Number(1)}}

BootPlan == <<[id |-> "network", requires |-> {}, policy |-> "FailBoot"],
  [id |-> "users", requires |-> {}, policy |-> "BestEffort"],
  [id |-> "mounts", requires |-> {"users"}, policy |-> "BestEffort"]>>
BootInstances ==
  {[init |-> i, plan |-> BootPlan, enabled |-> TRUE, own |-> o, chains |-> {"fits"}, faults |-> f] :
     i \in {"none"}, o \in {TRUE, FALSE}, f \in {{}, {"trust", "ssh", "ready", "dialer"}, {"pid1", "task"}}}
  \cup {[init |-> i, plan |-> BootPlan, enabled |-> FALSE, own |-> TRUE, chains |-> {"fits"},
         faults |-> {"prepare", "handoff", "bind"}] : i \in {"standard", "none", "child"}}
  \cup {[init |-> "none", plan |-> Reverse(BootPlan), enabled |-> TRUE, own |-> TRUE, chains |-> {"fits"}, faults |-> {}]}

MuxForward == <<Forward({"f"}, Unix("host", [PathAt("vsock.sock_7", FALSE) EXCEPT !.listens = "vsock.sock"]), Tcp("guest", 80))>>
VsockOn == {[enabled |-> TRUE, uds |-> {}]}
PlainSpec == [cpus |-> {1}, memory |-> {1}, forwards |-> <<>>, mounts |-> <<>>, vsock |-> {}]
PlainAgent == [mode |-> "Default", path |-> {}]
PlainRow(n) == [name |-> n, labels |-> {}, disk |-> 2, spec |-> PlainSpec, network |-> Private({}, {"Loopback"}),
  agent |-> PlainAgent, user |-> {}]
PlainCreate(n) == [name |-> n, labels |-> {}, disk |-> {}, cpus |-> {}, memory |-> {6}, forwards |-> <<>>, vsock |-> {},
  network |-> {}, agent |-> PlainAgent, user |-> {}, retention |-> "Persistent", disks |-> {}]
Changed(with) == [to |-> "Set", with |-> with]
Op(kind, via, machine, rq) == [kind |-> kind, via |-> via, machine |-> machine, req |-> rq]
Upd(via, u) == Op("update", via, "m1", u)
UpdateRequests == {[NoUpdate EXCEPT !.name = {"b"}], [NoUpdate EXCEPT !.memory = {6}], [NoUpdate EXCEPT !.memory = {25}],
  [NoUpdate EXCEPT !.vsock = VsockOn], [NoUpdate EXCEPT !.forwards = {MuxForward}], [NoUpdate EXCEPT !.disk = {4}],
  [NoUpdate EXCEPT !.policy = {Changed("ts")}], [NoUpdate EXCEPT !.vsock = {[enabled |-> FALSE, uds |-> {}]}],
  [NoUpdate EXCEPT !.network = {Named("n1")}, !.cpus = {2}], NoUpdate}
UpdatePairs ==
  {<<[NoUpdate EXCEPT !.memory = {6}], [NoUpdate EXCEPT !.forwards = {MuxForward}]>>,
   <<[NoUpdate EXCEPT !.vsock = VsockOn], [NoUpdate EXCEPT !.forwards = {MuxForward}]>>,
   <<[NoUpdate EXCEPT !.vsock = {[enabled |-> FALSE, uds |-> {}]}], [NoUpdate EXCEPT !.policy = {Changed("ts")}]>>,
   <<[NoUpdate EXCEPT !.policy = {[to |-> "Clear", with |-> ""]}, !.publish = {Changed("Any")}], [NoUpdate EXCEPT !.network = {Named("n1")}]>>,
   <<[NoUpdate EXCEPT !.disk = {4}], [NoUpdate EXCEPT !.disk = {3}, !.user = {Changed("u")}]>>,
   <<[NoUpdate EXCEPT !.memory = {25}], NoUpdate>>}
TwoOps(o1, o2, rows, faults) == [ops |-> ("p1" :> o1 @@ "p2" :> o2), db |-> rows, faults |-> faults]
FirstRow == "m1" :> {PlainRow("a")} @@ "m2" :> {}
VsockRow == "m1" :> {[PlainRow("a") EXCEPT !.spec.vsock = VsockOn]} @@ "m2" :> {}
BothRows == "m1" :> {PlainRow("a")} @@ "m2" :> {[PlainRow("b") EXCEPT !.agent.mode = "Custom", !.agent.path = {"/agent"}]}
ConfigInstances ==
  {TwoOps(Upd("daemon", u[1]), Upd("local", u[2]), r, f) : u \in UpdatePairs, r \in {FirstRow, VsockRow},
     f \in {{}, {"write", "save"}, {"crash"}}}
  \cup {TwoOps(Upd("daemon", u), Op("start", "daemon", "m1", {}), VsockRow, f) : u \in UpdateRequests, f \in {{"networks"}, {"save", "crash"}}}
  \cup {TwoOps(Upd("local", [NoUpdate EXCEPT !.name = {"b"}]), Op("create", via, "m2", c), FirstRow, f) :
     via \in {"local", "daemon"}, c \in {PlainCreate("b"), [PlainCreate("a") EXCEPT !.disk = {4}], [PlainCreate("b") EXCEPT !.disk = {1}],
       [PlainCreate("b") EXCEPT !.network = {Private({"ts"}, {})}, !.vsock = VsockOn], [PlainCreate("b") EXCEPT !.cpus = {0}], PlainCreate("A_"),
       [PlainCreate("b") EXCEPT !.network = {Private({"ts"}, {})}]}, f \in {{}, {"save", "crash"}}}
  \cup {TwoOps(Op("replace", "local", "m1", [PlainSpec EXCEPT !.forwards = MuxForward, !.cpus = {2}]), Op("network", "local", "m1", n), VsockRow, f) :
     n \in {Private({"ts"}, {}), Named("n1"), Private({"bad"}, {}), Named("n2")}, f \in {{}, {"write", "networks"}}}
  \cup {TwoOps(Op("replace", "local", "m1", [PlainSpec EXCEPT !.cpus = {2}]), Op("network", "daemon", "m1", Private({"ts"}, {"Any"})), VsockRow, {})}
  \cup {[ops |-> ("p1" :> Upd("daemon", [NoUpdate EXCEPT !.name = {"c"}]) @@ "p2" :> Op("update", "daemon", "m2", [NoUpdate EXCEPT !.name = {"a"}, !.agent = {PlainAgent}])
     @@ "p3" :> Op("start", "local", "m2", {})), db |-> BothRows, faults |-> {}]}
  \cup {TwoOps(Op("update", "daemon", "m2", [NoUpdate EXCEPT !.name = {"c"}]), Op("list", via, "m1", {}), BothRows, {"corrupt"}) : via \in {"daemon", "local"}}

B(type, labels, attrs) == [type |-> type, labels |-> labels, attrs |-> attrs, inner |-> <<>>]
Ref(k, n) == [kind |-> k, name |-> n]
HostAt(labels, port) == [labels |-> labels, wild |-> FALSE, port |-> port, raw |-> FALSE, good |-> TRUE]
WildAt(labels) == [HostAt(labels, 0) EXCEPT !.wild = TRUE]
Net(of) == [ok |-> TRUE, of |-> of]
Cond(get, post) == [ok |-> TRUE, secret |-> FALSE, empty |-> FALSE, on |-> [get |-> get, post |-> post]]
GetOnly == Cond("true", "false")
Failing == Cond("error", "true")
BadCond == [Cond("true", "true") EXCEPT !.ok = FALSE]
Ports(s, e) == [start |-> s, end |-> e]
IpAttrs == {<<<<"destination", "strings", <<Net({"a", "b"})>>>>>>,
  <<<<"destination", "strings", <<Net({"a"})>>>>, <<"protocol", "string", "tcp">>, <<"ports", "ports", <<Ports(1, 65535), Ports(2, 3), Ports(80, 80)>>>>>>,
  <<<<"source", "strings", <<Net({"g"})>>>>, <<"protocol", "string", "tcp">>, <<"ports", "ports", <<Ports(443, 443), Ports(80, 81), Ports(82, 90)>>>>>>,
  <<>>, <<<<"destination", "strings", <<[Net({"a"}) EXCEPT !.ok = FALSE]>>>>>>,
  <<<<"destination", "strings", <<Net({"a"})>>>>, <<"ports", "ports", <<Ports(80, 80)>>>>>>,
  <<<<"destination", "strings", <<Net({"a"})>>>>, <<"protocol", "string", "icmp">>>>,
  <<<<"destination", "strings", <<Net({"a"})>>>>, <<"protocol", "string", "udp">>, <<"ports", "ports", <<Ports(90, 80)>>>>>>,
  <<<<"hosts", "strings", <<HostAt(<<"com">>, 0)>>>>>>}
RuleBlock(name, refs, verdict, more) == B("rule", <<name>>, <<<<"endpoints", "refs", refs>>, <<"verdict", "string", verdict>>>> \o more)
IpPolicies ==
  {<<B("settings", <<>>, <<<<"default_action", "string", d>>>>), B("endpoint", <<"ip", "one">>, a),
     B("endpoint", <<"ip", "two">>, <<<<"destination", "strings", <<Net({"b"})>>>>, <<"protocol", "string", "tcp">>>>),
     RuleBlock("r1", <<Ref("ip", "one")>>, "allow", <<<<"priority", "int", q>>>>),
     RuleBlock("r2", <<Ref("ip", "two"), Ref("ip", "one")>>, "deny", <<<<"disabled", "bool", off>>>>)>> :
     d \in {"deny", "", "drop"}, a \in IpAttrs, q \in {-1, 0, 1}, off \in BOOLEAN}
TunnelPolicies ==
  {<<B("endpoint", <<"ip", "one">>, <<<<"destination", "strings", <<Net({"a"})>>>>>>), B("endpoint", <<"https", "web">>, <<<<"hosts", "strings", <<WildAt(<<"com">>)>>>>>>),
     B("tailscale", <<n>>, <<<<"ephemeral", "bool", TRUE>>>>), RuleBlock("r1", <<Ref(k[1], k[2])>>, v, <<<<"tunnel", "ref", Ref("tailscale", t)>>>>)>> :
     n \in {"ts", "silo", "Up"}, k \in {<<"ip", "one">>, <<"https", "web">>}, v \in {"allow", "deny"}, t \in {"ts", "other"}}
HostLists == {<<HostAt(<<"com", "x">>, 0)>>, <<[HostAt(<<"com", "x">>, 443) EXCEPT !.raw = TRUE]>>, <<WildAt(<<"com">>), HostAt(<<"com", "x">>, 0)>>,
  <<WildAt(<<"com">>)>>, <<WildAt(<<"com", "x">>), HostAt(<<"com", "y">>, 8443)>>, <<[HostAt(<<"net">>, 0) EXCEPT !.good = FALSE]>>, <<>>}
WebPolicies ==
  {<<B("endpoint", <<"https", "one">>, <<<<"hosts", "strings", h>>>>), B("endpoint", <<k, "two">>, <<<<"hosts", "strings", g>>>>),
     RuleBlock("r1", <<Ref("https", "one")>>, "allow", <<<<"condition", "condition", GetOnly>>>>),
     RuleBlock("r2", <<Ref(k, "two")>>, "deny", <<<<"priority", "int", 1>>>>)>> : h \in HostLists, g \in HostLists, k \in {"http", "https"}}
Cred(kind, name, more) == B("credential", <<kind, name>>, <<<<"endpoint", "ref", Ref("https", "one")>>>> \o more)
CredPolicies ==
  {<<B("endpoint", <<"https", "one">>, <<<<"hosts", "strings", <<HostAt(<<"com", "x">>, 0)>>>>>>), Cred("bearer_token", "t1", c1), Cred("basic_auth", "t2", c2),
     RuleBlock("r1", <<Ref("https", "one")>>, v, <<<<"credential", "ref", Ref("bearer_token", "t1")>>, <<"condition", "condition", c3>>>>),
     RuleBlock("r2", <<Ref("https", "one")>>, "allow", <<<<"priority", "int", -1>>>>)>> :
     c1 \in {<<>>, <<<<"condition", "condition", GetOnly>>>>, <<<<"condition", "condition", BadCond>>>>},
     c2 \in {<<<<"username", "string", "u">>, <<"condition", "condition", Cond("false", "true")>>>>, <<<<"username", "string", "u">>>>, <<>>,
             <<<<"username", "string", "u">>, <<"condition", "condition", Failing>>>>},
     v \in {"allow", "deny"}, c3 \in {GetOnly, Failing, [GetOnly EXCEPT !.empty = TRUE], BadCond}}
BothWays == {<<B("endpoint", <<"ip", "one">>, <<<<"destination", "strings", <<Net({"a"})>>>>>>), B("endpoint", <<"ip", "two">>, <<<<"destination", "strings", <<Net({"b"})>>>>>>),
     B("rule", <<"r1">>, a \o <<<<"verdict", "string", "deny">>>>)>> :
     a \in {<<<<"endpoint", "ref", Ref("ip", "two")>>, <<"endpoints", "refs", <<Ref("ip", "one")>>>>>>, <<<<"endpoints", "refs", <<Ref("ip", "one")>>>>, <<"endpoint", "ref", Ref("ip", "two")>>>>,
            <<<<"endpoint", "ref", Ref("ip", "two")>>>>, <<<<"endpoint", "ref", Ref("ip", "three")>>>>, <<>>}}
Listen(p, z) == [colon |-> TRUE, port |-> p, padded |-> z]
Feed == [https |-> TRUE, clean |-> TRUE, host |-> "feed", port |-> {}]
ForwardPolicies ==
  {t \o <<B("forward", <<k, "f1">>, <<<<"listen", "listen", l>>, <<"target", "string", to>>, <<"target_port", "int", 80>>>> \o u),
     B("forward", <<"tailscale", "f2">>, <<<<"listen", "listen", Listen(81, FALSE)>>, <<"target", "string", "self">>, <<"target_port", "int", 80>>>>)>> :
     t \in {<<>>, <<B("tailscale", <<"ts">>, <<>>)>>}, k \in {"host", "tailscale"}, l \in {Listen(80, TRUE), Listen(81, FALSE), Listen(22, FALSE)},
     to \in {"self", "name:x"}, u \in {<<>>, <<<<"tunnel", "ref", Ref("tailscale", "ts")>>>>}}
RegistryPolicies ==
  {<<B("endpoint", <<"registries", "reg">>, <<<<"registries", "strings", r>>, <<"malware_feed", "url", u>>, <<"filter_package_age", "int", a>>>>),
     RuleBlock("r1", <<Ref("registries", "reg")>>, "deny", <<<<"condition", "condition", c>>>>)>> :
     r \in {<<"npm">>, <<"npm", "pypi">>, <<"npm", "npm">>, <<"gem">>}, u \in {Feed, [Feed EXCEPT !.clean = FALSE]}, a \in {0, 24}, c \in {GetOnly, Failing}}
Hcl(bodies) == {<<"hcl", b>> : b \in bodies}
CanonicalEndpoint(tls, hosts) == [name |-> "one", kind |-> "https", family |-> "http", transport |-> "https-mitm", tls |-> tls, capabilities |-> {"credential-injection"},
  registries |-> <<>>, feed |-> {}, age |-> {}, egress |-> {}, source |-> <<>>, destination |-> <<>>, protocol |-> "any", ports |-> <<>>, hosts |-> hosts]
JsonPolicies == {<<"json", [version |-> IF i = 1 THEN 2 ELSE 1, default |-> "allow",
  endpoints |-> <<CanonicalEndpoint(IF i = 2 THEN "none" ELSE "terminate", <<[HostAt(<<"com", "x">>, 0) EXCEPT !.raw = i = 3]>>)>>, credentials |-> <<>>,
  rules |-> <<[name |-> {}, endpoints |-> <<IF i = 4 THEN "two" ELSE "one">>, credential |-> {}, tunnel |-> {}, verdict |-> "deny", priority |-> 0, disabled |-> FALSE, condition |-> {}]>>,
  tailscale |-> <<>>, forwards |-> <<>>]>> : i \in 1..4}
PolicyInstances == Hcl(IpPolicies) \cup Hcl(TunnelPolicies) \cup Hcl(WebPolicies) \cup Hcl(CredPolicies) \cup Hcl(BothWays) \cup Hcl(ForwardPolicies) \cup Hcl(RegistryPolicies) \cup JsonPolicies
FlowInstances == {[protocol |-> p, from |-> f, to |-> t, port |-> n, tailnet |-> n = 443] : p \in {"tcp", "udp"}, f \in {"g"}, t \in {"a", "b"}, n \in {80, 443, 65535}}
RequestInstances == {[kind |-> k, labels |-> l, port |-> n, good |-> g, class |-> c, query |-> q] : k \in {"https"}, l \in {<<"com", "x">>, <<"com", "x", "y">>}, n \in {0, 8443}, g \in {TRUE}, c \in {"get", "post"}, q \in {TRUE}}
  \cup {[kind |-> k, labels |-> <<"com", "x">>, port |-> 0, good |-> g, class |-> "get", query |-> q] : k \in {"http", "https", "registries"}, g \in BOOLEAN, q \in BOOLEAN}
  \cup {[kind |-> "https", labels |-> <<"com">>, port |-> 0, good |-> TRUE, class |-> "get", query |-> TRUE]}

Parts == {"jobs", "images", "upload", "download", "directory", "reports", "boot", "config", "policy"}

IdleImgScopes == CHOOSE s \in ImgScopes : TRUE
IdleUpScopes == CHOOSE s \in UpScopes : TRUE
IdleDlScopes == CHOOSE s \in DlScopes : TRUE
IdleDirScopes == CHOOSE s \in DirScopes : TRUE
IdleReportScopes == CHOOSE s \in ReportScopes : TRUE
IdleBootScopes == CHOOSE s \in BootScopes : TRUE
IdleConfigScopes == CHOOSE s \in ConfigScopes : TRUE
IdlePolicySources == CHOOSE s \in PolicySources : TRUE

RuntimeInit ==
  /\ part \in Parts
  /\ JobInit
  /\ (part # "images" => imgScope = IdleImgScopes) /\ ImgInit
  /\ (part # "upload" => upScope = IdleUpScopes) /\ UpInit
  /\ (part # "download" => dlScope = IdleDlScopes) /\ DlInit
  /\ (part # "directory" => dirScope = IdleDirScopes) /\ DirInit
  /\ (part # "reports" => variant = IdleReportScopes) /\ ReportsInit
  /\ (part # "boot" => bootScope = IdleBootScopes) /\ GuestBootInit
  /\ (part # "config" => cfgScope = IdleConfigScopes) /\ ConfigInit
  /\ (part # "policy" => polSource = IdlePolicySources) /\ PolInit

RuntimeNext ==
  \/ part = "jobs" /\ JobNext /\ UNCHANGED <<part, imgVars, upVars, dlVars, dirVars, reportVars, bootVars, configVars, polVars>>
  \/ part = "images" /\ ImgNext /\ UNCHANGED <<part, jobVars, upVars, dlVars, dirVars, reportVars, bootVars, configVars, polVars>>
  \/ part = "upload" /\ UpNext /\ UNCHANGED <<part, jobVars, imgVars, dlVars, dirVars, reportVars, bootVars, configVars, polVars>>
  \/ part = "download" /\ DlNext /\ UNCHANGED <<part, jobVars, imgVars, upVars, dirVars, reportVars, bootVars, configVars, polVars>>
  \/ part = "directory" /\ DirNext /\ UNCHANGED <<part, jobVars, imgVars, upVars, dlVars, reportVars, bootVars, configVars, polVars>>
  \/ part = "reports" /\ ReportsNext /\ UNCHANGED <<part, jobVars, imgVars, upVars, dlVars, dirVars, bootVars, configVars, polVars>>
  \/ part = "boot" /\ GuestBootNext /\ UNCHANGED <<part, jobVars, imgVars, upVars, dlVars, dirVars, reportVars, configVars, polVars>>
  \/ part = "config" /\ ConfigNext /\ UNCHANGED <<part, jobVars, imgVars, upVars, dlVars, dirVars, reportVars, bootVars, polVars>>
  \/ part = "policy" /\ PolNext /\ UNCHANGED <<part, jobVars, imgVars, upVars, dlVars, dirVars, reportVars, bootVars, configVars>>

RuntimeVars == <<part, jobVars, imgVars, upVars, dlVars, dirVars, reportVars, bootVars, configVars, polVars>>

RuntimeSpec == RuntimeInit /\ [][RuntimeNext]_RuntimeVars

==============================================================================

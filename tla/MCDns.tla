-------------------------------- MODULE MCDns ---------------------------------
(***************************************************************************)
(* Names and what is done with them: the pool of fake addresses (the       *)
(* extended module), name servers that are asked over UDP and in streams,  *)
(* the client that asks them, the race of dials to the addresses of a name,*)
(* and the dispatcher that sniffs names.                                   *)
(*                                                                         *)
(* The variable part says which of them a behaviour is about; nothing      *)
(* happens to the others.                                                  *)
(***************************************************************************)
EXTENDS FakeDns

VARIABLES
  part,   \* what a behaviour is about
  \* DnsServer
  ips, valid, requests, reqID, net, handling, retries, pc, todo, sub, streams, failed,
  quic,
  \* DnsClient
  cfg, hosts, dnsClientPc, domain, option, order, asked, errs, result,
  \* Dispatcher
  req, handlers, up, down, written, cancelled, cache, dispatcherPending, attempts,
  dispatcherPc, meta, content, target, routeTarget, handler, got,
  \* HappyEyeballs
  given, happyEyeballsIps, next, try, results, timer, win, happyEyeballsCancelled,
  over, open, returned,
  \* DnsOutbound
  kind, sent, client, request, response, conn, ready, workers, server, process, answers,
  \* Router
  arrays, rules, balancers, reload, changes, routerTable, routerTarget, pick

\* The rules of the router, and what they are reloaded with: rules that apply or
\* not, tags and balancers that are there already or not.
Rule(when, tag, balancer) == [when |-> when, ruleTag |-> tag, balancer |-> balancer]
FirstRules == [append |-> FALSE, balancers |-> <<"b">>, rules |-> <<Rule("never", "x", ""), Rule("ip", "y", "b")>>]
Reloads ==
  {[append |-> a, balancers |-> b, rules |-> <<Rule("ip", tag, "b"), Rule("always", "", "")>>] :
     a \in BOOLEAN, b \in {<<>>, <<"b">>}, tag \in {"x", "z"}}

\* A name server of the DNS client, with no rules and no wishes.
Plain ==
  [kind |-> "udp", rules |-> <<>>, sizes |-> <<>>, skipFallback |-> FALSE, finalQuery |-> FALSE,
   strategy |-> {4, 6}, checkSystem |-> FALSE, expected |-> {}, unexpected |-> {}, prior |-> FALSE,
   unprior |-> FALSE]
FakeServer == [Plain EXCEPT !.kind = "fake"]
Asking(servers) ==
  [servers |-> servers, option |-> {4, 6}, checkSystem |-> FALSE, disableFallback |-> FALSE, disableIfMatch |-> FALSE]

\* All that a server may wish of the addresses it returns, before a fake one.
FilterConfigs ==
  {Asking(<<[Plain EXCEPT !.expected = e, !.unexpected = u, !.prior = p, !.unprior = n, !.finalQuery = f,
                          !.checkSystem = c, !.strategy = s], FakeServer>>) :
     e \in {{}, {"a4"}, {"a4", "a6"}}, u \in {{}, {"b4"}}, p \in BOOLEAN, n \in BOOLEAN, f \in BOOLEAN,
     c \in BOOLEAN, s \in {{4}, {4, 6}}}

\* Two servers with rules, and how a fallback is prevented.
OrderServers ==
  {[Plain EXCEPT !.kind = k, !.rules = r, !.sizes = z, !.skipFallback = b] :
     k \in {"udp", "local"}, r \in {<<>>, <<{"d"}, {"d", "e"}>>}, z \in {<<>>, <<2>>}, b \in BOOLEAN}
OrderConfigs ==
  {[Asking(<<s, t>>) EXCEPT !.disableFallback = f, !.disableIfMatch = m] :
     s \in OrderServers, t \in OrderServers, f \in BOOLEAN, m \in BOOLEAN}

\* What a table of hosts may hold for a domain.
HostTables ==
  [{"d", "e", "f"} -> {<<>>, <<<<>>>>, <<<<"a4", "a6">>>>, <<<<"#0">>>>, <<<<"e">>>>, <<<<"f">>>>,
                       <<<<"d">>>>, <<<<"f">>, <<"a6">>>>}]

\* Connections to dispatch: addresses, real and fake, and what sniffing may do.
ByContent ==
  {[address |-> "ip", fake |-> f, enabled |-> TRUE, metadataOnly |-> FALSE, routeOnly |-> r, override |-> o,
    exclude |-> {}, forced |-> "none", route |-> "a"] :
     f \in {"no", "known", "unknown"}, r \in BOOLEAN, o \in {{"http"}, {"fakedns"}}}
ByMetadata ==
  {[address |-> "ip", fake |-> "known", enabled |-> e, metadataOnly |-> TRUE, routeOnly |-> FALSE,
    override |-> {"fakedns+others"}, exclude |-> {}, forced |-> f, route |-> "b"] :
     e \in BOOLEAN, f \in {"none", "a"}}

dnsServerVars == <<ips, valid, requests, reqID, net, handling, retries, pc, todo, sub,
                   streams, failed, quic>>
dnsClientVars == <<cfg, hosts, dnsClientPc, domain, option, order, asked, errs, result>>
dispatcherVars == <<req, handlers, up, down, written, cancelled, cache,
                    dispatcherPending, attempts, dispatcherPc, meta, content, target,
                    routeTarget, handler, got>>
happyEyeballsVars == <<given, happyEyeballsIps, next, try, results, timer, win,
                       happyEyeballsCancelled, over, open, returned>>
dnsOutboundVars == <<kind, sent, client, request, response, conn, ready, workers,
                     server, process, answers>>
routerVars == <<arrays, rules, balancers, reload, changes, routerTable, routerTarget,
                pick>>

\* One domain, records that expire, three identifiers.
Server == INSTANCE DnsServer WITH
  Queries <- {1, 2}, Domains <- {"a"}, DomainOf <- [q \in {1, 2} |-> "a"],
  OptionOf <- [q \in {1, 2} |-> IF q = 1 THEN {4, 6} ELSE {4}], IdSpace <- 3,
  MayExpire <- TRUE, MayLose <- TRUE, OwnNames <- {}, Transport <- "udp",
  DisableCache <- FALSE, MaxRetries <- 0

\* Two domains.
Ids == INSTANCE DnsServer WITH
  Queries <- {1, 2}, Domains <- {"a", "b"},
  DomainOf <- [q \in {1, 2} |-> IF q = 1 THEN "a" ELSE "b"],
  OptionOf <- [q \in {1, 2} |-> IF q = 1 THEN {4, 6} ELSE {4}], IdSpace <- 64,
  MayExpire <- FALSE, MayLose <- TRUE, OwnNames <- {}, Transport <- "udp",
  DisableCache <- FALSE, MaxRetries <- 1

\* A name server without a cache.
Uncached == INSTANCE DnsServer WITH
  Queries <- {1, 2}, Domains <- {"a"}, DomainOf <- [q \in {1, 2} |-> "a"],
  OptionOf <- [q \in {1, 2} |-> IF q = 1 THEN {4, 6} ELSE {4}], IdSpace <- 64,
  MayExpire <- FALSE, MayLose <- FALSE, OwnNames <- {}, Transport <- "udp",
  DisableCache <- TRUE, MaxRetries <- 1

\* A name server that is asked over QUIC.
Quic == INSTANCE DnsServer WITH
  Queries <- {1, 2}, Domains <- {"a"}, DomainOf <- [q \in {1, 2} |-> "a"],
  OptionOf <- [q \in {1, 2} |-> IF q = 1 THEN {4, 6} ELSE {4}], IdSpace <- 64,
  MayExpire <- FALSE, MayLose <- FALSE, OwnNames <- {}, Transport <- "quic",
  DisableCache <- FALSE, MaxRetries <- 0

\* What the client does with addresses.
Filters == INSTANCE DnsClient WITH
  Domains <- {"d"}, Family <- [a4 |-> 4, b4 |-> 4, a6 |-> 6], Configs <- FilterConfigs,
  Hosts <- {[d |-> <<>>]}, LocalRules <- <<{"d"}>>, MaxDepth <- 1, pc <- dnsClientPc

\* Static hosts.
Statics == INSTANCE DnsClient WITH
  Domains <- {"d", "e", "f"}, Family <- [a4 |-> 4, a6 |-> 6],
  Configs <- {Asking(<<FakeServer>>)}, Hosts <- HostTables, LocalRules <- <<{"d"}>>,
  MaxDepth <- 1, pc <- dnsClientPc

\* Which servers are asked.
Order == INSTANCE DnsClient WITH
  Domains <- {"d", "e"}, Family <- [a4 |-> 4], Configs <- OrderConfigs,
  Hosts <- {[d |-> <<>>, e |-> <<>>]}, LocalRules <- <<{"e"}>>, MaxDepth <- 1,
  pc <- dnsClientPc

\* The dispatcher.
Sniffing == INSTANCE Dispatcher WITH
  Requests <- ByContent \cup ByMetadata, Sniffers <- <<"http1", "bittorrent">>,
  Chunks <- 3, Hollow <- {2}, Tags <- {"a", "b"}, pending <- dispatcherPending,
  pc <- dispatcherPc

\* Dialling the addresses of a name.
Race == INSTANCE HappyEyeballs WITH
  MaxIPs <- 3, MaxConcurrentTry <- 2, Interleaves <- {1}, MayCancel <- TRUE,
  ips <- happyEyeballsIps, cancelled <- happyEyeballsCancelled

\* The DNS outbound.
Outbound == INSTANCE DnsOutbound WITH
  N <- 2, NonIPQuery <- "skip", BlockTypes <- {}, OwnLink <- FALSE, MayFail <- TRUE

\* One that refuses queries.
Refusing == INSTANCE DnsOutbound WITH
  N <- 2, NonIPQuery <- "reject", BlockTypes <- {"other"}, OwnLink <- FALSE,
  MayFail <- FALSE

\* The rules of the router.
Routing == INSTANCE Router WITH
  Configs <- Reloads, FirstConfig <- FirstRules, Strategy <- "IpIfNonMatch",
  Skips <- BOOLEAN, RuleTags <- {"x", "y"}, Pickers <- {1}, MaxChanges <- 2,
  table <- routerTable, target <- routerTarget

ASSUME PartsAssumption ==
  /\ Server!DnsAssumption
  /\ Ids!DnsAssumption
  /\ Uncached!DnsAssumption
  /\ Quic!DnsAssumption
  /\ Filters!DnsClientAssumption
  /\ Statics!DnsClientAssumption
  /\ Order!DnsClientAssumption
  /\ Sniffing!DispatcherAssumption
  /\ Race!RaceAssumption
  /\ Outbound!DnsOutboundAssumption
  /\ Refusing!DnsOutboundAssumption
  /\ Routing!RouterAssumption

Unused == "unused"   \* what the variables of the other parts are

PartsInit ==
  /\ part \in {"fake", "server", "ids", "uncached", "quic", "filters", "hosts", "order", "sniffing", "race", "outbound", "refusing", "routing"}
  /\ Init
  /\ \/ part = "server" /\ Server!Init
     \/ part = "ids" /\ Ids!Init
     \/ part = "uncached" /\ Uncached!Init
     \/ part = "quic" /\ Quic!Init
     \/ part \notin {"server", "ids", "uncached", "quic"} /\ ips = Unused
        /\ valid = Unused /\ requests = Unused /\ reqID = Unused /\ net = Unused
        /\ handling = Unused /\ retries = Unused /\ pc = Unused /\ todo = Unused
        /\ sub = Unused /\ streams = Unused /\ failed = Unused /\ quic = Unused
  /\ \/ part = "filters" /\ Filters!Init
     \/ part = "hosts" /\ Statics!Init
     \/ part = "order" /\ Order!Init
     \/ part \notin {"filters", "hosts", "order"} /\ cfg = Unused /\ hosts = Unused
        /\ dnsClientPc = Unused /\ domain = Unused /\ option = Unused /\ order = Unused
        /\ asked = Unused /\ errs = Unused /\ result = Unused
  /\ \/ part = "sniffing" /\ Sniffing!Init
     \/ part # "sniffing" /\ req = Unused /\ handlers = Unused /\ up = Unused
        /\ down = Unused /\ written = Unused /\ cancelled = Unused /\ cache = Unused
        /\ dispatcherPending = Unused /\ attempts = Unused /\ dispatcherPc = Unused
        /\ meta = Unused /\ content = Unused /\ target = Unused /\ routeTarget = Unused
        /\ handler = Unused /\ got = Unused
  /\ \/ part = "race" /\ Race!Init
     \/ part # "race" /\ given = Unused /\ happyEyeballsIps = Unused /\ next = Unused
        /\ try = Unused /\ results = Unused /\ timer = Unused /\ win = Unused
        /\ happyEyeballsCancelled = Unused /\ over = Unused /\ open = Unused
        /\ returned = Unused
  /\ \/ part = "outbound" /\ Outbound!Init
     \/ part = "refusing" /\ Refusing!Init
     \/ part \notin {"outbound", "refusing"} /\ kind = Unused /\ sent = Unused
        /\ client = Unused /\ request = Unused /\ response = Unused /\ conn = Unused
        /\ ready = Unused /\ workers = Unused /\ server = Unused /\ process = Unused
        /\ answers = Unused
  /\ \/ part = "routing" /\ Routing!Init
     \/ part # "routing" /\ arrays = Unused /\ rules = Unused /\ balancers = Unused
        /\ reload = Unused /\ changes = Unused /\ routerTable = Unused
        /\ routerTarget = Unused /\ pick = Unused

PartsNext ==
  \/ part = "fake" /\ Next
     /\ UNCHANGED <<part, dnsServerVars, dnsClientVars, dispatcherVars, happyEyeballsVars, dnsOutboundVars, routerVars>>
  \/ part = "server" /\ Server!Next
     /\ UNCHANGED <<part, vars, dnsClientVars, dispatcherVars, happyEyeballsVars, dnsOutboundVars, routerVars>>
  \/ part = "ids" /\ Ids!Next
     /\ UNCHANGED <<part, vars, dnsClientVars, dispatcherVars, happyEyeballsVars, dnsOutboundVars, routerVars>>
  \/ part = "uncached" /\ Uncached!Next
     /\ UNCHANGED <<part, vars, dnsClientVars, dispatcherVars, happyEyeballsVars, dnsOutboundVars, routerVars>>
  \/ part = "quic" /\ Quic!Next
     /\ UNCHANGED <<part, vars, dnsClientVars, dispatcherVars, happyEyeballsVars, dnsOutboundVars, routerVars>>
  \/ part = "filters" /\ Filters!Next
     /\ UNCHANGED <<part, vars, dnsServerVars, dispatcherVars, happyEyeballsVars, dnsOutboundVars, routerVars>>
  \/ part = "hosts" /\ Statics!Next
     /\ UNCHANGED <<part, vars, dnsServerVars, dispatcherVars, happyEyeballsVars, dnsOutboundVars, routerVars>>
  \/ part = "order" /\ Order!Next
     /\ UNCHANGED <<part, vars, dnsServerVars, dispatcherVars, happyEyeballsVars, dnsOutboundVars, routerVars>>
  \/ part = "sniffing" /\ Sniffing!Next
     /\ UNCHANGED <<part, vars, dnsServerVars, dnsClientVars, happyEyeballsVars, dnsOutboundVars, routerVars>>
  \/ part = "race" /\ Race!Next
     /\ UNCHANGED <<part, vars, dnsServerVars, dnsClientVars, dispatcherVars, dnsOutboundVars, routerVars>>
  \/ part = "outbound" /\ Outbound!Next
     /\ UNCHANGED <<part, vars, dnsServerVars, dnsClientVars, dispatcherVars, happyEyeballsVars, routerVars>>
  \/ part = "refusing" /\ Refusing!Next
     /\ UNCHANGED <<part, vars, dnsServerVars, dnsClientVars, dispatcherVars, happyEyeballsVars, routerVars>>
  \/ part = "routing" /\ Routing!Next
     /\ UNCHANGED <<part, vars, dnsServerVars, dnsClientVars, dispatcherVars, happyEyeballsVars, dnsOutboundVars>>

PartsSpec == PartsInit /\ [][PartsNext]_<<part, vars, dnsServerVars, dnsClientVars, dispatcherVars, happyEyeballsVars, dnsOutboundVars, routerVars>>

-----------------------------------------------------------------------------
(* No query waits for an answer that is in the cache already, and one that *)
(* was told of an answer finds it when it looks.                           *)
NoLostWakeup ==
  /\ part = "server" => Server!NoLostWakeup
  /\ part = "quic" => Quic!NoLostWakeup /\ Quic!ToldIsFound
  /\ part = "uncached" => Uncached!ToldIsFound




(* Happy eyeballs: TcpRaceDial hands over the connection that won and      *)
(* closes every other one, nothing still dials when it returns, it fails   *)
(* only after every address has, no more dials than MaxConcurrentTry run   *)
(* at a time, and what the code calls impossible is. sortIPs lets the      *)
(* families take turns as RFC 8305 wants.                                  *)
RaceIsRight == part = "race" => Race!RaceIsRight /\ Race!SortedAsTurns
=============================================================================

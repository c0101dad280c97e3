----------------------------- MODULE DnsClient ------------------------------
(***************************************************************************)
(* The DNS client (app/dns/dns.go, nameserver.go, hosts.go): how a domain  *)
(* is looked up in the static hosts, which name servers are asked in which *)
(* order, and what of their answers is returned.  A name server answers,   *)
(* fails or times out as it likes.                                         *)
(***************************************************************************)
EXTENDS Integers, Sequences, FiniteSets, SequencesExt, FiniteSetsExt

CONSTANTS
  Domains,
  Family,       \* Family[ip]: 4 or 6
  Configs,      \* configurations of the client
  Hosts,        \* tables of static hosts: what the matchers that match a domain hold
  LocalRules,   \* the rules added for "localhost": a sequence of sets of domains
  MaxDepth      \* of replaced domains: 5

IPs == DOMAIN Family
IsDomain(a) == a \in Domains
RCodes == {"#0", "#3"}

\* What the constants must satisfy.
DnsClientAssumption ==
  /\ \A i \in IPs : Family[i] \in {4, 6}
  /\ \A h \in Hosts : \A d \in Domains : \A k \in DOMAIN h[d] : Range(h[d][k]) \subseteq IPs \cup Domains \cup RCodes
  /\ \A c \in Configs : \A k \in DOMAIN c.servers : c.servers[k].kind \in {"udp", "local", "fake"}
  /\ MaxDepth \in Nat

VARIABLES
  cfg, hosts,   \* the configuration
  pc, domain, option,
  order, asked, \* clients in the order in which they are asked, and how many have been
  errs,         \* what those that gave no answer have returned
  result

vars == <<cfg, hosts, pc, domain, option, order, asked, errs, result>>

-----------------------------------------------------------------------------
(* New and NewClient: one matcher per rule, and where it belongs to. *)

Servers == cfg.servers
RulesOf(s) == IF s.kind = "local" THEN s.rules \o LocalRules ELSE s.rules
SizesOf(s) == IF s.kind = "local" THEN Append(s.sizes, Len(LocalRules)) ELSE s.sizes

\* A rule the user wrote stands for as many domains as its size says.
NextRule(acc, size) == IF acc.iter >= size THEN [acc EXCEPT !.iter = 0, !.curr = @ + 1] ELSE acc

(* For each domain of a server the index of the rule it comes from, and how*)
(* many rules there are.                                                   *)
RuleIndexes(s) ==
  LET sizes == SizesOf(s)
      step(acc) ==
        IF acc.curr < Len(sizes)
        THEN NextRule([acc EXCEPT !.idx = Append(@, acc.curr), !.iter = @ + 1,
                                  !.rules = IF acc.curr >= @ THEN @ + 1 ELSE @], sizes[acc.curr + 1])
        ELSE [acc EXCEPT !.idx = Append(@, acc.curr), !.rules = @ + 1, !.curr = @ + 1] IN
  FoldLeft(LAMBDA acc, r : step(acc), [idx |-> <<>>, rules |-> 0, curr |-> 0, iter |-> 0], RulesOf(s))

\* The matchers: they are numbered from 1 over all servers.
Matchers ==
  FoldLeft(LAMBDA acc, k : acc \o [i \in 1 .. Len(RulesOf(Servers[k])) |->
                                    [client |-> k, rule |-> RuleIndexes(Servers[k]).idx[i], domains |-> RulesOf(Servers[k])[i]]],
           <<>>, [k \in DOMAIN Servers |-> k])

\* The places made for them, counted before the rules of "localhost" are added.
Places ==
  FoldLeft(LAMBDA n, s : n + Len(s.rules), 1, Servers)
    + Len(LocalRules) * Cardinality({k \in DOMAIN Servers : Servers[k].kind = "local"})

\* ResolveIpOptionOverride.
OptionOf(s) == cfg.option \cap s.strategy

-----------------------------------------------------------------------------
(* Static hosts. *)

Answer(err, found, addrs) == [err |-> err, found |-> found, addrs |-> addrs]

lookupInternal(d) ==
  LET codes == {k \in DOMAIN hosts[d] : Range(hosts[d][k]) \cap RCodes # {}}
      code == CHOOSE c \in Range(hosts[d][Min(codes)]) : c \in RCodes IN
  IF codes # {} THEN Answer(IF code = "#0" THEN "empty" ELSE "rcode", FALSE, <<>>)
  ELSE Answer("", hosts[d] # <<>>, FlattenSeq(hosts[d]))

filterIP(addrs, opt) == SelectSeq(addrs, LAMBDA a : a \in IPs /\ Family[a] \in opt)

\* What lookup returns for a replaced domain, when the inner lookup has returned.
Unwrap(inner, a) == IF inner.err # "" \/ inner.found THEN inner ELSE a

\* lookup, with at most MaxDepth domains unwrapped.
Lookup(dom, opt) ==
  LET at[n \in 0 .. MaxDepth, d \in Domains] ==
        LET a == lookupInternal(d) IN
        IF a.err # "" \/ a.addrs = <<>> THEN a
        ELSE IF Len(a.addrs) = 1 /\ IsDomain(a.addrs[1])
        THEN IF n > 0 THEN Unwrap(at[n - 1, a.addrs[1]], a) ELSE a
        ELSE Answer("", TRUE, filterIP(a.addrs, opt)) IN
  at[MaxDepth, dom]

-----------------------------------------------------------------------------
(* LookupIP. *)


\* sortClients: those a rule chooses, in the order of the rules, then the others.
sortClients(d) ==
  LET matched == SelectSeq(Matchers, LAMBDA m : d \in m.domains)
      chosen == FoldLeft(LAMBDA acc, m : IF m.client \in Range(acc) THEN acc ELSE Append(acc, m.client), <<>>, matched)
      rest == SelectSeq([k \in DOMAIN Servers |-> k], LAMBDA k : ~Servers[k].skipFallback /\ k \notin Range(chosen))
      all == IF cfg.disableFallback \/ (cfg.disableIfMatch /\ chosen # <<>>) THEN chosen ELSE chosen \o rest IN
  IF all = <<>> THEN <<1>> ELSE all

Init ==
  /\ cfg \in Configs /\ hosts \in Hosts
  /\ domain \in Domains /\ option \in [families : SUBSET {4, 6}, fake : BOOLEAN]
  /\ pc = "start" /\ order = <<>> /\ asked = 0 /\ errs = {}
  /\ result = Answer("", FALSE, <<>>)

Return(err, ips) ==
  /\ pc' = "done"
  /\ result' = Answer(err, ips # {}, SetToSeq(ips))

\* The families that are asked for: those the system has, or those configured.
Wanted(families, check, configured, system) == families \cap IF check THEN system ELSE configured

StartLookup ==
  /\ pc = "start"
  /\ \E system \in SUBSET {4, 6} :
       LET families == Wanted(option.families, cfg.checkSystem, cfg.option, system)
           a == Lookup(domain, families) IN
       /\ option' = [option EXCEPT !.families = families]
       /\ IF families = {} THEN Return("empty", {}) /\ UNCHANGED <<domain, order>>
          ELSE IF a.err # "" THEN Return(a.err, {}) /\ UNCHANGED <<domain, order>>
          ELSE IF ~a.found
          THEN pc' = "ask" /\ order' = sortClients(domain) /\ UNCHANGED <<domain, result>>
          ELSE IF a.addrs = <<>> THEN Return("empty", {}) /\ UNCHANGED <<domain, order>>
          ELSE IF Len(a.addrs) = 1 /\ IsDomain(a.addrs[1])
          THEN /\ pc' = "ask" /\ domain' = a.addrs[1] /\ order' = sortClients(a.addrs[1])
               /\ UNCHANGED result
          ELSE Return("", Range(a.addrs)) /\ UNCHANGED <<domain, order>>
  /\ UNCHANGED <<cfg, hosts, asked, errs>>

MatchIPs(set, ips, reverse) == IF reverse THEN ips \ set ELSE ips \cap set

(* What QueryIP of a client makes of an answer: lists of expected and      *)
(* unexpected addresses filter it, or, if they are only a preference, are  *)
(* obeyed where something is left.                                         *)
Filter(s, ips) ==
  LET must == IF s.expected # {} /\ ~s.prior THEN MatchIPs(s.expected, ips, FALSE) ELSE ips
      mustNot == IF s.unexpected # {} /\ ~s.unprior THEN MatchIPs(s.unexpected, must, TRUE) ELSE must
      liked == MatchIPs(s.expected, mustNot, FALSE)
      prior == IF s.expected # {} /\ s.prior /\ liked # {} THEN liked ELSE mustNot
      left == MatchIPs(s.unexpected, prior, TRUE) IN
  IF s.unexpected # {} /\ s.unprior /\ left # {} THEN left ELSE prior

\* What a server may answer when it is asked for some families.
Answers(families) == SUBSET {i \in IPs : Family[i] \in families}

\* One turn of the loop over the clients.
QueryIP ==
  LET s == Servers[order[asked + 1]] IN
  /\ pc = "ask" /\ asked < Len(order)
  /\ asked' = asked + 1
  /\ IF s.kind = "fake" /\ ~option.fake THEN UNCHANGED <<pc, errs, result>>
     ELSE \E system \in SUBSET {4, 6} :
       LET families == Wanted(option.families, s.checkSystem, OptionOf(s), system) IN
       \E ips \in Answers(families), err \in {"empty", "timeout"} :
         LET got == Filter(s, ips)
             failed == IF ips = {} /\ families # {} THEN err ELSE "empty" IN
         IF got # {} THEN Return("", got) /\ UNCHANGED errs
         ELSE /\ errs' = errs \cup {failed}
              /\ IF s.finalQuery THEN Return(IF errs' = {"empty"} THEN "empty" ELSE "error", {})
                 ELSE UNCHANGED <<pc, result>>
  /\ UNCHANGED <<cfg, hosts, domain, option, order>>

\* No client is left.
NoAnswer ==
  /\ pc = "ask" /\ asked = Len(order)
  /\ Return(IF errs \subseteq {"empty"} THEN "empty" ELSE "error", {})
  /\ UNCHANGED <<cfg, hosts, domain, option, order, asked, errs>>

Next == StartLookup \/ QueryIP \/ NoAnswer

Spec == Init /\ [][Next]_vars

-----------------------------------------------------------------------------
(* sortClients and the loop, against what the options mean: nobody is asked*)
(* twice; a client that no rule has chosen is asked after every one that   *)
(* was chosen, in the order of the configuration, and only if falling back *)
(* is allowed to it; and nobody is asked after a final client.             *)
AskedInOrder ==
  LET chosen(k) == \E i \in DOMAIN RulesOf(Servers[k]) : domain \in RulesOf(Servers[k])[i]
      some == \E k \in DOMAIN Servers : chosen(k) IN
  order # <<>> =>
    /\ IsInjective(order)
    /\ \A i, j \in DOMAIN order : i < j /\ (chosen(order[j]) \/ ~chosen(order[i])) => order[i] < order[j] /\ (chosen(order[j]) => chosen(order[i]))
    /\ \A k \in DOMAIN Servers : chosen(k) => k \in Range(order)
    /\ \A k \in DOMAIN Servers : ~chosen(k) /\ order # <<1>> =>
         (k \in Range(order) <=> ~Servers[k].skipFallback /\ ~cfg.disableFallback /\ ~(cfg.disableIfMatch /\ some))
    /\ \A i \in 1 .. asked - 1 : ~(Servers[order[i]].finalQuery /\ (Servers[order[i]].kind = "fake" => option.fake))

(* Whatever is returned is of a family that was asked for and that the     *)
(* configuration allows; an address of a name server is expected and not   *)
(* unexpected where its client insists on that; and a fake one is returned *)
(* only to those who ask for fakes.                                        *)
AnswerIsAllowed ==
  pc = "done" /\ result.found =>
    LET ips == Range(result.addrs)
        s == Servers[order[asked]] IN
    /\ \A i \in ips : Family[i] \in option.families
    /\ order # <<>> =>
         /\ s.expected # {} /\ ~s.prior => ips \subseteq s.expected
         /\ s.unexpected # {} /\ ~s.unprior => ips \cap s.unexpected = {}
         /\ ~s.checkSystem => \A i \in ips : Family[i] \in OptionOf(s)
         /\ s.kind = "fake" => option.fake

(* lookup of the static hosts, against the chain of replaced domains: it   *)
(* ends in a cycle too, and what it finds is what the last domain of the   *)
(* chain holds, or that domain if it is not in the table.                  *)
HostsAreFollowed ==
  LET single(d) == lookupInternal(d).err = "" /\ Len(lookupInternal(d).addrs) = 1 /\ IsDomain(lookupInternal(d).addrs[1])
      chain[n \in 0 .. MaxDepth + 1] ==
        IF n = 0 THEN domain
        ELSE IF single(chain[n - 1]) THEN lookupInternal(chain[n - 1]).addrs[1] ELSE chain[n - 1]
      end == chain[MaxDepth + 1]
      a == Lookup(domain, option.families) IN
  pc = "start" =>
    IF single(chain[MaxDepth]) \/ (lookupInternal(end) = Answer("", FALSE, <<>>) /\ end # domain)
    THEN a = Answer("", TRUE, <<end>>)
    ELSE LET held == lookupInternal(end) IN
         a = IF held.err # "" \/ held.addrs = <<>> THEN held ELSE Answer("", TRUE, filterIP(held.addrs, option.families))

(* New and NewClient: every matcher has a place in the table and refers to *)
(* a rule its client has, also when rules were added for "localhost".      *)
IndexesInRange ==
  /\ Len(Matchers) < Places
  /\ \A m \in Range(Matchers) : m.rule < RuleIndexes(Servers[m.client]).rules
=============================================================================

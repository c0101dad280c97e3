------------------------------- MODULE Handlers -------------------------------
(***************************************************************************)
(* The managers of the inbound and of the outbound handlers                *)
(* (app/proxyman/inbound, app/proxyman/outbound).  Handlers are added and  *)
(* removed while the instance runs (app/proxyman/command), every call      *)
(* under the lock of its manager; only Select, which the balancers and the *)
(* observatory call for each connection, looks into a cache of its own     *)
(* before it takes the lock.                                               *)
(***************************************************************************)
EXTENDS Integers, Sequences, SequencesExt

CONSTANTS
  Inbounds,    \* inbound handlers
  Ports,       \* Ports[h]: the ports of an inbound handler, in order
  Networks,    \* Networks[h]: the networks of its proxy
  Outbounds,   \* outbound handlers
  TagOf,       \* TagOf[h]: the tag of a handler, "" for none
  Selectors,   \* what Select is called with
  Matches,     \* Matches[s]: the tags with a prefix in selector list s
  Callers,     \* goroutines that call Select
  MaxChanges   \* how often a test of the model changes the outbounds

\* What the constants must satisfy.
HandlersAssumption ==
  /\ MaxChanges \in Nat
  /\ Selectors # {}
  /\ "" \notin UNION {Matches[s] : s \in Selectors}
  /\ DOMAIN TagOf = Inbounds \cup Outbounds

VARIABLES
  phase,       \* the instance: "new", "running" or "closed"
  inbounds,    \* the inbound handlers in the tables
  listening,   \* workers that listen
  outbounds,   \* the outbound handlers in the tables
  default,     \* defaultHandler, or "nil"
  tagsCache,   \* the map in use; maps are numbered as they are made
  cached,      \* cached[m][s]: what map m holds under s, a set of at most one
  at,          \* at[c]: where a caller of Select is, with what and which map
  got,         \* what it was given
  held         \* held[c]: selections that were right since its call (a history)

inVars == <<inbounds, listening>>
outVars == <<outbounds, default, tagsCache, cached, held>>
callVars == <<at, got>>
vars == <<phase, inVars, outVars, callVars>>

Tags == {TagOf[h] : h \in Inbounds \cup Outbounds}
Tagged(H) == {h \in H : TagOf[h] # ""}
WithTag(H, tag) == {h \in H : TagOf[h] = tag}

\* A new map, and a goroutine that is not in Select.
Empty == [s \in Selectors |-> {}]
Idle == [pc |-> "idle", with |-> CHOOSE s \in Selectors : TRUE, map |-> 0]

Init ==
  /\ phase = "new" /\ inbounds = {} /\ listening = {}
  /\ outbounds = {} /\ default = "nil" /\ tagsCache = 1 /\ cached = <<Empty>>
  /\ at = [c \in Callers |-> Idle] /\ got = [c \in Callers |-> {}]
  /\ held = [c \in Callers |-> {}]

-----------------------------------------------------------------------------
\* NewAlwaysOnInboundHandler: a worker for each port and network, in this order.
NewAlwaysOnInboundHandler(h) ==
  IF Ports[h] = <<>>
    THEN IF "unix" \in Networks[h] THEN <<[of |-> h, port |-> 0, net |-> "unix"]>> ELSE <<>>
    ELSE FlattenSeq([i \in DOMAIN Ports[h] |->
           [j \in 1..Len(SelectSeq(<<"tcp", "udp">>, LAMBDA n : n \in Networks[h])) |->
              [of |-> h, port |-> Ports[h][i],
               net |-> SelectSeq(<<"tcp", "udp">>, LAMBDA n : n \in Networks[h])[j]]]])

WorkersOf(H) == UNION {Range(NewAlwaysOnInboundHandler(h)) : h \in H}

\* The first k workers of a handler.
Before(h, k) ==
  {NewAlwaysOnInboundHandler(h)[i] : i \in DOMAIN NewAlwaysOnInboundHandler(h) \cap (1..k)}

\* A port can be listened on once for each network.
MayListen(W) == \A v, w \in W : v # w => <<v.port, v.net>> # <<w.port, w.net>>

\* AlwaysOnInboundHandler.Start: workers start in order until one fails.
HandlerStart(h) ==
  \E k \in 0..Len(NewAlwaysOnInboundHandler(h)) :
    MayListen(listening \cup Before(h, k)) /\ listening' = listening \cup Before(h, k)

\* Manager.Start: tagged handlers, then the others, until one fails.
StartInbounds ==
  \E full \in SUBSET inbounds :
    /\ full \subseteq Tagged(inbounds) \/ Tagged(inbounds) \subseteq full
    /\ \/ full = inbounds /\ listening' = WorkersOf(full)
       \/ \E h \in inbounds \ full :
            /\ TagOf[h] # "" \/ Tagged(inbounds) \subseteq full
            /\ \E k \in 0..Len(NewAlwaysOnInboundHandler(h)) - 1 :
                 listening' = WorkersOf(full) \cup Before(h, k)
    /\ MayListen(listening')

Start ==
  /\ phase = "new"
  /\ phase' = "running"
  /\ StartInbounds
  /\ UNCHANGED <<inbounds, outVars, callVars>>

\* Manager.Close: every handler is closed, with every worker, whatever fails.
Close ==
  /\ phase = "running"
  /\ phase' = "closed"
  /\ listening' = listening \ WorkersOf(inbounds)
  /\ UNCHANGED <<inbounds, outVars, callVars>>

\* Manager.AddHandler of the inbounds.
AddInbound(h) ==
  /\ h \notin inbounds
  /\ TagOf[h] = "" \/ WithTag(inbounds, TagOf[h]) = {}
  /\ inbounds' = inbounds \cup {h}
  /\ IF phase = "running" THEN HandlerStart(h) ELSE UNCHANGED listening
  /\ UNCHANGED <<phase, outVars, callVars>>

\* Manager.RemoveHandler of the inbounds.
RemoveInbound(tag) ==
  /\ tag # "" /\ WithTag(inbounds, tag) # {}
  /\ listening' = listening \ WorkersOf(WithTag(inbounds, tag))
  /\ inbounds' = inbounds \ WithTag(inbounds, tag)
  /\ UNCHANGED <<phase, outVars, callVars>>

-----------------------------------------------------------------------------
\* What Select makes of the table of tagged handlers.
Selection(H, s) == {TagOf[h] : h \in H} \cap Matches[s]

ResetCache ==
  /\ tagsCache <= MaxChanges
  /\ tagsCache' = tagsCache + 1
  /\ cached' = Append(cached, Empty)

\* What the callers of Select may be told from now on.
Told ==
  held' = [c \in Callers |-> IF at[c].pc = "idle" THEN {}
                              ELSE held[c] \cup {Selection(outbounds', at[c].with)}]

\* Manager.AddHandler of the outbounds; a tag that exists is an error.
AddOutbound(h) ==
  /\ h \notin outbounds
  /\ ResetCache
  /\ default' = IF default = "nil" THEN h ELSE default
  /\ outbounds' = IF TagOf[h] # "" /\ WithTag(outbounds, TagOf[h]) # {} THEN outbounds
                  ELSE outbounds \cup {h}
  /\ Told
  /\ UNCHANGED <<phase, inVars, callVars>>

\* Mutant: the map of an earlier table stays in use.
RemoveKeepsCache(tag) ==
  /\ tag # "" /\ tagsCache <= MaxChanges
  /\ outbounds' = outbounds \ WithTag(outbounds, tag)
  /\ default' = IF default # "nil" /\ TagOf[default] = tag THEN "nil" ELSE default
  /\ Told
  /\ UNCHANGED <<phase, inVars, callVars, tagsCache, cached>>

\* Manager.RemoveHandler of the outbounds; it does not look whether the tag exists.
RemoveOutbound(tag) ==
  /\ tag # "" /\ ResetCache
  /\ outbounds' = outbounds \ WithTag(outbounds, tag)
  /\ default' = IF default # "nil" /\ TagOf[default] = tag THEN "nil" ELSE default
  /\ Told
  /\ UNCHANGED <<phase, inVars, callVars>>

-----------------------------------------------------------------------------
\* Select reads m.tagsCache without the lock, ...
SelectBegins(c, s) ==
  /\ at[c].pc = "idle"
  /\ at' = [at EXCEPT ![c] = [pc |-> "load", with |-> s, map |-> tagsCache]]
  /\ held' = [held EXCEPT ![c] = {Selection(outbounds, s)}]
  /\ UNCHANGED <<phase, inVars, outbounds, default, tagsCache, cached, got>>

\* ... looks into the map it has read, ...
SelectLoads(c) ==
  /\ at[c].pc = "load"
  /\ LET hit == cached[at[c].map][at[c].with] IN
     IF hit = {} THEN at' = [at EXCEPT ![c].pc = "miss"] /\ UNCHANGED got
     ELSE /\ at' = [at EXCEPT ![c].pc = "returned"]
          /\ got' = [got EXCEPT ![c] = CHOOSE tags \in hit : TRUE]
  /\ UNCHANGED <<phase, inVars, outVars>>

\* ... and fills the map that is in use while it holds the lock.
SelectFills(c) ==
  /\ at[c].pc = "miss"
  /\ LET tags == Selection(outbounds, at[c].with) IN
     /\ got' = [got EXCEPT ![c] = tags]
     /\ cached' = [cached EXCEPT ![tagsCache][at[c].with] = {tags}]
  /\ at' = [at EXCEPT ![c].pc = "returned"]
  /\ UNCHANGED <<phase, inVars, outbounds, default, tagsCache, held>>

\* The caller goes on with the tags.
SelectReturns(c) ==
  /\ at[c].pc = "returned"
  /\ at' = [at EXCEPT ![c] = Idle]
  /\ got' = [got EXCEPT ![c] = {}] /\ held' = [held EXCEPT ![c] = {}]
  /\ UNCHANGED <<phase, inVars, outbounds, default, tagsCache, cached>>

Next ==
  \/ Start \/ Close
  \/ \E h \in Inbounds : AddInbound(h)
  \/ \E h \in Outbounds : AddOutbound(h)
  \/ \E tag \in Tags : RemoveInbound(tag) \/ RemoveOutbound(tag)
  \/ \E c \in Callers :
       \/ \E s \in Selectors : SelectBegins(c, s)
       \/ SelectLoads(c) \/ SelectFills(c) \/ SelectReturns(c)

Spec == Init /\ [][Next]_vars

-----------------------------------------------------------------------------
(* Whatever fails to start or to close, a worker that listens belongs to a *)
(* handler of the tables, where RemoveHandler and Close find it, and none  *)
(* listens once the manager is closed.                                     *)
ListenersManaged ==
  /\ listening \subseteq WorkersOf(inbounds)
  /\ phase = "closed" => listening = {}

(* Select, which reads the pointer to its cache outside the lock, returns  *)
(* the tags that matched at some moment of the call, never those of a      *)
(* table that was replaced before it began.                                *)
SelectIsCurrent == \A c \in Callers : at[c].pc = "returned" => got[c] \in held[c]
=============================================================================

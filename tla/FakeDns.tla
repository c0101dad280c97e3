------------------------------- MODULE FakeDns --------------------------------
(***************************************************************************)
(* The fake DNS holder (app/dns/fakedns/fake.go) on its LRU table          *)
(* (common/cache/lru.go): every domain that is asked for gets an address   *)
(* of the pool, by which a later connection is recognised.  The two maps   *)
(* and the linked list of the table are kept apart here as they are there. *)
(* GetFakeIPForDomain holds the holder's mutex from its Get to its Put;    *)
(* GetDomainFromFakeDNS holds only the table's.                            *)
(***************************************************************************)
EXTENDS Integers, FiniteSets

CONSTANTS
  Domains,
  Rooms,      \* the addresses of the pool are 0..Rooms-1
  LruSize

\* Start and initialize refuse anything else that is not negative.
ASSUME PoolAssumption ==
  /\ Rooms \in Nat /\ LruSize \in Nat \ {0}
  /\ LruSize < Rooms

Addresses == 0..(Rooms - 1)

VARIABLES
  table,      \* the keys of keyToElement, which are those of the list
  addr,       \* addr[d]: the value in the element of d
  byValue,    \* valueToElement: pairs of an address and the key of its element
  newer,      \* the list: pairs of keys, the first nearer to the front
  pending,    \* the domain of the call of GetFakeIPForDomain that has the mutex
  since       \* since[d], for every d that was used: the domains used after the last
              \* use of d (a history)

vars == <<table, addr, byValue, newer, pending, since>>

TypeOK ==
  /\ table \subseteq Domains
  /\ addr \in [Domains -> Addresses]
  /\ byValue \subseteq Addresses \X Domains
  /\ newer \subseteq Domains \X Domains
  /\ pending \subseteq Domains /\ \A d, e \in pending : d = e
  /\ DOMAIN since \subseteq Domains /\ \A d \in DOMAIN since : since[d] \subseteq Domains

Init ==
  /\ table = {} /\ byValue = {} /\ newer = {} /\ pending = {}
  /\ addr = [d \in Domains |-> 0]
  /\ since = [d \in {} |-> {}]

-----------------------------------------------------------------------------
(* The table.                                                              *)

\* MoveToFront and PushFront.
MovedToFront(d) ==
  {p \in newer : p[1] # d /\ p[2] # d} \cup ({d} \X (table \ {d}))

\* History: d is used.
Used(d) ==
  since' = [k \in DOMAIN since \cup {d} |-> IF k = d THEN {} ELSE since[k] \cup {d}]

\* Back, before the new element is pushed to the front.
Back == {k \in table : \A j \in table : <<k, j>> \notin newer}

\* PushFront makes the list longer than the capacity.
Full == Cardinality(table) >= LruSize

\* Mutant: the value of the element that is removed stays in the map.
PutForgets(d, a) ==
  LET out == IF Full THEN Back ELSE {} IN
  /\ table' = (table \ out) \cup {d}
  /\ addr' = [addr EXCEPT ![d] = a]
  /\ byValue' = byValue \cup {<<a, d>>}
  /\ newer' = {p \in MovedToFront(d) : p[1] \notin out /\ p[2] \notin out}

\* Put of a key that is not in the table.
Put(d, a) ==
  LET out == IF Full THEN Back ELSE {} IN
  /\ table' = (table \ out) \cup {d}
  /\ addr' = [addr EXCEPT ![d] = a]
  /\ byValue' = {p \in byValue : \A k \in out : p[1] # addr[k]} \cup {<<a, d>>}
  /\ newer' = {p \in MovedToFront(d) : p[1] \notin out /\ p[2] \notin out}

-----------------------------------------------------------------------------
(* The holder.                                                             *)

\* GetFakeIPForDomain: the table has the domain.
GetFound(d) ==
  /\ pending = {}
  /\ d \in table
  /\ newer' = MovedToFront(d)
  /\ Used(d)
  /\ UNCHANGED <<table, addr, byValue, pending>>

\* It has not.
GetMissed(d) ==
  /\ pending = {}
  /\ d \notin table
  /\ pending' = {d}
  /\ UNCHANGED <<table, addr, byValue, newer, since>>

\* PeekKeyFromValue.
InUse(a) == \E p \in byValue : p[1] = a

\* The loop: from the time in milliseconds, modulo the size of the pool, upwards
\* and round to the first address that is not in use.
FirstFree(now, a) ==
  /\ ~InUse(a)
  /\ IF now <= a THEN \A b \in now..(a - 1) : InUse(b)
                 ELSE \A b \in (now..(Rooms - 1)) \cup (0..(a - 1)) : InUse(b)

Assign(d, now, a) ==
  /\ d \in pending
  /\ FirstFree(now, a)
  /\ Put(d, a)
  /\ Used(d)
  /\ pending' = {}

\* Mutant: the element is not brought to the front.
ResolvePeeks(a, d) ==
  /\ <<a, d>> \in byValue
  /\ Used(d)
  /\ UNCHANGED <<table, addr, byValue, newer, pending>>

\* GetDomainFromFakeDNS with GetKeyFromValue; an address that is not in the
\* table has no domain, and nothing changes.
Resolve(a, d) ==
  /\ <<a, d>> \in byValue
  /\ newer' = IF d \in table THEN MovedToFront(d) ELSE newer
  /\ Used(d)
  /\ UNCHANGED <<table, addr, byValue, pending>>

Next ==
  \/ \E d \in Domains : GetFound(d) \/ GetMissed(d)
  \/ \E d \in Domains, now \in Addresses, a \in Addresses : Assign(d, now, a)
  \/ \E d \in Domains, a \in Addresses : Resolve(a, d)

Spec == Init /\ [][Next]_vars

-----------------------------------------------------------------------------
(* The two maps agree: the address of a domain leads back to that domain,  *)
(* and to no other; no address leads to a domain that is not in the table. *)
Bijective ==
  /\ \A d \in table : <<addr[d], d>> \in byValue
  /\ \A p \in byValue : p[2] \in table /\ p[1] = addr[p[2]]
  /\ \A d, e \in table : addr[d] = addr[e] => d = e

(* The table never holds more than its capacity, so that the search for a  *)
(* free address ends.                                                      *)
RoomLeft == Cardinality(table) <= LruSize /\ \E a \in Addresses : ~InUse(a)

(* A domain is known by its address as long as fewer than LruSize others   *)
(* have been used since.                                                   *)
RecentIsKept == \A d \in DOMAIN since : Cardinality(since[d]) < LruSize => d \in table

(* Put removes what was used longest ago, and no more than it must: the    *)
(* table keeps to its capacity, an address is always left for the next     *)
(* domain, and a domain is forgotten only after LruSize others were used.  *)
EvictionIsRight == RoomLeft /\ RecentIsKept

(* While a domain is in the table its address does not change.             *)
AddressIsStable == [][\A d \in table : d \in table' => addr'[d] = addr[d]]_vars
=============================================================================

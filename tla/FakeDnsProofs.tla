----------------------------- MODULE FakeDnsProofs -----------------------------
(***************************************************************************)
(* For every set of domains, every pool and every capacity: the maps of    *)
(* the fake DNS table are inverse to each other, the address of a domain   *)
(* does not change while the domain is in the table, and the table keeps   *)
(* to its capacity by removing what was used longest ago.                  *)
(***************************************************************************)
EXTENDS FakeDns, FiniteSetTheorems, TLAPS

(* The domain that is being added is not in the table: the mutex is held   *)
(* from the Get that missed to the Put.                                    *)
PendingIsNew == pending \cap table = {}

(* Bijective alone is not inductive: Put of a domain that is in the table  *)
(* would leave its old address behind.                                     *)
IInv == TypeOK /\ Bijective /\ PendingIsNew

(* MoveToFront stays within the domains.                                   *)
LEMMA MovedType ==
  ASSUME TypeOK, NEW d \in Domains
  PROVE  MovedToFront(d) \subseteq Domains \X Domains
BY DEF MovedToFront, TypeOK

(* The history of uses stays within the domains.                           *)
LEMMA UsedType ==
  ASSUME TypeOK, NEW d \in Domains, Used(d)
  PROVE  DOMAIN since' \subseteq Domains /\ \A k \in DOMAIN since' : since'[k] \subseteq Domains
BY DEF Used, TypeOK

(* GetFakeIPForDomain and GetDomainFromFakeDNS keep the two maps of the    *)
(* table, its keys and the pending domain in agreement.                    *)
LEMMA StepKeeps == IInv /\ [Next]_vars => IInv'
<1> SUFFICES ASSUME IInv, [Next]_vars PROVE IInv'
  OBVIOUS
<1> USE DEF IInv
<1>1. ASSUME NEW d \in Domains, GetFound(d) PROVE IInv'
  <2>1. TypeOK'
    BY <1>1, MovedType, UsedType DEF GetFound, TypeOK
  <2> QED BY <1>1, <2>1 DEF GetFound, Bijective, PendingIsNew
<1>2. ASSUME NEW d \in Domains, GetMissed(d) PROVE IInv'
  BY <1>2 DEF GetMissed, TypeOK, Bijective, PendingIsNew
<1>3. ASSUME NEW d \in Domains, NEW now \in Addresses, NEW a \in Addresses, Assign(d, now, a)
      PROVE  IInv'
  <2> DEFINE out == IF Full THEN Back ELSE {}
  <2>1. d \in pending /\ d \notin table /\ ~InUse(a)
    BY <1>3 DEF Assign, FirstFree, PendingIsNew
  <2>2. /\ table' = (table \ out) \cup {d}
        /\ addr' = [addr EXCEPT ![d] = a]
        /\ byValue' = {p \in byValue : \A k \in out : p[1] # addr[k]} \cup {<<a, d>>}
        /\ newer' = {p \in MovedToFront(d) : p[1] \notin out /\ p[2] \notin out}
        /\ pending' = {}
    BY <1>3 DEF Assign, Put
  <2>3. out \subseteq table
    BY DEF Back
  <2> HIDE DEF out
  <2>4. TypeOK'
    <3>1. DOMAIN since' \subseteq Domains /\ \A k \in DOMAIN since' : since'[k] \subseteq Domains
      BY <1>3, UsedType DEF Assign
    <3>2. newer' \subseteq Domains \X Domains
      BY <2>2, MovedType
    <3>3. table' \subseteq Domains /\ addr' \in [Domains -> Addresses]
      BY <2>2 DEF TypeOK
    <3>4. byValue' \subseteq Addresses \X Domains
      BY <2>2 DEF TypeOK
    <3>5. pending' \subseteq Domains /\ \A e, f \in pending' : e = f
      BY <2>2
    <3> QED BY <3>1, <3>2, <3>3, <3>4, <3>5 DEF TypeOK
  <2>5. \A e \in table : addr'[e] = addr[e]
    BY <2>1, <2>2 DEF TypeOK
  <2>6. addr'[d] = a
    BY <2>2 DEF TypeOK
  <2>7. \A e \in table : addr[e] # a
    BY <2>1, Zenon DEF InUse, Bijective
  <2>8. \A e \in table' : <<addr'[e], e>> \in byValue'
    <3> SUFFICES ASSUME NEW e \in table' PROVE <<addr'[e], e>> \in byValue'
      BY Zenon
    <3>1. CASE e = d
      BY <3>1, <2>2, <2>6
    <3>2. CASE e \in table \ out
      <4>1. <<addr[e], e>> \in byValue /\ addr'[e] = addr[e]
        BY <3>2, <2>5 DEF Bijective
      <4>2. \A k \in out : addr[e] # addr[k]
        BY <3>2, <2>3 DEF Bijective
      <4> QED BY <4>1, <4>2, <2>2
    <3> QED BY <3>1, <3>2, <2>2
  <2>9. \A p \in byValue' : p[2] \in table' /\ p[1] = addr'[p[2]]
    <3> SUFFICES ASSUME NEW p \in byValue' PROVE p[2] \in table' /\ p[1] = addr'[p[2]]
      OBVIOUS
    <3>1. CASE p = <<a, d>>
      BY <3>1, <2>2, <2>6
    <3>2. CASE p \in byValue /\ \A k \in out : p[1] # addr[k]
      BY <3>2, <2>2, <2>5 DEF Bijective
    <3> QED BY <3>1, <3>2, <2>2
  <2>10. \A e, f \in table' : addr'[e] = addr'[f] => e = f
    BY <2>2, <2>5, <2>6, <2>7 DEF Bijective
  <2> QED BY <2>2, <2>4, <2>8, <2>9, <2>10 DEF Bijective, PendingIsNew
<1>4. ASSUME NEW d \in Domains, NEW a \in Addresses, Resolve(a, d) PROVE IInv'
  <2>1. TypeOK'
    BY <1>4, MovedType, UsedType DEF Resolve, TypeOK
  <2> QED BY <1>4, <2>1 DEF Resolve, Bijective, PendingIsNew
<1>5. CASE UNCHANGED vars
  BY <1>5 DEF vars, TypeOK, Bijective, PendingIsNew
<1> QED BY <1>1, <1>2, <1>3, <1>4, <1>5 DEF Next

(* NewLru starts with an empty table.                                      *)
LEMMA InitHolds == Init => IInv
BY PoolAssumption DEF Init, IInv, TypeOK, Bijective, PendingIsNew, PoolAssumption, Addresses

(* The maps, the list and the pending domain have their types.             *)
THEOREM TypeCorrect == Spec => []TypeOK
BY InitHolds, StepKeeps, PTL DEF Spec, IInv

(* keyToElement and valueToElement are inverse to each other.              *)
THEOREM MapsAgree == Spec => []Bijective
BY InitHolds, StepKeeps, PTL DEF Spec, IInv

(* Only the domain that is being added gets an address, and it is not in   *)
(* the table.                                                              *)
LEMMA StepStable == IInv /\ [Next]_vars => [\A d \in table : d \in table' => addr'[d] = addr[d]]_vars
<1> SUFFICES ASSUME IInv, Next, NEW e \in table, e \in table' PROVE addr'[e] = addr[e]
  OBVIOUS
<1>1. ASSUME NEW d \in Domains, NEW now \in Addresses, NEW a \in Addresses, Assign(d, now, a)
      PROVE  addr'[e] = addr[e]
  BY <1>1 DEF Assign, Put, IInv, TypeOK, PendingIsNew
<1>2. ASSUME NEW d \in Domains, GetFound(d) \/ GetMissed(d) PROVE addr'[e] = addr[e]
  BY <1>2 DEF GetFound, GetMissed
<1>3. ASSUME NEW d \in Domains, NEW a \in Addresses, Resolve(a, d) PROVE addr'[e] = addr[e]
  BY <1>3 DEF Resolve
<1> QED BY <1>1, <1>2, <1>3 DEF Next

(* The address of a domain is stable while the domain is in the table.     *)
THEOREM Stable == Spec => AddressIsStable
BY InitHolds, StepKeeps, StepStable, PTL DEF Spec, AddressIsStable

-----------------------------------------------------------------------------
(* The list.                                                               *)

\* Of any two elements one is nearer to the front.
Linear(T, N) == \A j, k \in T : j # k => <<j, k>> \in N \/ <<k, j>> \in N

\* Every nonempty set of elements has a last one.
HasLast(T, N) == \A S \in SUBSET T : S # {} => \E k \in S : \A j \in S : <<k, j>> \notin N

\* The pairs N order the elements T.
IsList(T, N) == N \subseteq T \X T /\ Linear(T, N) /\ HasLast(T, N)

\* What is nearer to the front was used later.
ListIsHistory ==
  \A d \in table : d \in DOMAIN since /\ \A j \in table : <<j, d>> \in newer => j \in since[d]

\* A domain that was used and is not in the table any more.
GoneIsOld ==
  \A d \in DOMAIN since : IsFiniteSet(since[d]) /\ (d \notin table => Cardinality(since[d]) >= LruSize)

(* RecentIsKept is about the domains that are gone; that Back is the right *)
(* one to go rests on the order of the list and on what it has to do with  *)
(* the history.  That there is a last element is itself part of the        *)
(* invariant, stated for all sets of elements, since moving an element to  *)
(* the front or removing one preserves it without an induction.            *)
ListInv ==
  /\ IsFiniteSet(table) /\ Cardinality(table) <= LruSize
  /\ IsList(table, newer)
  /\ ListIsHistory /\ GoneIsOld


(* MoveToFront and PushFront make a list again, with d in it.              *)
LEMMA FrontIsList ==
  ASSUME IsList(table, newer), NEW d
  PROVE  IsList(table \cup {d}, MovedToFront(d))
<1> DEFINE T == table \cup {d}
           N == MovedToFront(d)
<1>1. N \subseteq T \X T
  BY DEF IsList, MovedToFront
<1>2. Linear(T, N)
  BY DEF IsList, Linear, MovedToFront
<1>3. HasLast(T, N)
  <2> SUFFICES ASSUME NEW S \in SUBSET T, S # {}
               PROVE  \E k \in S : \A j \in S : <<k, j>> \notin N
    BY DEF HasLast
  <2>1. CASE S = {d}
    BY <2>1 DEF MovedToFront
  <2>2. CASE S # {d}
    <3>1. PICK k \in S \ {d} : \A j \in S \ {d} : <<k, j>> \notin newer
      <4>1. S \ {d} \in SUBSET table /\ S \ {d} # {}
        BY <2>2
      <4> QED BY <4>1, Zenon DEF IsList, HasLast
    <3>2. \A j \in S : <<k, j>> \notin N
      BY <3>1 DEF MovedToFront
    <3> QED BY <3>2
  <2> QED BY <2>1, <2>2
<1> QED BY <1>1, <1>2, <1>3 DEF IsList

(* So does taking elements out.                                            *)
LEMMA CutIsList ==
  ASSUME NEW T, NEW N, IsList(T, N), NEW out,
         NEW M, M = {p \in N : p[1] \notin out /\ p[2] \notin out}
  PROVE  IsList(T \ out, M)
<1>1. M \subseteq (T \ out) \X (T \ out)
  BY DEF IsList
<1>2. Linear(T \ out, M)
  BY DEF IsList, Linear
<1>3. HasLast(T \ out, M)
  BY DEF IsList, HasLast
<1> QED BY <1>1, <1>2, <1>3 DEF IsList

\* What a use of d does to the histories.
Grown(d) ==
  /\ DOMAIN since' = DOMAIN since \cup {d}
  /\ since'[d] = {} /\ IsFiniteSet(since'[d])
  /\ \A k \in DOMAIN since : k # d =>
       /\ since'[k] = since[k] \cup {d}
       /\ IsFiniteSet(since'[k]) /\ Cardinality(since'[k]) >= Cardinality(since[k])

(* A use of d makes the history of no other domain shorter.                *)
LEMMA HistoryGrows ==
  ASSUME NEW d, Used(d), GoneIsOld
  PROVE  Grown(d)
<1>1. DOMAIN since' = DOMAIN since \cup {d} /\ since'[d] = {}
  BY DEF Used
<1>2. IsFiniteSet(since'[d])
  BY <1>1, FS_EmptySet
<1>3. ASSUME NEW k \in DOMAIN since, k # d
      PROVE  /\ since'[k] = since[k] \cup {d}
             /\ IsFiniteSet(since'[k]) /\ Cardinality(since'[k]) >= Cardinality(since[k])
  <2>1. since'[k] = since[k] \cup {d} /\ IsFiniteSet(since[k])
    BY <1>3 DEF Used, GoneIsOld
  <2>2. Cardinality(since[k]) \in Nat
    BY <2>1, FS_CardinalityType
  <2> QED BY <2>1, <2>2, FS_AddElement, SMTT(30)
<1> QED BY <1>1, <1>2, <1>3 DEF Grown

(* The use of a domain that is in the table keeps the invariant.           *)
LEMMA TouchKeeps ==
  ASSUME ListInv, NEW d \in table, newer' = MovedToFront(d), Used(d), UNCHANGED table
  PROVE  ListInv'
<1>0. Grown(d)
  BY HistoryGrows DEF ListInv
<1>1. table \cup {d} = table
  OBVIOUS
<1>2. IsList(table, newer)'
  BY <1>1, FrontIsList DEF ListInv
<1>3. ListIsHistory'
  <2> SUFFICES ASSUME NEW e \in table
               PROVE  e \in DOMAIN since' /\ \A j \in table : <<j, e>> \in newer' => j \in since'[e]
    BY DEF ListIsHistory
  <2>1. CASE e = d
    BY <1>0, <2>1 DEF Grown, MovedToFront
  <2>2. CASE e # d
    <3>1. e \in DOMAIN since /\ \A j \in table : <<j, e>> \in newer => j \in since[e]
      BY DEF ListInv, ListIsHistory
    <3>2. \A j \in table : <<j, e>> \in newer' => j = d \/ <<j, e>> \in newer
      BY <2>2 DEF MovedToFront
    <3> QED BY <1>0, <2>2, <3>1, <3>2 DEF Grown
  <2> QED BY <2>1, <2>2
<1>4. GoneIsOld'
  <2> SUFFICES ASSUME NEW k \in DOMAIN since'
               PROVE  IsFiniteSet(since'[k]) /\ (k \notin table' => Cardinality(since'[k]) >= LruSize)
    BY DEF GoneIsOld
  <2>1. CASE k = d
    BY <1>0, <2>1 DEF Grown
  <2>2. CASE k # d
    <3>1. /\ k \in DOMAIN since /\ IsFiniteSet(since[k]) /\ IsFiniteSet(since'[k])
          /\ Cardinality(since'[k]) >= Cardinality(since[k])
          /\ k \notin table => Cardinality(since[k]) >= LruSize
      BY <1>0, <2>2 DEF Grown, ListInv, GoneIsOld
    <3>2. Cardinality(since[k]) \in Nat /\ Cardinality(since'[k]) \in Nat
      BY <3>1, FS_CardinalityType
    <3> QED BY <3>1, <3>2, PoolAssumption DEF PoolAssumption
  <2> QED BY <2>1, <2>2
<1> QED BY <1>2, <1>3, <1>4 DEF ListInv

(* Put removes exactly one domain if the table is full, and that one is    *)
(* behind all others in the list.                                          *)
LEMMA BackIsOne ==
  ASSUME ListInv, Full
  PROVE  \E k \in table : Back = {k} /\ \A j \in table : j # k => <<j, k>> \in newer
<1>1. table # {}
  BY FS_EmptySet, PoolAssumption DEF Full, PoolAssumption, ListInv
<1>2. PICK k \in table : \A j \in table : <<k, j>> \notin newer
  BY <1>1 DEF ListInv, IsList, HasLast
<1>3. \A j \in table : j # k => <<j, k>> \in newer
  BY <1>2, Zenon DEF ListInv, IsList, Linear
<1> QED BY <1>2, <1>3, Zenon DEF Back

(* The table after Put of a domain that was not in it.                     *)
LEMMA PutKeeps ==
  ASSUME ListInv, NEW d, d \notin table, NEW a, Put(d, a), Used(d)
  PROVE  ListInv'
<1> DEFINE out == IF Full THEN Back ELSE {}
<1>0. /\ table' = (table \ out) \cup {d}
      /\ newer' = {p \in MovedToFront(d) : p[1] \notin out /\ p[2] \notin out}
  BY DEF Put
<1>g. Grown(d)
  BY HistoryGrows DEF ListInv
<1>t. IsFiniteSet(table) /\ Cardinality(table) \in Nat /\ Cardinality(table) <= LruSize
  BY FS_CardinalityType DEF ListInv
<1>o. out \subseteq table
  BY DEF Back
<1>1. IsFiniteSet(table') /\ Cardinality(table') <= LruSize
  <2>1. CASE Full
    <3>1. PICK k \in table : Back = {k}
      BY <2>1, BackIsOne
    <3>2. IsFiniteSet(table \ {k}) /\ Cardinality(table \ {k}) = Cardinality(table) - 1
      BY <1>t, FS_RemoveElement
    <3>3. table' = (table \ {k}) \cup {d} /\ d \notin table \ {k}
      BY <1>0, <2>1, <3>1
    <3>4. IsFiniteSet(table') /\ Cardinality(table') = Cardinality(table \ {k}) + 1
      BY <3>2, <3>3, FS_AddElement
    <3> QED BY <1>t, <3>2, <3>4
  <2>2. CASE ~Full
    <3>1. table' = table \cup {d}
      BY <1>0, <2>2
    <3>2. IsFiniteSet(table') /\ Cardinality(table') = Cardinality(table) + 1
      BY <1>t, <3>1, FS_AddElement
    <3> QED BY <1>t, <2>2, <3>2, PoolAssumption DEF Full, PoolAssumption
  <2> QED BY <2>1, <2>2
<1>2. IsList(table, newer)'
  <2>1. IsList(table \cup {d}, MovedToFront(d))
    BY FrontIsList DEF ListInv
  <2> HIDE DEF out
  <2>2. IsList((table \cup {d}) \ out, newer')
    BY <1>0, <2>1, CutIsList, Zenon
  <2>3. (table \cup {d}) \ out = table'
    BY <1>0, <1>o
  <2> QED BY <2>2, <2>3
<1>3. ListIsHistory'
  <2> SUFFICES ASSUME NEW e \in table'
               PROVE  e \in DOMAIN since' /\ \A j \in table' : <<j, e>> \in newer' => j \in since'[e]
    BY DEF ListIsHistory
  <2>1. CASE e = d
    BY <1>0, <1>g, <2>1 DEF Grown, MovedToFront
  <2>2. CASE e # d
    <3>1. e \in table /\ e \in DOMAIN since /\ since'[e] = since[e] \cup {d}
      BY <1>0, <1>g, <2>2 DEF Grown, ListInv, ListIsHistory
    <3>2. e \in DOMAIN since'
      BY <1>g, <3>1 DEF Grown
    <3>3. ASSUME NEW j \in table', <<j, e>> \in newer' PROVE j \in since'[e]
      <4>1. j = d \/ (<<j, e>> \in newer /\ j \in table)
        BY <1>0, <3>3, <2>2 DEF MovedToFront
      <4> QED BY <3>1, <4>1 DEF ListInv, ListIsHistory
    <3> QED BY <3>2, <3>3
  <2> QED BY <2>1, <2>2
<1>4. GoneIsOld'
  <2> SUFFICES ASSUME NEW k \in DOMAIN since'
               PROVE  IsFiniteSet(since'[k]) /\ (k \notin table' => Cardinality(since'[k]) >= LruSize)
    BY DEF GoneIsOld
  <2>1. CASE k = d
    BY <1>g, <2>1, <1>0, Zenon DEF Grown
  <2>2. CASE k # d
    <3>1. /\ k \in DOMAIN since /\ IsFiniteSet(since[k]) /\ IsFiniteSet(since'[k])
          /\ since'[k] = since[k] \cup {d}
          /\ Cardinality(since'[k]) >= Cardinality(since[k])
      BY <1>g, <2>2 DEF Grown, ListInv, GoneIsOld
    <3>2. Cardinality(since[k]) \in Nat /\ Cardinality(since'[k]) \in Nat
      BY <3>1, FS_CardinalityType
    <3>3. CASE k \notin table
      <4>1. Cardinality(since[k]) >= LruSize
        BY <3>1, <3>3 DEF ListInv, GoneIsOld
      <4> QED BY <3>1, <3>2, <4>1, PoolAssumption DEF PoolAssumption
    \* The one that was removed: all that stay, and d, were used after it.
    <3>4. CASE k \in table /\ k \notin table'
      <4>1. Full /\ k \in Back
        BY <1>0, <2>2, <3>4
      <4>2. \A j \in table : j # k => <<j, k>> \in newer
        BY <4>1, BackIsOne
      <4>3. (table \ {k}) \cup {d} \subseteq since'[k]
        BY <3>1, <3>4, <4>2, Zenon DEF ListInv, ListIsHistory
      <4>4. /\ IsFiniteSet(table \ {k}) /\ Cardinality(table \ {k}) = Cardinality(table) - 1
        BY <1>t, <3>4, FS_RemoveElement
      <4>5. Cardinality((table \ {k}) \cup {d}) = Cardinality(table)
        <5>1. d \notin table \ {k}
          OBVIOUS
        <5>2. Cardinality((table \ {k}) \cup {d}) = Cardinality(table \ {k}) + 1
          BY <4>4, <5>1, FS_AddElement
        <5> QED BY <1>t, <4>4, <5>2
      <4>6. Cardinality((table \ {k}) \cup {d}) <= Cardinality(since'[k])
        BY <3>1, <4>3, FS_Subset
      <4> QED BY <1>t, <3>1, <3>2, <4>1, <4>5, <4>6, PoolAssumption DEF Full, PoolAssumption
    <3> QED BY <3>1, <3>3, <3>4
  <2> QED BY <2>1, <2>2
<1> QED BY <1>1, <1>2, <1>3, <1>4 DEF ListInv

(* The inductive step.                                                     *)
LEMMA ListStep ==
  ASSUME IInv, ListInv, [Next]_vars
  PROVE  ListInv'
<1>1. ASSUME NEW d \in Domains, GetFound(d) PROVE ListInv'
  BY <1>1, TouchKeeps DEF GetFound
<1>2. ASSUME NEW d \in Domains, GetMissed(d) PROVE ListInv'
  BY <1>2 DEF GetMissed, ListInv, ListIsHistory, GoneIsOld
<1>3. ASSUME NEW d \in Domains, NEW now \in Addresses, NEW a \in Addresses, Assign(d, now, a)
      PROVE  ListInv'
  <2>1. d \notin table
    BY <1>3 DEF Assign, IInv, PendingIsNew
  <2> QED BY <1>3, <2>1, PutKeeps DEF Assign
<1>4. ASSUME NEW d \in Domains, NEW a \in Addresses, Resolve(a, d) PROVE ListInv'
  <2>1. d \in table
    BY <1>4 DEF Resolve, IInv, Bijective
  <2> QED BY <1>4, <2>1, TouchKeeps DEF Resolve
<1>5. CASE UNCHANGED vars
  BY <1>5 DEF vars, ListInv, ListIsHistory, GoneIsOld
<1> QED BY <1>1, <1>2, <1>3, <1>4, <1>5 DEF Next

(* Two domains never share an address, so that a table smaller than the    *)
(* pool leaves one free.                                                   *)
LEMMA AddressLeft ==
  ASSUME IInv, ListInv
  PROVE  \E a \in Addresses : ~InUse(a)
<1> SUFFICES ASSUME \A a \in Addresses : InUse(a) PROVE FALSE
  OBVIOUS
<1>1. \A a \in Addresses : \E d \in table : addr[d] = a
  BY DEF InUse, IInv, Bijective
<1> DEFINE f == [a \in Addresses |-> CHOOSE d \in table : addr[d] = a]
<1>2. \A a \in Addresses : f[a] \in table /\ addr[f[a]] = a
  BY <1>1
<1>3. f \in [Addresses -> table]
  BY <1>2
<1>4. IsFiniteSet(Addresses) /\ Cardinality(Addresses) = Rooms
  BY FS_Interval, PoolAssumption DEF Addresses, PoolAssumption
<1>5. IsFiniteSet(table) /\ Cardinality(table) \in Nat /\ Cardinality(table) < Rooms
  BY FS_CardinalityType, PoolAssumption DEF ListInv, PoolAssumption
<1> HIDE DEF f
<1>6. \E x, y \in Addresses : x # y /\ f[x] = f[y]
  BY <1>3, <1>4, <1>5, FS_PigeonHole
<1> QED BY <1>2, <1>6

(* The search of GetFakeIPForDomain always finds a free address, the table *)
(* stays within its capacity, and Put removes a domain only after LruSize  *)
(* others have been used since its last use.                               *)
THEOREM EvictionCorrect == Spec => []EvictionIsRight
<1>1. Init => ListInv
  <2> SUFFICES ASSUME Init PROVE ListInv
    OBVIOUS
  <2>1. IsFiniteSet(table) /\ Cardinality(table) <= LruSize
    BY FS_EmptySet, PoolAssumption DEF Init, PoolAssumption
  <2>2. IsList(table, newer)
    BY DEF Init, IsList, Linear, HasLast
  <2> QED BY <2>1, <2>2 DEF Init, ListInv, ListIsHistory, GoneIsOld
<1>2. IInv /\ ListInv /\ [Next]_vars => ListInv'
  BY ListStep
<1>3. IInv /\ ListInv => EvictionIsRight
  <2> SUFFICES ASSUME IInv, ListInv PROVE EvictionIsRight
    OBVIOUS
  <2>1. RoomLeft
    BY AddressLeft DEF RoomLeft, ListInv
  <2>2. RecentIsKept
    <3> SUFFICES ASSUME NEW d \in DOMAIN since, d \notin table, Cardinality(since[d]) < LruSize
                 PROVE  FALSE
      BY DEF RecentIsKept
    <3>1. Cardinality(since[d]) \in Nat /\ Cardinality(since[d]) >= LruSize
      BY FS_CardinalityType DEF ListInv, GoneIsOld
    <3> QED BY <3>1, PoolAssumption DEF PoolAssumption
  <2> QED BY <2>1, <2>2 DEF EvictionIsRight
<1>4. QED BY <1>1, <1>2, <1>3, InitHolds, StepKeeps, PTL DEF Spec
=============================================================================

------------------------ MODULE IdentityResolverProofs ------------------------
(***************************************************************************)
(* Proofs about IdentityResolver for any discoveries, listings and signals: *)
(* type correctness, that no two leads share an identity key while they fit *)
(* in the preload, that a rejected record leaves no entry behind, that only *)
(* possible twins are dropped, and that the calls implement BusinessClaims, *)
(* however the producer and the committer interleave and across restarts.   *)
(***************************************************************************)
EXTENDS IdentityResolver, SequenceTheorems, TLAPS

USE SignalsAssumption, PreloadAssumption

\* Which record each thread works on, and that one of them works on every
\* record that is being added or rolled back.
Control ==
    /\ producer # Idle =>
          \/ status[producer.record] = "adding"
          \/ status[producer.record] = "rollback" /\ producer.step \in 1..6
    /\ committer # Idle =>
          status[committer.record] = "rollback" /\ committer.step \in 1..6
    /\ producer # Idle /\ committer # Idle => producer.record # committer.record
    /\ \A r \in Discovery : status[r] = "adding" => producer.record = r
    /\ \A r \in Discovery :
          status[r] = "rollback" => producer.record = r \/ committer.record = r

\* Every record looked up was made from a listing.
Listed == \A r \in Discovery : status[r] # "new" => listing[r] \in Listing

\* The records table holds the committed records.
LeadsOK ==
    \A r \in Discovery : status[r] = "committed" <=> \E i \in 1..Len(leads) : leads[i] = r

\* Records that own their identity key: no other record may take it.
Owns(r) ==
    \/ status[r] \in {"adding", "queued", "committed", "failed"}
    \/ status[r] = "rollback" /\ ~Dropped(r)

\* No two owners have one key, as long as no restart has left a lead out.
KeysApart ==
    Len(leads) <= PreloadLimit =>
    \A a, b \in Discovery :
        Owns(a) /\ Owns(b) /\ a # b => KeyOf(listing[a]) \cap KeyOf(listing[b]) = {}

\* The keys of the owners are in the resolver, once their add has put them there.
KeysHeld ==
    Len(leads) <= PreloadLimit =>
    \A r \in Discovery :
        Owns(r) /\ ~(status[r] = "adding" /\ producer.step = 1) =>
            KeyOf(listing[r]) \subseteq seen.identities

IInv == TypeOK /\ Control /\ Listed /\ LeadsOK /\ KeysApart /\ KeysHeld

-----------------------------------------------------------------------------
(* The resolver's structures *)

\* The values the six structures may have.
Resolver == [identities : SUBSET Keys, domains : SUBSET Domains,
             domainFirstName : [Domains -> Names \cup {Absent}],
             domainCity : SUBSET (Domains \X Cities),
             phoneFirstName : [Phones -> Names \cup {Absent}],
             phones : SUBSET Phones]

\* The entries of a listing are in range.
LEMMA EntriesInRange ==
  ASSUME NEW l \in Listing
  PROVE  /\ KeyOf(l) \subseteq Keys
         /\ DomainOf(l) \subseteq Domains
         /\ PhoneOf(l) \subseteq Phones
         /\ DomainCityOf(l) \subseteq Domains \X Cities
         /\ Signals[l].name \in Names
<1>1. KeyOf(l) \subseteq Keys
  BY DEF KeyOf, Keys
<1>2. DomainOf(l) \subseteq Domains /\ {Signals[l].city} \ {None} \subseteq Cities
  BY DEF DomainOf, Domains, Cities
<1>3. DomainCityOf(l) \subseteq Domains \X Cities
  BY <1>2 DEF DomainCityOf
<1>4. PhoneOf(l) \subseteq Phones /\ Signals[l].name \in Names
  BY DEF PhoneOf, Phones, Names
<1>. QED BY <1>1, <1>2, <1>3, <1>4

\* The whole of an add, and of a rollback, leaves the structures well-formed.
LEMMA AfterFacts ==
  ASSUME NEW s \in Resolver, NEW l \in Listing
  PROVE  AfterAdd(s, l) \in Resolver /\ AfterRollback(s, l) \in Resolver
<1>1. /\ SetDefault(s.domainFirstName, DomainOf(l), Signals[l].name)
            \in [Domains -> Names \cup {Absent}]
      /\ SetDefault(s.phoneFirstName, PhoneOf(l), Signals[l].name)
            \in [Phones -> Names \cup {Absent}]
  BY EntriesInRange DEF SetDefault, Resolver
<1>2. /\ PopIfEqual(s.domainFirstName, DomainOf(l), Signals[l].name)
            \in [Domains -> Names \cup {Absent}]
      /\ PopIfEqual(s.phoneFirstName, PhoneOf(l), Signals[l].name)
            \in [Phones -> Names \cup {Absent}]
  BY DEF PopIfEqual, Resolver
<1>3. AfterAdd(s, l) \in Resolver
  BY <1>1, EntriesInRange DEF AfterAdd, Resolver
<1>4. AfterRollback(s, l) \in Resolver
  BY <1>2 DEF AfterRollback, Resolver
<1>. QED BY <1>3, <1>4

\* Replacing one structure by a well-formed one.
LEMMA ReplaceField ==
  ASSUME NEW s \in Resolver, NEW t \in Resolver,
         NEW f \in {"identities", "domains", "domainFirstName", "domainCity",
                    "phoneFirstName", "phones"}
  PROVE  /\ [s EXCEPT ![f] = t[f]] \in Resolver
         /\ [s EXCEPT ![f] = t[f]].identities =
               IF f = "identities" THEN t.identities ELSE s.identities
BY DEF Resolver

\* One call of add: only the first touches the identities.
LEMMA AddedFacts ==
  ASSUME NEW s \in Resolver, NEW l \in Listing, NEW i \in 1..6
  PROVE  /\ Added(s, AddOrder[i], l) \in Resolver
         /\ Added(s, AddOrder[i], l).identities =
               IF i = 1 THEN s.identities \cup KeyOf(l) ELSE s.identities
<1>1. /\ AddOrder[i] \in {"identities", "domains", "domainFirstName", "domainCity",
                          "phoneFirstName", "phones"}
      /\ AddOrder[i] = "identities" <=> i = 1
  BY DEF AddOrder
<1>2. AfterAdd(s, l).identities = s.identities \cup KeyOf(l)
  BY DEF AfterAdd
<1>3. PICK f \in {"identities", "domains", "domainFirstName", "domainCity",
                  "phoneFirstName", "phones"} : f = AddOrder[i]
  BY <1>1
<1>4. PICK t \in Resolver : t = AfterAdd(s, l)
  BY AfterFacts
<1>5. Added(s, AddOrder[i], l) = [s EXCEPT ![f] = t[f]]
  BY <1>3, <1>4 DEF Added
<1>6. /\ [s EXCEPT ![f] = t[f]] \in Resolver
      /\ [s EXCEPT ![f] = t[f]].identities =
            IF f = "identities" THEN t.identities ELSE s.identities
  BY ReplaceField, ZenonT(40)
<1>. QED BY <1>1, <1>2, <1>3, <1>4, <1>5, <1>6

\* One call of rollback: only the first touches the identities.
LEMMA RemovedFacts ==
  ASSUME NEW s \in Resolver, NEW l \in Listing, NEW i \in 1..6
  PROVE  /\ Removed(s, RollbackOrder[i], l) \in Resolver
         /\ Removed(s, RollbackOrder[i], l).identities =
               IF i = 1 THEN s.identities \ KeyOf(l) ELSE s.identities
<1>1. /\ RollbackOrder[i] \in {"identities", "domains", "domainFirstName", "domainCity",
                               "phoneFirstName", "phones"}
      /\ RollbackOrder[i] = "identities" <=> i = 1
  BY DEF RollbackOrder
<1>2. AfterRollback(s, l).identities = s.identities \ KeyOf(l)
  BY DEF AfterRollback
<1>3. PICK f \in {"identities", "domains", "domainFirstName", "domainCity",
                  "phoneFirstName", "phones"} : f = RollbackOrder[i]
  BY <1>1
<1>4. PICK t \in Resolver : t = AfterRollback(s, l)
  BY AfterFacts
<1>5. Removed(s, RollbackOrder[i], l) = [s EXCEPT ![f] = t[f]]
  BY <1>3, <1>4 DEF Removed
<1>6. /\ [s EXCEPT ![f] = t[f]] \in Resolver
      /\ [s EXCEPT ![f] = t[f]].identities =
            IF f = "identities" THEN t.identities ELSE s.identities
  BY ReplaceField, ZenonT(40)
<1>. QED BY <1>1, <1>2, <1>3, <1>4, <1>5, <1>6

\* The newest name of some listings is one of their names, if there is any.
LEMMA NewestNameIsName ==
  ASSUME NEW order \in Seq(Listing), NEW those
  PROVE  NewestName(order, those) \in Names \cup {Absent}
<1>. DEFINE named  == {i \in DOMAIN order : order[i] \in those /\ Signals[order[i]].name # None}
            newest == {i \in named : \A j \in named : j <= i}
<1>1. CASE newest = {}
  BY <1>1 DEF NewestName
<1>2. CASE newest # {}
  <2>. DEFINE i == CHOOSE i \in newest : TRUE
  <2>1. i \in DOMAIN order
    BY <1>2
  <2>2. order[i] \in Listing
    BY <2>1, ElementOfSeq, LenProperties
  <2>3. Signals[order[i]].name \in Names
    BY <2>2, EntriesInRange
  <2>. QED BY <1>2, <2>3 DEF NewestName
<1>. QED BY <1>1, <1>2

\* A restart seeds the resolver with the keys of the leads.
LEMMA SeededFacts ==
  ASSUME NEW order \in Seq(Listing)
  PROVE  /\ Seeded(order) \in Resolver
         /\ \A i \in 1..Len(order) : KeyOf(order[i]) \subseteq Seeded(order).identities
<1>1. Range(order) \subseteq Listing /\ \A i \in 1..Len(order) : order[i] \in Range(order)
  BY ElementOfSeq, LenProperties DEF Range
<1>2. /\ UNION {KeyOf(l) : l \in Range(order)} \in SUBSET Keys
      /\ UNION {DomainOf(l) : l \in Range(order)} \in SUBSET Domains
  BY <1>1, EntriesInRange
<1>3. /\ UNION {DomainCityOf(l) : l \in {k \in Range(order) : Weak(k)}}
            \in SUBSET (Domains \X Cities)
      /\ UNION {PhoneOf(l) : l \in {k \in Range(order) : Weak(k)}} \in SUBSET Phones
  BY <1>1, EntriesInRange
<1>4. /\ [d \in Domains |-> NewestName(order, {l \in Listing : d \in DomainOf(l)})]
            \in [Domains -> Names \cup {Absent}]
      /\ [p \in Phones |-> NewestName(order, {l \in Listing : p \in PhoneOf(l)})]
            \in [Phones -> Names \cup {Absent}]
  BY NewestNameIsName
<1>5. Seeded(order) \in Resolver
  BY <1>2, <1>3, <1>4 DEF Seeded, Resolver
<1>6. Seeded(order).identities = UNION {KeyOf(l) : l \in Range(order)}
  BY DEF Seeded
<1>. QED BY <1>1, <1>5, <1>6

-----------------------------------------------------------------------------
(* Type correctness *)

\* A thread that is not idle works on a record.
LEMMA Busy ==
  ASSUME TypeOK
  PROVE  /\ producer # Idle => producer \in Working
         /\ committer # Idle => committer \in Working
         /\ \A r \in Discovery : producer.record = r => producer # Idle
         /\ \A r \in Discovery : committer.record = r => committer # Idle
BY DEF TypeOK, Idle, Working

\* The initial state satisfies the invariant.
LEMMA InitOK ==
  ASSUME Init
  PROVE  IInv
<1>1. Nothing \in Resolver
  BY DEF Nothing, Resolver
<1>2. TypeOK
  BY <1>1, EmptySeq DEF Init, TypeOK, Resolver, Statuses
<1>3. Control /\ Listed /\ LeadsOK /\ KeysApart /\ KeysHeld
  BY EmptySeq DEF Init, Control, Listed, LeadsOK, KeysApart, KeysHeld, Owns, Idle
<1>. QED BY <1>2, <1>3 DEF IInv

\* What a restart loads is a sequence of listings: of all the leads, if they fit.
LEMMA LeadsListed ==
  ASSUME TypeOK, Listed, LeadsOK
  PROVE  /\ [i \in DOMAIN Preloaded(leads) |-> listing[Preloaded(leads)[i]]] \in Seq(Listing)
         /\ Len(leads) <= PreloadLimit => Preloaded(leads) = leads
         /\ DOMAIN leads = 1..Len(leads)
         /\ \A i \in DOMAIN Preloaded(leads) :
               /\ Preloaded(leads)[i] \in Discovery
               /\ status[Preloaded(leads)[i]] = "committed"
<1>1. leads \in Seq(Discovery) /\ Len(leads) \in Nat /\ DOMAIN leads = 1..Len(leads)
  BY LenProperties DEF TypeOK
<1>2. \A i \in 1..Len(leads) : listing[leads[i]] \in Listing
  BY <1>1, ElementOfSeq DEF Listed, LeadsOK
<1>3. PICK k \in Nat, n \in Nat :
         /\ Len(Preloaded(leads)) = n /\ DOMAIN Preloaded(leads) = 1..n
         /\ \A i \in 1..n : i + k \in 1..Len(leads) /\ Preloaded(leads)[i] = leads[i + k]
  <2>1. CASE Len(leads) <= PreloadLimit
    <3>1. Preloaded(leads) = leads
      BY <2>1 DEF Preloaded
    <3>2. \A i \in 1..Len(leads) : i + 0 \in 1..Len(leads) /\ leads[i] = leads[i + 0]
      BY <1>1
    <3>. QED BY <1>1, <3>1, <3>2
  <2>2. CASE Len(leads) > PreloadLimit
    <3>. DEFINE k == Len(leads) - PreloadLimit
    <3>1. k \in Nat /\ k + 1 \in 1..(Len(leads) + 1) /\ Len(leads) \in 0..Len(leads)
      BY <1>1, <2>2
    <3>2. Preloaded(leads) = SubSeq(leads, k + 1, Len(leads))
      BY <1>1, <2>2 DEF Preloaded
    <3>3. /\ SubSeq(leads, k + 1, Len(leads)) \in Seq(Discovery)
          /\ Len(SubSeq(leads, k + 1, Len(leads))) = PreloadLimit
          /\ \A i \in 1..PreloadLimit : SubSeq(leads, k + 1, Len(leads))[i] = leads[i + k]
      BY <1>1, <2>2, <3>1, SubSeqProperties
    <3>4. \A i \in 1..PreloadLimit : i + k \in 1..Len(leads)
      BY <1>1, <3>1
    <3>. QED BY <3>1, <3>2, <3>3, <3>4, LenProperties
  <2>. QED BY <1>1, <2>1, <2>2
<1>4. [i \in 1..n |-> listing[Preloaded(leads)[i]]] \in [1..n -> Listing]
  BY <1>2, <1>3
<1>5. [i \in DOMAIN Preloaded(leads) |-> listing[Preloaded(leads)[i]]] \in Seq(Listing)
  BY <1>3, <1>4
<1>6. Len(leads) <= PreloadLimit => Preloaded(leads) = leads
  BY DEF Preloaded
<1>7. \A i \in 1..n : /\ Preloaded(leads)[i] \in Discovery
                      /\ status[Preloaded(leads)[i]] = "committed"
  BY <1>1, <1>3, ElementOfSeq DEF LeadsOK
<1>. QED BY <1>1, <1>3, <1>5, <1>6, <1>7

\* The producer's steps preserve the invariant.
LEMMA LookupOK ==
  ASSUME IInv, NEW r \in Discovery, NEW l \in Listing, Lookup(r, l)
  PROVE  IInv'
<1>1. TypeOK'
  BY DEF Lookup, IInv, TypeOK, Working, Idle, Statuses
<1>2. \/ /\ status' = [status EXCEPT ![r] = "duplicate"]
         /\ producer' = producer
      \/ /\ status' = [status EXCEPT ![r] = "adding"]
         /\ producer' = [record |-> r, step |-> 1]
         /\ ~IsDuplicate(seen, l)
  BY DEF Lookup
<1>3. /\ producer = Idle /\ status[r] = "new"
      /\ listing' = [listing EXCEPT ![r] = l]
      /\ UNCHANGED <<seen, committer, leads>>
  BY DEF Lookup
<1>4. \A s \in Discovery : producer.record # s /\ status[s] # "adding"
  BY <1>3, Busy DEF IInv, Control
<1>5. committer # Idle => committer.record \in Discovery /\ committer.record # r
  BY <1>3, Busy DEF IInv, Control, Working
<1>6. Listed' /\ LeadsOK'
  BY <1>2, <1>3 DEF IInv, Listed, LeadsOK, TypeOK
<1>7. CASE status' = [status EXCEPT ![r] = "duplicate"] /\ producer' = producer
  <2>1. Control'
    BY <1>3, <1>4, <1>5, <1>7 DEF IInv, Control, TypeOK
  <2>2. ~Owns(r)'
    BY <1>3, <1>7 DEF Owns, IInv, TypeOK
  <2>3. \A s \in Discovery \ {r} : Owns(s)' => Owns(s) /\ listing'[s] = listing[s]
    BY <1>3, <1>7 DEF Owns, Dropped, IInv, TypeOK
  <2>4. KeysApart'
    BY <1>3, <2>2, <2>3 DEF IInv, KeysApart
  <2>5. KeysHeld'
    BY <2>2, <2>3, <1>3, <1>4, <1>7 DEF IInv, KeysHeld, TypeOK
  <2>. QED BY <1>1, <2>1, <1>6, <2>4, <2>5 DEF IInv
<1>8. CASE /\ status' = [status EXCEPT ![r] = "adding"]
           /\ producer' = [record |-> r, step |-> 1]
           /\ ~IsDuplicate(seen, l)
  <2>1. Control'
    BY <1>3, <1>4, <1>5, <1>8 DEF IInv, Control, TypeOK
  <2>2. \A s \in Discovery \ {r} : Owns(s)' => Owns(s) /\ listing'[s] = listing[s]
    BY <1>3, <1>4, <1>8 DEF Owns, Dropped, IInv, TypeOK
  <2>3. Len(leads) <= PreloadLimit =>
           \A s \in Discovery \ {r} : Owns(s) => KeyOf(listing[s]) \subseteq seen.identities
    BY <1>4 DEF IInv, KeysHeld
  <2>4. KeyOf(l) \cap seen.identities = {}
    BY <1>8 DEF IsDuplicate
  <2>5. listing'[r] = l
    BY <1>3 DEF IInv, TypeOK
  <2>6. KeysApart'
    BY <1>3, <2>2, <2>3, <2>4, <2>5 DEF IInv, KeysApart
  <2>7. KeysHeld'
    BY <2>2, <2>3, <1>3, <1>8 DEF KeysHeld, IInv, TypeOK
  <2>. QED BY <1>1, <2>1, <1>6, <2>6, <2>7 DEF IInv
<1>. QED BY <1>2, <1>7, <1>8

\* A call of add is made for the record the producer adds.
LEMMA AddStepOK ==
  ASSUME IInv, AddStep
  PROVE  IInv'
<1>. DEFINE r == producer.record
<1>1. /\ r \in Discovery /\ producer \in Working /\ status[r] = "adding"
      /\ producer.step \in 1..6 /\ listing[r] \in Listing
  BY Busy DEF AddStep, IInv, Working, Listed
<1>2. PICK i \in 1..6 : i = producer.step
  BY <1>1
<1>3. /\ seen' = Added(seen, AddOrder[i], listing[r])
      /\ producer' = [producer EXCEPT !.step = i + 1]
      /\ UNCHANGED <<status, listing, committer, leads>>
  BY <1>2 DEF AddStep
<1>4. seen \in Resolver
  BY DEF IInv, TypeOK, Resolver
<1>5. /\ seen' \in Resolver
      /\ seen'.identities = IF i = 1 THEN seen.identities \cup KeyOf(listing[r])
                                     ELSE seen.identities
  BY <1>1, <1>3, <1>4, AddedFacts
<1>6. producer' = [record |-> r, step |-> i + 1] /\ producer' \in Working
  BY <1>1, <1>3 DEF Working
<1>7. TypeOK'
  BY <1>3, <1>5, <1>6 DEF IInv, TypeOK, Resolver
<1>8. Control'
  BY <1>1, <1>2, <1>3, <1>6, Busy DEF IInv, Control, Working, Idle
<1>9. Listed' /\ LeadsOK'
  BY <1>3 DEF IInv, Listed, LeadsOK
<1>10. \A s \in Discovery : Owns(s)' => Owns(s)
  BY <1>1, <1>3, <1>6 DEF Owns, Dropped
<1>11. KeysApart'
  BY <1>3, <1>10 DEF IInv, KeysApart
<1>12. \A s \in Discovery : status[s] = "adding" => s = r
  BY DEF IInv, Control
<1>13. KeysHeld'
  BY <1>2, <1>3, <1>5, <1>6, <1>10, <1>12 DEF IInv, KeysHeld
<1>. QED BY <1>7, <1>8, <1>9, <1>11, <1>13 DEF IInv

\* The producer hands a record on, or begins to roll it back.
LEMMA KeepOK ==
  ASSUME IInv, Keep \/ PreFilterReject
  PROVE  IInv'
<1>. DEFINE r == producer.record
<1>1. /\ r \in Discovery /\ producer \in Working /\ status[r] = "adding"
      /\ producer.step = 7 /\ listing[r] \in Listing
  BY Busy DEF Keep, PreFilterReject, IInv, Working, Listed
<1>2. /\ \/ status' = [status EXCEPT ![r] = "queued"] /\ producer' = Idle
         \/ /\ status' = [status EXCEPT ![r] = "rollback"]
            /\ producer' = [record |-> r, step |-> 1]
      /\ UNCHANGED <<seen, listing, committer, leads>>
  BY <1>1 DEF Keep, PreFilterReject, Working
<1>3. TypeOK'
  BY <1>1, <1>2 DEF IInv, TypeOK, Working, Idle, Statuses
<1>4. committer.record # r /\ \A s \in Discovery \ {r} : producer.record # s /\ Idle.record # s
  BY <1>1, Busy DEF IInv, Control, Idle
<1>5. Control'
  <2>1. /\ committer # Idle => /\ committer.record \in Discovery
                             /\ status[committer.record] = "rollback"
                             /\ committer.step \in 1..6
        /\ \A s \in Discovery \ {r} : status[s] # "adding"
        /\ \A s \in Discovery : status[s] = "rollback" => committer.record = s
        /\ committer' = committer
    BY <1>1, <1>2, <1>4, Busy DEF IInv, Control, Working
  <2>2. CASE status' = [status EXCEPT ![r] = "queued"] /\ producer' = Idle
    <3>1. /\ status'[r] = "queued"
          /\ \A s \in Discovery \ {r} : status'[s] = status[s]
      BY <1>1, <2>2 DEF IInv, TypeOK
    <3>. QED BY <1>4, <2>1, <2>2, <3>1 DEF Control
  <2>3. CASE /\ status' = [status EXCEPT ![r] = "rollback"]
             /\ producer' = [record |-> r, step |-> 1]
    <3>1. /\ status'[r] = "rollback"
          /\ \A s \in Discovery \ {r} : status'[s] = status[s]
      BY <1>1, <2>3 DEF IInv, TypeOK
    <3>. QED BY <1>4, <2>1, <2>3, <3>1 DEF Control
  <2>. QED BY <1>2, <2>2, <2>3
<1>6. Listed' /\ LeadsOK'
  BY <1>1, <1>2 DEF IInv, Listed, LeadsOK, TypeOK
<1>7. Owns(r) /\ \A s \in Discovery \ {r} : Owns(s)' => Owns(s) /\ status[s] # "adding"
  BY <1>1, <1>2, <1>4 DEF Owns, Dropped, IInv, Control, TypeOK, Idle
<1>8. KeysApart'
  BY <1>2, <1>7 DEF IInv, KeysApart
<1>9. KeysHeld'
  BY <1>1, <1>2, <1>7 DEF IInv, KeysHeld
<1>. QED BY <1>3, <1>5, <1>6, <1>8, <1>9 DEF IInv

\* A call of the producer's rollback takes back only what its record owns.
LEMMA ProducerRollbackOK ==
  ASSUME IInv, ProducerRollback
  PROVE  IInv'
<1>1. PICK r \in Discovery :
         /\ r = producer.record /\ producer \in Working /\ status[r] = "rollback"
         /\ producer.step \in 1..6 /\ listing[r] \in Listing
  BY Busy DEF ProducerRollback, IInv, Control, Working, Listed
<1>2. PICK i \in 1..6 : i = producer.step
  BY <1>1
<1>3. /\ seen' = Removed(seen, RollbackOrder[i], listing[r])
      /\ IF i = 6
         THEN producer' = Idle /\ status' = [status EXCEPT ![r] = "rejected"]
         ELSE producer' = [record |-> r, step |-> i + 1] /\ UNCHANGED status
      /\ UNCHANGED <<listing, committer, leads>>
  BY <1>1, <1>2 DEF ProducerRollback, Working
<1>4. seen \in Resolver
  BY DEF IInv, TypeOK, Resolver
<1>5. /\ seen' \in Resolver
      /\ seen'.identities = IF i = 1 THEN seen.identities \ KeyOf(listing[r])
                                     ELSE seen.identities
  BY <1>1, <1>3, <1>4, RemovedFacts
<1>6. TypeOK'
  <2>1. /\ seen' \in Resolver
        /\ producer' \in Working \cup {Idle}
        /\ status' \in [Discovery -> Statuses]
    <3>1. CASE i = 6
      BY <1>3, <1>5, <3>1 DEF IInv, TypeOK, Statuses
    <3>2. CASE i # 6
      BY <1>3, <1>5, <3>2 DEF IInv, TypeOK, Working
    <3>. QED BY <3>1, <3>2
  <2>. QED BY <1>3, <2>1 DEF IInv, TypeOK, Resolver
<1>7. committer.record # r /\ \A s \in Discovery \ {r} : producer.record # s /\ Idle.record # s
  BY <1>1, Busy DEF IInv, Control, Idle
<1>8. Control'
  <2>0. /\ committer # Idle => /\ committer.record \in Discovery /\ committer.record # r
                             /\ status[committer.record] = "rollback"
                             /\ committer.step \in 1..6
        /\ \A s \in Discovery : status[s] # "adding"
        /\ \A s \in Discovery \ {r} : status[s] = "rollback" => committer.record = s
        /\ committer' = committer
    BY <1>1, <1>3, <1>7, Busy DEF IInv, Control, Working
  <2>1. CASE i = 6
    <3>1. /\ producer' = Idle /\ status'[r] = "rejected"
          /\ \A s \in Discovery \ {r} : status'[s] = status[s]
      BY <1>3, <2>1 DEF IInv, TypeOK
    <3>. QED BY <2>0, <3>1 DEF Control
  <2>2. CASE i # 6
    <3>1. /\ producer' = [record |-> r, step |-> i + 1] /\ status' = status
          /\ i + 1 \in 1..6
      BY <1>3, <2>2
    <3>. QED BY <1>1, <2>0, <3>1 DEF Control
  <2>. QED BY <2>1, <2>2
<1>9. Listed' /\ LeadsOK'
  BY <1>1, <1>3 DEF IInv, Listed, LeadsOK, TypeOK
<1>10. ~Owns(r)'
  BY <1>1, <1>3 DEF Owns, Dropped, IInv, TypeOK
<1>11. i = 1 => Owns(r)
  BY <1>1, <1>2, <1>7 DEF Owns, Dropped
<1>12. \A s \in Discovery \ {r} : Owns(s)' => Owns(s) /\ status'[s] = status[s]
  BY <1>1, <1>3, <1>7 DEF Owns, Dropped, IInv, TypeOK
<1>13. KeysApart'
  BY <1>3, <1>10, <1>12 DEF IInv, KeysApart
<1>14. \A s \in Discovery : status[s] # "adding" \/ producer.record = s
  BY DEF IInv, Control
<1>15. KeysHeld'
  <2>. SUFFICES ASSUME Len(leads) <= PreloadLimit, NEW s \in Discovery, Owns(s)'
                PROVE  KeyOf(listing[s]) \subseteq seen'.identities
    BY <1>3 DEF KeysHeld
  <2>1. s # r /\ Owns(s) /\ status[s] # "adding"
    BY <1>1, <1>7, <1>10, <1>12, <1>14
  <2>2. KeyOf(listing[s]) \subseteq seen.identities
    BY <2>1 DEF IInv, KeysHeld
  <2>3. i = 1 => KeyOf(listing[s]) \cap KeyOf(listing[r]) = {}
    BY <2>1, <1>1, <1>11 DEF IInv, KeysApart
  <2>. QED BY <2>2, <2>3, <1>5
<1>. QED BY <1>6, <1>8, <1>9, <1>13, <1>15 DEF IInv

\* The committer's steps preserve the invariant.
LEMMA CommitOK ==
  ASSUME IInv, NEW r \in Discovery, Commit(r) \/ CommitRaises(r)
  PROVE  IInv'
<1>1. /\ status[r] = "queued" /\ committer = Idle
      /\ \/ status' = [status EXCEPT ![r] = "committed"] /\ leads' = Append(leads, r)
         \/ status' = [status EXCEPT ![r] = "failed"] /\ leads' = leads
      /\ UNCHANGED <<seen, listing, producer, committer>>
  BY DEF Commit, CommitRaises
<1>2. TypeOK'
  <2>1. leads \in Seq(Discovery) /\ Append(leads, r) \in Seq(Discovery)
    BY AppendProperties DEF IInv, TypeOK
  <2>2. leads' \in Seq(Discovery) /\ status' \in [Discovery -> Statuses]
    BY <1>1, <2>1 DEF IInv, TypeOK, Statuses
  <2>. QED BY <1>1, <2>2 DEF IInv, TypeOK
<1>3. producer.record # r
  BY <1>1, Busy DEF IInv, Control
<1>4. Control'
  BY <1>1, <1>3, Busy DEF IInv, Control, TypeOK, Working
<1>5. Listed'
  BY <1>1 DEF IInv, Listed, TypeOK
<1>6. LeadsOK'
  <2>1. Len(leads) \in Nat /\ Len(Append(leads, r)) = Len(leads) + 1
        /\ Append(leads, r)[Len(leads) + 1] = r
        /\ \A i \in 1..Len(leads) : Append(leads, r)[i] = leads[i]
    BY LenProperties, AppendProperties DEF IInv, TypeOK
  <2>2. \A s \in Discovery : (\E i \in 1..Len(Append(leads, r)) : Append(leads, r)[i] = s)
                             <=> s = r \/ \E i \in 1..Len(leads) : leads[i] = s
    <3>. TAKE s \in Discovery
    <3>1. ASSUME NEW i \in 1..Len(Append(leads, r)), Append(leads, r)[i] = s
          PROVE  s = r \/ \E j \in 1..Len(leads) : leads[j] = s
      BY <2>1, <3>1
    <3>2. ASSUME NEW j \in 1..Len(leads), leads[j] = s
          PROVE  \E i \in 1..Len(Append(leads, r)) : Append(leads, r)[i] = s
      BY <2>1, <3>2
    <3>. QED BY <2>1, <3>1, <3>2
  <2>3. CASE status' = [status EXCEPT ![r] = "committed"] /\ leads' = Append(leads, r)
    BY <2>2, <2>3 DEF IInv, LeadsOK, TypeOK
  <2>4. CASE status' = [status EXCEPT ![r] = "failed"] /\ leads' = leads
    BY <1>1, <2>4 DEF IInv, LeadsOK, TypeOK
  <2>. QED BY <1>1, <2>3, <2>4
<1>7. Owns(r) /\ \A s \in Discovery : Owns(s)' => Owns(s)
  BY <1>1 DEF Owns, Dropped, IInv, TypeOK
<1>8. Len(leads') <= PreloadLimit => Len(leads) <= PreloadLimit
  BY <1>1, LenProperties, AppendProperties DEF IInv, TypeOK
<1>9. KeysApart'
  BY <1>1, <1>7, <1>8 DEF IInv, KeysApart
<1>10. KeysHeld'
  BY <1>1, <1>7, <1>8 DEF IInv, KeysHeld, TypeOK
<1>. QED BY <1>2, <1>4, <1>5, <1>6, <1>9, <1>10 DEF IInv

\* The committer begins to roll a record back.
LEMMA RefuseOK ==
  ASSUME IInv, NEW r \in Discovery, Refuse(r)
  PROVE  IInv'
<1>1. /\ status[r] = "queued" /\ committer = Idle
      /\ status' = [status EXCEPT ![r] = "rollback"]
      /\ committer' = [record |-> r, step |-> 1]
      /\ UNCHANGED <<seen, listing, producer, leads>>
  BY DEF Refuse
<1>2. TypeOK'
  BY <1>1 DEF IInv, TypeOK, Statuses, Working
<1>3. producer.record # r /\ \A s \in Discovery : committer.record # s
  BY <1>1, Busy DEF IInv, Control
<1>4. Control'
  BY <1>1, <1>3, Busy DEF IInv, Control, TypeOK, Working
<1>5. Listed' /\ LeadsOK'
  BY <1>1 DEF IInv, Listed, LeadsOK, TypeOK
<1>6. Owns(r) /\ \A s \in Discovery : Owns(s)' => Owns(s)
  BY <1>1, <1>3 DEF Owns, Dropped, IInv, TypeOK
<1>7. KeysApart'
  BY <1>1, <1>6 DEF IInv, KeysApart
<1>8. KeysHeld'
  BY <1>1, <1>6 DEF IInv, KeysHeld, TypeOK
<1>. QED BY <1>2, <1>4, <1>5, <1>7, <1>8 DEF IInv

\* A call of the committer's rollback takes back only what its record owns.
LEMMA CommitterRollbackOK ==
  ASSUME IInv, CommitterRollback
  PROVE  IInv'
<1>1. PICK r \in Discovery :
         /\ r = committer.record /\ committer \in Working /\ status[r] = "rollback"
         /\ committer.step \in 1..6 /\ listing[r] \in Listing
  BY Busy DEF CommitterRollback, IInv, Control, Working, Listed
<1>2. PICK i \in 1..6 : i = committer.step
  BY <1>1
<1>3. /\ seen' = Removed(seen, RollbackOrder[i], listing[r])
      /\ IF i = 6
         THEN committer' = Idle /\ status' = [status EXCEPT ![r] = "rejected"]
         ELSE committer' = [record |-> r, step |-> i + 1] /\ UNCHANGED status
      /\ UNCHANGED <<listing, producer, leads>>
  BY <1>1, <1>2 DEF CommitterRollback, Working
<1>4. seen \in Resolver
  BY DEF IInv, TypeOK, Resolver
<1>5. /\ seen' \in Resolver
      /\ seen'.identities = IF i = 1 THEN seen.identities \ KeyOf(listing[r])
                                     ELSE seen.identities
  BY <1>1, <1>3, <1>4, RemovedFacts
<1>6. TypeOK'
  <2>1. /\ seen' \in Resolver
        /\ committer' \in Working \cup {Idle}
        /\ status' \in [Discovery -> Statuses]
    <3>1. CASE i = 6
      BY <1>3, <1>5, <3>1 DEF IInv, TypeOK, Statuses
    <3>2. CASE i # 6
      BY <1>3, <1>5, <3>2 DEF IInv, TypeOK, Working
    <3>. QED BY <3>1, <3>2
  <2>. QED BY <1>3, <2>1 DEF IInv, TypeOK, Resolver
<1>7. producer.record # r /\ \A s \in Discovery \ {r} : committer.record # s /\ Idle.record # s
  BY <1>1, Busy DEF IInv, Control, Idle
<1>8. Control'
  <2>0. /\ producer # Idle =>
              /\ producer.record \in Discovery /\ producer.record # r
              /\ \/ status[producer.record] = "adding"
                 \/ status[producer.record] = "rollback" /\ producer.step \in 1..6
        /\ \A s \in Discovery : status[s] = "adding" => producer.record = s
        /\ \A s \in Discovery \ {r} : status[s] = "rollback" => producer.record = s
        /\ producer' = producer
    BY <1>1, <1>3, <1>7, Busy DEF IInv, Control, Working
  <2>1. CASE i = 6
    <3>1. /\ committer' = Idle /\ status'[r] = "rejected"
          /\ \A s \in Discovery \ {r} : status'[s] = status[s]
      BY <1>3, <2>1 DEF IInv, TypeOK
    <3>. QED BY <2>0, <3>1 DEF Control
  <2>2. CASE i # 6
    <3>1. /\ committer' = [record |-> r, step |-> i + 1] /\ status' = status
          /\ i + 1 \in 1..6
      BY <1>3, <2>2
    <3>. QED BY <1>1, <2>0, <3>1 DEF Control
  <2>. QED BY <2>1, <2>2
<1>9. Listed' /\ LeadsOK'
  BY <1>1, <1>3 DEF IInv, Listed, LeadsOK, TypeOK
<1>10. ~Owns(r)'
  BY <1>1, <1>3 DEF Owns, Dropped, IInv, TypeOK
<1>11. i = 1 => Owns(r)
  BY <1>1, <1>2, <1>7 DEF Owns, Dropped
<1>12. \A s \in Discovery \ {r} : Owns(s)' => Owns(s) /\ status'[s] = status[s]
  BY <1>1, <1>3, <1>7 DEF Owns, Dropped, IInv, TypeOK
<1>13. KeysApart'
  BY <1>3, <1>10, <1>12 DEF IInv, KeysApart
<1>14. KeysHeld'
  <2>. SUFFICES ASSUME Len(leads) <= PreloadLimit, NEW s \in Discovery, Owns(s)',
                       ~(status'[s] = "adding" /\ producer'.step = 1)
                PROVE  KeyOf(listing[s]) \subseteq seen'.identities
    BY <1>3 DEF KeysHeld
  <2>1. s # r /\ Owns(s) /\ ~(status[s] = "adding" /\ producer.step = 1)
    BY <1>3, <1>10, <1>12
  <2>2. KeyOf(listing[s]) \subseteq seen.identities
    BY <2>1 DEF IInv, KeysHeld
  <2>3. i = 1 => KeyOf(listing[s]) \cap KeyOf(listing[r]) = {}
    BY <2>1, <1>1, <1>11 DEF IInv, KeysApart
  <2>. QED BY <2>2, <2>3, <1>5
<1>. QED BY <1>6, <1>8, <1>9, <1>13, <1>14 DEF IInv

\* A restart re-establishes the invariant from the records table alone.
LEMMA RestartOK ==
  ASSUME IInv, Restart
  PROVE  IInv'
<1>. DEFINE recent == Preloaded(leads)
            order  == [i \in DOMAIN recent |-> listing[recent[i]]]
<1>1. /\ seen' = Seeded(order)
      /\ status' = [r \in Discovery |->
                      IF status[r] \in {"adding", "queued", "rollback", "failed"}
                      THEN "lost" ELSE status[r]]
      /\ producer' = Idle /\ committer' = Idle
      /\ UNCHANGED <<listing, leads>>
  BY DEF Restart
<1>2. /\ order \in Seq(Listing) /\ DOMAIN leads = 1..Len(leads)
      /\ Len(leads) <= PreloadLimit => recent = leads
  BY LeadsListed DEF IInv
<1>3. /\ seen' \in Resolver
      /\ \A i \in 1..Len(order) : KeyOf(order[i]) \subseteq seen'.identities
  BY <1>1, <1>2, SeededFacts
<1>4. TypeOK'
  BY <1>1, <1>3 DEF IInv, TypeOK, Resolver, Statuses
<1>5. \A s \in Discovery :
         /\ status'[s] \notin {"adding", "queued", "rollback", "failed"}
         /\ status'[s] = "committed" <=> status[s] = "committed"
         /\ status'[s] # "new" => status[s] # "new"
  BY <1>1 DEF IInv, TypeOK
<1>6. Control' /\ Listed' /\ LeadsOK'
  BY <1>1, <1>5 DEF IInv, Control, Listed, LeadsOK
<1>7. \A s \in Discovery : Owns(s)' => status[s] = "committed" /\ Owns(s)
  BY <1>5 DEF Owns
<1>8. KeysApart'
  BY <1>1, <1>7 DEF IInv, KeysApart
<1>9. KeysHeld'
  <2>. SUFFICES ASSUME Len(leads) <= PreloadLimit, NEW s \in Discovery, Owns(s)'
                PROVE  KeyOf(listing[s]) \subseteq seen'.identities
    BY <1>1 DEF KeysHeld
  <2>1. PICK i \in 1..Len(leads) : leads[i] = s
    BY <1>7 DEF IInv, LeadsOK
  <2>2. DOMAIN order = 1..Len(leads) /\ order[i] = listing[s]
    BY <1>2, <2>1
  <2>3. Len(order) = Len(leads)
    BY <1>2, <2>2, LenProperties DEF IInv, TypeOK
  <2>. QED BY <1>3, <2>2, <2>3
<1>. QED BY <1>4, <1>6, <1>8, <1>9 DEF IInv

\* The invariant is inductive.
LEMMA StepOK ==
  ASSUME IInv, [Next]_vars
  PROVE  IInv'
<1>1. CASE UNCHANGED vars
  BY <1>1 DEF vars, IInv, TypeOK, Control, Listed, LeadsOK, KeysApart, KeysHeld, Owns, Dropped
<1>2. CASE Next
  BY <1>2, LookupOK, AddStepOK, KeepOK, ProducerRollbackOK, CommitOK, RefuseOK,
     CommitterRollbackOK, RestartOK DEF Next
<1>. QED BY <1>1, <1>2

(***************************************************************************)
(* The resolver's structures and the threads' positions keep their types.   *)
(***************************************************************************)
THEOREM ResolverTypeCorrect == Spec => []TypeOK
<1>1. Init => IInv
  BY InitOK
<1>2. IInv /\ [Next]_vars => IInv'
  BY StepOK
<1>3. IInv => TypeOK
  BY DEF IInv
<1>. QED BY <1>1, <1>2, <1>3, PTL DEF Spec

(***************************************************************************)
(* No two leads are the same business while they fit in the preload         *)
(* (IdentityResolver.is_duplicate and rollback called by two threads,       *)
(* CheckpointStore._load_existing).                                         *)
(***************************************************************************)
THEOREM OneLead == Spec => []OneLeadWithinPreload
<1>1. Init => IInv
  BY InitOK
<1>2. IInv /\ [Next]_vars => IInv'
  BY StepOK
<1>3. IInv => OneLeadWithinPreload
  <2>. SUFFICES ASSUME IInv, Len(leads) <= PreloadLimit,
                       NEW a \in Discovery, NEW b \in Discovery,
                       status[a] = "committed", status[b] = "committed",
                       IdentityKey(listing[a]) = IdentityKey(listing[b]),
                       IdentityKey(listing[a]) # None
                PROVE  a = b
    BY DEF OneLeadWithinPreload, OneLeadPerIdentity
  <2>1. Owns(a) /\ Owns(b)
    BY DEF Owns
  <2>2. IdentityKey(listing[a]) \in KeyOf(listing[a]) \cap KeyOf(listing[b])
    BY DEF KeyOf
  <2>. QED BY <2>1, <2>2 DEF IInv, KeysApart
<1>. QED BY <1>1, <1>2, <1>3, PTL DEF Spec

-----------------------------------------------------------------------------
(* Who accounts for an entry *)

\* The entries of the six structures, in the order of a rollback, and those a
\* listing can have made.
Named(f) == {<<k, f[k]>> : k \in {k \in DOMAIN f : f[k] # Absent}}
Entries(s) == <<s.identities, s.domains, Named(s.domainFirstName), s.domainCity,
                s.phones, Named(s.phoneFirstName)>>
Claims(l) == <<KeyOf(l), DomainOf(l), DomainOf(l) \X {Signals[l].name},
               IF Weak(l) THEN DomainCityOf(l) ELSE {},
               IF Weak(l) THEN PhoneOf(l) ELSE {}, PhoneOf(l) \X {Signals[l].name}>>

\* The rollback of r is through with the j-th structure.
Passed(r, j) ==
    /\ status[r] = "rollback"
    /\ \/ producer.record = r /\ producer.step > j
       \/ committer.record = r /\ committer.step > j

Accounts(r, j) == r \in Holding /\ ~Passed(r, j)

\* Each entry was made by a record whose rollback has not come to it yet.
Justified ==
    \A j \in 1..6 : \A e \in Entries(seen)[j] :
        \E r \in Discovery : Accounts(r, j) /\ e \in Claims(listing[r])[j]

\* One call changes one structure.
Replaced(s, t, f) == [s EXCEPT ![f] = t[f]]

LEMMA OneStructure ==
  ASSUME NEW s \in Resolver, NEW t \in Resolver, NEW i \in 1..6, NEW j \in 1..6
  PROVE  Entries(Replaced(s, t, RollbackOrder[i]))[j] =
            IF i = j THEN Entries(t)[j] ELSE Entries(s)[j]
<1>. DEFINE f == RollbackOrder[i]
            u == Replaced(s, t, f)
<1>1. f \in {"identities", "domains", "domainFirstName", "domainCity",
             "phones", "phoneFirstName"}
  BY DEF RollbackOrder
<1>2. /\ u.identities = IF i = 1 THEN t.identities ELSE s.identities
      /\ u.domains = IF i = 2 THEN t.domains ELSE s.domains
      /\ u.domainFirstName = IF i = 3 THEN t.domainFirstName ELSE s.domainFirstName
      /\ u.domainCity = IF i = 4 THEN t.domainCity ELSE s.domainCity
      /\ u.phones = IF i = 5 THEN t.phones ELSE s.phones
      /\ u.phoneFirstName = IF i = 6 THEN t.phoneFirstName ELSE s.phoneFirstName
  BY DEF Resolver, RollbackOrder, Replaced
<1>. QED BY <1>2 DEF Entries

\* What setdefault and the conditional pop leave.
LEMMA NamedAfter ==
  ASSUME NEW f, NEW keys, NEW v
  PROVE  /\ Named(SetDefault(f, keys, v)) \subseteq Named(f) \cup (keys \X {v})
         /\ Named(PopIfEqual(f, keys, v)) \subseteq Named(f) \ (keys \X {v})
<1>1. ASSUME NEW k \in DOMAIN f, SetDefault(f, keys, v)[k] # Absent
      PROVE  <<k, SetDefault(f, keys, v)[k]>> \in Named(f) \cup (keys \X {v})
  BY <1>1 DEF SetDefault, Named
<1>2. ASSUME NEW k \in DOMAIN f, PopIfEqual(f, keys, v)[k] # Absent
      PROVE  <<k, PopIfEqual(f, keys, v)[k]>> \in Named(f) \ (keys \X {v})
  BY <1>2 DEF PopIfEqual, Named
<1>3. DOMAIN SetDefault(f, keys, v) = DOMAIN f /\ DOMAIN PopIfEqual(f, keys, v) = DOMAIN f
  BY DEF SetDefault, PopIfEqual
<1>. QED BY <1>1, <1>2, <1>3 DEF Named

\* An add makes only entries of its listing; a rollback leaves none of them.
LEMMA EntriesAfter ==
  ASSUME NEW s \in Resolver, NEW l \in Listing, NEW j \in 1..6
  PROVE  /\ Entries(AfterAdd(s, l))[j] \subseteq Entries(s)[j] \cup Claims(l)[j]
         /\ Entries(AfterRollback(s, l))[j] \subseteq Entries(s)[j] \ Claims(l)[j]
<1>1. CASE j \in {1, 2, 4, 5}
  BY <1>1 DEF Entries, Claims, AfterAdd, AfterRollback
<1>2. CASE j = 3
  BY <1>2, NamedAfter DEF Entries, Claims, AfterAdd, AfterRollback
<1>3. CASE j = 6
  BY <1>3, NamedAfter DEF Entries, Claims, AfterAdd, AfterRollback
<1>. QED BY <1>1, <1>2, <1>3

LEMMA EntriesAdded ==
  ASSUME NEW s \in Resolver, NEW l \in Listing, NEW i \in 1..6, NEW j \in 1..6
  PROVE  Entries(Added(s, AddOrder[i], l))[j] \subseteq Entries(s)[j] \cup Claims(l)[j]
<1>1. PICK k \in 1..6 : RollbackOrder[k] = AddOrder[i]
  BY DEF AddOrder, RollbackOrder
<1>2. PICK t \in Resolver : t = AfterAdd(s, l)
  BY AfterFacts
<1>3. Added(s, AddOrder[i], l) = Replaced(s, t, RollbackOrder[k])
  BY <1>1, <1>2 DEF Added, Replaced
<1>4. Entries(Replaced(s, t, RollbackOrder[k]))[j] =
         IF k = j THEN Entries(t)[j] ELSE Entries(s)[j]
  BY OneStructure
<1>5. Entries(t)[j] \subseteq Entries(s)[j] \cup Claims(l)[j]
  BY <1>2, EntriesAfter
<1>. QED BY <1>3, <1>4, <1>5

LEMMA EntriesRemoved ==
  ASSUME NEW s \in Resolver, NEW l \in Listing, NEW i \in 1..6, NEW j \in 1..6
  PROVE  /\ Entries(Removed(s, RollbackOrder[i], l))[j] \subseteq Entries(s)[j]
         /\ i = j => Entries(Removed(s, RollbackOrder[i], l))[j] \cap Claims(l)[j] = {}
<1>1. PICK t \in Resolver : t = AfterRollback(s, l)
  BY AfterFacts
<1>2. Removed(s, RollbackOrder[i], l) = Replaced(s, t, RollbackOrder[i])
  BY <1>1 DEF Removed, Replaced
<1>3. Entries(Replaced(s, t, RollbackOrder[i]))[j] =
         IF i = j THEN Entries(t)[j] ELSE Entries(s)[j]
  BY OneStructure
<1>4. Entries(t)[j] \subseteq Entries(s)[j] \ Claims(l)[j]
  BY <1>1, EntriesAfter
<1>. QED BY <1>2, <1>3, <1>4

\* The name a restart gives a domain or phone is that of a listing with it.
LEMMA NewestNameFrom ==
  ASSUME NEW order \in Seq(Listing), NEW those, NewestName(order, those) # Absent
  PROVE  \E i \in 1..Len(order) :
            order[i] \in those /\ NewestName(order, those) = Signals[order[i]].name
<1>. DEFINE named  == {i \in DOMAIN order : order[i] \in those /\ Signals[order[i]].name # None}
            newest == {i \in named : \A j \in named : j <= i}
            i      == CHOOSE i \in newest : TRUE
<1>1. newest # {}
  BY DEF NewestName
<1>2. i \in newest
  BY <1>1
<1>3. NewestName(order, those) = Signals[order[i]].name
  BY <1>1 DEF NewestName
<1>4. i \in 1..Len(order) /\ order[i] \in those
  BY <1>2, LenProperties
<1>. QED BY <1>3, <1>4

\* A restart makes only entries of the listings it loads.
LEMMA EntriesSeeded ==
  ASSUME NEW order \in Seq(Listing), NEW j \in 1..6, NEW e \in Entries(Seeded(order))[j]
  PROVE  \E i \in 1..Len(order) : e \in Claims(order[i])[j]
<1>1. \A l \in Range(order) : \E i \in 1..Len(order) : order[i] = l
  BY LenProperties DEF Range
<1>2. CASE j \in {1, 2, 4, 5}
  <2>1. PICK l \in Range(order) : e \in Claims(l)[j]
    <3>1. CASE j = 1
      BY <3>1 DEF Entries, Claims, Seeded
    <3>2. CASE j = 2
      BY <3>2 DEF Entries, Claims, Seeded
    <3>3. CASE j = 4
      BY <3>3 DEF Entries, Claims, Seeded
    <3>4. CASE j = 5
      BY <3>4 DEF Entries, Claims, Seeded
    <3>. QED BY <1>2, <3>1, <3>2, <3>3, <3>4
  <2>. QED BY <1>1, <2>1
<1>3. CASE j = 3
  <2>. DEFINE f == [d \in Domains |-> NewestName(order, {l \in Listing : d \in DomainOf(l)})]
  <2>1. e \in Named(f)
    BY <1>3 DEF Entries, Seeded
  <2>2. PICK d \in Domains : f[d] # Absent /\ e = <<d, f[d]>>
    BY <2>1 DEF Named
  <2>3. PICK i \in 1..Len(order) :
           order[i] \in {l \in Listing : d \in DomainOf(l)} /\ f[d] = Signals[order[i]].name
    BY <2>2, NewestNameFrom
  <2>4. e \in Claims(order[i])[3]
    BY <2>2, <2>3 DEF Claims
  <2>. QED BY <1>3, <2>4
<1>4. CASE j = 6
  <2>. DEFINE f == [p \in Phones |-> NewestName(order, {l \in Listing : p \in PhoneOf(l)})]
  <2>1. e \in Named(f)
    BY <1>4 DEF Entries, Seeded
  <2>2. PICK p \in Phones : f[p] # Absent /\ e = <<p, f[p]>>
    BY <2>1 DEF Named
  <2>3. PICK i \in 1..Len(order) :
           order[i] \in {l \in Listing : p \in PhoneOf(l)} /\ f[p] = Signals[order[i]].name
    BY <2>2, NewestNameFrom
  <2>4. e \in Claims(order[i])[6]
    BY <2>2, <2>3 DEF Claims
  <2>. QED BY <1>4, <2>4
<1>. QED BY <1>2, <1>3, <1>4

\* A step that takes no entry's record away keeps the entries accounted for.
LEMMA StillJustified ==
  ASSUME Justified, seen' = seen,
         \A j \in 1..6 : \A r \in Discovery :
             Accounts(r, j) => Accounts(r, j)' /\ listing'[r] = listing[r]
  PROVE  Justified'
<1>. SUFFICES ASSUME NEW j \in 1..6, NEW e \in Entries(seen)[j]
              PROVE  \E r \in Discovery : Accounts(r, j)' /\ e \in Claims(listing'[r])[j]
  BY DEF Justified
<1>1. PICK r \in Discovery : Accounts(r, j) /\ e \in Claims(listing[r])[j]
  BY DEF Justified
<1>. QED BY <1>1

\* A rollback takes entries of its own record away, and those only from others
\* that have them too.
LEMMA RollbackJustified ==
  ASSUME IInv, Justified, NEW r \in Discovery, status[r] = "rollback", NEW i \in 1..6,
         seen' = Removed(seen, RollbackOrder[i], listing[r]), listing' = listing,
         \A j \in 1..6 : Accounts(r, j) <=> i <= j,
         \A j \in 1..6 : i < j => Accounts(r, j)',
         \A j \in 1..6 : \A q \in Discovery \ {r} : Accounts(q, j) => Accounts(q, j)'
  PROVE  Justified'
<1>. SUFFICES ASSUME NEW j \in 1..6, NEW e \in Entries(seen')[j]
              PROVE  \E q \in Discovery : Accounts(q, j)' /\ e \in Claims(listing[q])[j]
  BY DEF Justified
<1>1. seen \in Resolver /\ listing[r] \in Listing
  BY DEF IInv, TypeOK, Resolver, Listed
<1>2. e \in Entries(seen)[j] /\ (i = j => e \notin Claims(listing[r])[j])
  BY <1>1, EntriesRemoved
<1>3. PICK q \in Discovery : Accounts(q, j) /\ e \in Claims(listing[q])[j]
  BY <1>2 DEF Justified
<1>4. q = r => i < j
  BY <1>2, <1>3
<1>. QED BY <1>3, <1>4

LEMMA JustifiedStep ==
  ASSUME IInv, Justified, [Next]_vars
  PROVE  Justified'
<1>1. ASSUME NEW r \in Discovery, NEW l \in Listing, Lookup(r, l)
      PROVE  Justified'
  <2>1. /\ seen' = seen /\ committer' = committer
        /\ status[r] = "new" /\ producer = Idle
        /\ listing' = [listing EXCEPT ![r] = l]
        /\ \A q \in Discovery \ {r} : status'[q] = status[q]
        /\ producer' = Idle \/ producer'.record = r
    BY <1>1 DEF Lookup, IInv, TypeOK
  <2>2. \A q \in Discovery : Idle.record # q
    BY DEF Idle
  <2>3. \A j \in 1..6 : \A q \in Discovery :
            Accounts(q, j) => Accounts(q, j)' /\ listing'[q] = listing[q]
    BY <2>1, <2>2 DEF Accounts, Holding, Passed, IInv, TypeOK
  <2>. QED BY <2>1, <2>3, StillJustified
<1>2. CASE AddStep
  <2>1. PICK r \in Discovery :
           /\ r = producer.record /\ producer \in Working /\ status[r] = "adding"
           /\ listing[r] \in Listing
    BY <1>2, Busy DEF AddStep, IInv, Working, Listed
  <2>2. PICK i \in 1..6 : i = producer.step
    BY <1>2, <2>1 DEF AddStep, Working
  <2>3. /\ seen' = Added(seen, AddOrder[i], listing[r])
        /\ producer'.record = r
        /\ UNCHANGED <<status, listing, committer>>
    BY <1>2, <2>1, <2>2 DEF AddStep, Working
  <2>4. \A j \in 1..6 : /\ Accounts(r, j)'
                        /\ \A q \in Discovery : Accounts(q, j) => Accounts(q, j)'
    BY <2>1, <2>3 DEF Accounts, Holding, Passed
  <2>5. seen \in Resolver
    BY DEF IInv, TypeOK, Resolver
  <2>. SUFFICES ASSUME NEW j \in 1..6, NEW e \in Entries(seen')[j]
                PROVE  \E q \in Discovery : Accounts(q, j)' /\ e \in Claims(listing[q])[j]
    BY <2>3 DEF Justified
  <2>6. e \in Entries(seen)[j] \/ e \in Claims(listing[r])[j]
    BY <2>1, <2>3, <2>5, EntriesAdded
  <2>. QED BY <2>4, <2>6 DEF Justified
<1>3. CASE Keep \/ PreFilterReject
  <2>1. PICK r \in Discovery :
           /\ r = producer.record /\ producer \in Working /\ status[r] = "adding"
    BY <1>3, Busy DEF Keep, PreFilterReject, IInv, Working
  <2>2. /\ seen' = seen /\ listing' = listing /\ committer' = committer
        /\ \A q \in Discovery \ {r} : status'[q] = status[q]
        /\ \/ status'[r] = "queued" /\ producer' = Idle
           \/ status'[r] = "rollback" /\ producer' = [record |-> r, step |-> 1]
    BY <1>3, <2>1 DEF Keep, PreFilterReject, IInv, TypeOK, Working
  <2>3. committer.record # r /\ \A q \in Discovery : Idle.record # q
    BY <2>1, Busy DEF IInv, Control, Idle
  <2>4. \A j \in 1..6 : \A q \in Discovery : Accounts(q, j) => Accounts(q, j)'
    BY <2>1, <2>2, <2>3 DEF Accounts, Holding, Passed
  <2>. QED BY <2>2, <2>4, StillJustified
<1>4. CASE ProducerRollback
  <2>1. PICK r \in Discovery :
           /\ r = producer.record /\ producer \in Working /\ status[r] = "rollback"
           /\ producer.step \in 1..6
    BY <1>4, Busy DEF ProducerRollback, IInv, Control, Working
  <2>2. PICK i \in 1..6 : i = producer.step
    BY <2>1
  <2>3. /\ seen' = Removed(seen, RollbackOrder[i], listing[r])
        /\ \A q \in Discovery \ {r} : status'[q] = status[q]
        /\ IF i = 6
           THEN producer' = Idle
           ELSE producer' = [record |-> r, step |-> i + 1] /\ status'[r] = "rollback"
        /\ UNCHANGED <<listing, committer>>
    BY <1>4, <2>1, <2>2 DEF ProducerRollback, Working, IInv, TypeOK
  <2>4. committer.record # r /\ \A q \in Discovery : Idle.record # q
    BY <2>1, Busy DEF IInv, Control, Idle
  <2>5. \A j \in 1..6 : /\ Accounts(r, j) <=> i <= j
                        /\ i < j => Accounts(r, j)'
    BY <2>1, <2>2, <2>3, <2>4 DEF Accounts, Holding, Passed
  <2>6. \A j \in 1..6 : \A q \in Discovery \ {r} : Accounts(q, j) => Accounts(q, j)'
    BY <2>1, <2>3, <2>4 DEF Accounts, Holding, Passed
  <2>. QED BY <2>1, <2>3, <2>5, <2>6, RollbackJustified
<1>5. ASSUME NEW r \in Discovery, Commit(r) \/ CommitRaises(r) \/ Refuse(r)
      PROVE  Justified'
  <2>1. /\ status[r] = "queued" /\ committer = Idle
        /\ \A q \in Discovery \ {r} : status'[q] = status[q]
        /\ \/ status'[r] \in {"committed", "failed"} /\ committer' = Idle
           \/ status'[r] = "rollback" /\ committer' = [record |-> r, step |-> 1]
        /\ UNCHANGED <<seen, listing, producer>>
    BY <1>5 DEF Commit, CommitRaises, Refuse, IInv, TypeOK
  <2>2. producer.record # r /\ \A q \in Discovery : Idle.record # q
    BY <2>1, Busy DEF IInv, Control, Idle
  <2>3. \A j \in 1..6 : \A q \in Discovery : Accounts(q, j) => Accounts(q, j)'
    BY <2>1, <2>2 DEF Accounts, Holding, Passed
  <2>. QED BY <2>1, <2>3, StillJustified
<1>6. CASE CommitterRollback
  <2>1. PICK r \in Discovery :
           /\ r = committer.record /\ committer \in Working /\ status[r] = "rollback"
           /\ committer.step \in 1..6
    BY <1>6, Busy DEF CommitterRollback, IInv, Control, Working
  <2>2. PICK i \in 1..6 : i = committer.step
    BY <2>1
  <2>3. /\ seen' = Removed(seen, RollbackOrder[i], listing[r])
        /\ \A q \in Discovery \ {r} : status'[q] = status[q]
        /\ IF i = 6
           THEN committer' = Idle
           ELSE committer' = [record |-> r, step |-> i + 1] /\ status'[r] = "rollback"
        /\ UNCHANGED <<listing, producer>>
    BY <1>6, <2>1, <2>2 DEF CommitterRollback, Working, IInv, TypeOK
  <2>4. producer.record # r /\ \A q \in Discovery : Idle.record # q
    BY <2>1, Busy DEF IInv, Control, Idle
  <2>5. \A j \in 1..6 : /\ Accounts(r, j) <=> i <= j
                        /\ i < j => Accounts(r, j)'
    BY <2>1, <2>2, <2>3, <2>4 DEF Accounts, Holding, Passed
  <2>6. \A j \in 1..6 : \A q \in Discovery \ {r} : Accounts(q, j) => Accounts(q, j)'
    BY <2>1, <2>3, <2>4 DEF Accounts, Holding, Passed
  <2>. QED BY <2>1, <2>3, <2>5, <2>6, RollbackJustified
<1>7. CASE Restart
  <2>. DEFINE recent == Preloaded(leads)
              order  == [i \in DOMAIN recent |-> listing[recent[i]]]
  <2>1. seen' = Seeded(order) /\ listing' = listing
    BY <1>7 DEF Restart
  <2>2. order \in Seq(Listing) /\ DOMAIN order = DOMAIN recent
    BY LeadsListed DEF IInv
  <2>3. \A i \in 1..Len(order) : /\ recent[i] \in Discovery
                                 /\ status'[recent[i]] = "committed"
                                 /\ order[i] = listing[recent[i]]
    BY <1>7, <2>2, LeadsListed, LenProperties DEF Restart, IInv, TypeOK
  <2>. SUFFICES ASSUME NEW j \in 1..6, NEW e \in Entries(seen')[j]
                PROVE  \E q \in Discovery : Accounts(q, j)' /\ e \in Claims(listing[q])[j]
    BY <2>1 DEF Justified
  <2>4. PICK i \in 1..Len(order) : e \in Claims(order[i])[j]
    BY <2>1, <2>2, EntriesSeeded
  <2>5. PICK q \in Discovery : status'[q] = "committed" /\ order[i] = listing[q]
    BY <2>3
  <2>6. Accounts(q, j)'
    BY <2>5 DEF Accounts, Holding, Passed
  <2>. QED BY <2>4, <2>5, <2>6
<1>8. CASE UNCHANGED vars
  BY <1>8 DEF vars, Justified, Accounts, Holding, Passed
<1>. QED BY <1>1, <1>2, <1>3, <1>4, <1>5, <1>6, <1>7, <1>8 DEF Next

LEMMA JustifiedNotStale ==
  ASSUME TypeOK, Justified
  PROVE  NoStaleEntry
<1>1. \A j \in 1..6 : \A e \in Entries(seen)[j] :
          \E r \in Holding : e \in Claims(listing[r])[j]
  BY DEF Justified, Accounts
<1>2. ASSUME NEW k \in seen.identities
      PROVE  \E r \in Holding : k \in KeyOf(listing[r])
  <2>1. k \in Entries(seen)[1]
    BY DEF Entries
  <2>2. PICK r \in Holding : k \in Claims(listing[r])[1]
    BY <1>1, <2>1
  <2>. QED BY <2>2 DEF Claims
<1>3. ASSUME NEW d \in seen.domains
      PROVE  \E r \in Holding : d \in DomainOf(listing[r])
  <2>1. d \in Entries(seen)[2]
    BY DEF Entries
  <2>2. PICK r \in Holding : d \in Claims(listing[r])[2]
    BY <1>1, <2>1
  <2>. QED BY <2>2 DEF Claims
<1>4. ASSUME NEW d \in Domains, seen.domainFirstName[d] # Absent
      PROVE  \E r \in Holding : /\ d \in DomainOf(listing[r])
                                /\ Signals[listing[r]].name = seen.domainFirstName[d]
  <2>1. DOMAIN seen.domainFirstName = Domains
    BY DEF TypeOK
  <2>2. <<d, seen.domainFirstName[d]>> \in Named(seen.domainFirstName)
    BY <1>4, <2>1 DEF Named
  <2>3. <<d, seen.domainFirstName[d]>> \in Entries(seen)[3]
    BY <2>2 DEF Entries
  <2>4. PICK r \in Holding : <<d, seen.domainFirstName[d]>> \in Claims(listing[r])[3]
    BY <1>1, <2>3
  <2>. QED BY <2>4 DEF Claims
<1>5. ASSUME NEW e \in seen.domainCity
      PROVE  \E r \in Holding : Weak(listing[r]) /\ e \in DomainCityOf(listing[r])
  <2>1. e \in Entries(seen)[4]
    BY DEF Entries
  <2>2. PICK r \in Holding : e \in Claims(listing[r])[4]
    BY <1>1, <2>1
  <2>. QED BY <2>2 DEF Claims
<1>6. ASSUME NEW p \in seen.phones
      PROVE  \E r \in Holding : Weak(listing[r]) /\ p \in PhoneOf(listing[r])
  <2>1. p \in Entries(seen)[5]
    BY DEF Entries
  <2>2. PICK r \in Holding : p \in Claims(listing[r])[5]
    BY <1>1, <2>1
  <2>. QED BY <2>2 DEF Claims
<1>7. ASSUME NEW p \in Phones, seen.phoneFirstName[p] # Absent
      PROVE  \E r \in Holding : /\ p \in PhoneOf(listing[r])
                                /\ Signals[listing[r]].name = seen.phoneFirstName[p]
  <2>1. DOMAIN seen.phoneFirstName = Phones
    BY DEF TypeOK
  <2>2. <<p, seen.phoneFirstName[p]>> \in Named(seen.phoneFirstName)
    BY <1>7, <2>1 DEF Named
  <2>3. <<p, seen.phoneFirstName[p]>> \in Entries(seen)[6]
    BY <2>2 DEF Entries
  <2>4. PICK r \in Holding : <<p, seen.phoneFirstName[p]>> \in Claims(listing[r])[6]
    BY <1>1, <2>3
  <2>. QED BY <2>4 DEF Claims
<1>. QED BY <1>2, <1>3, <1>4, <1>5, <1>6, <1>7 DEF NoStaleEntry

LEMMA InitJustified ==
  ASSUME Init
  PROVE  Justified
<1>1. Named(seen.domainFirstName) = {} /\ Named(seen.phoneFirstName) = {}
  BY DEF Init, Nothing, Named
<1>2. Entries(seen) = <<{}, {}, {}, {}, {}, {}>>
  BY <1>1 DEF Entries, Init, Nothing
<1>. QED BY <1>2 DEF Justified

(***************************************************************************)
(* A rejected record leaves nothing behind in any of the six structures,    *)
(* whatever the other thread adds or rolls back meanwhile, and across       *)
(* restarts (IdentityResolver.rollback, CheckpointStore._load_existing).    *)
(***************************************************************************)
THEOREM NothingStale == Spec => []NoStaleEntry
<1>1. Init => IInv /\ Justified
  BY InitOK, InitJustified
<1>2. (IInv /\ Justified) /\ [Next]_vars => (IInv /\ Justified)'
  BY StepOK, JustifiedStep
<1>3. IInv /\ Justified => NoStaleEntry
  BY JustifiedNotStale DEF IInv
<1>. QED BY <1>1, <1>2, <1>3, PTL DEF Spec

\* What the lookup finds is an entry of a record it may be the twin of.
LEMMA DuplicateOfTwin ==
  ASSUME TypeOK, NoStaleEntry, NEW l \in Listing, IsDuplicate(seen, l)
  PROVE  \E t \in Holding : MayBeSame(l, listing[t])
<1>0. /\ DomainOf(l) \subseteq Domains /\ PhoneOf(l) \subseteq Phones
      /\ Signals[l].name # Absent
  BY EntriesInRange DEF SignalsAssumption
<1>1. CASE KeyOf(l) \cap seen.identities # {}
  BY <1>1 DEF NoStaleEntry, MayBeSame
<1>2. ASSUME NEW d \in DomainOf(l), Signals[l].name # None,
             seen.domainFirstName[d] = Signals[l].name
      PROVE  \E t \in Holding : MayBeSame(l, listing[t])
  <2>1. PICK t \in Holding : /\ d \in DomainOf(listing[t])
                             /\ Signals[listing[t]].name = seen.domainFirstName[d]
    BY <1>0, <1>2 DEF NoStaleEntry
  <2>. QED BY <1>2, <2>1 DEF MayBeSame
<1>3. ASSUME NEW p \in PhoneOf(l), Signals[l].name # None,
             seen.phoneFirstName[p] = Signals[l].name
      PROVE  \E t \in Holding : MayBeSame(l, listing[t])
  <2>1. PICK t \in Holding : /\ p \in PhoneOf(listing[t])
                             /\ Signals[listing[t]].name = seen.phoneFirstName[p]
    BY <1>0, <1>3 DEF NoStaleEntry
  <2>. QED BY <1>3, <2>1 DEF MayBeSame
<1>4. CASE Weak(l) /\ DomainCityOf(l) \cap seen.domainCity # {}
  BY <1>4 DEF NoStaleEntry, MayBeSame
<1>5. CASE Weak(l) /\ PhoneOf(l) \cap seen.phones # {}
  BY <1>5 DEF NoStaleEntry, MayBeSame
<1>. QED BY <1>1, <1>2, <1>3, <1>4, <1>5 DEF IsDuplicate

(***************************************************************************)
(* A listing is dropped only for a record it may really be: one with its    *)
(* identity key, one with its name and its domain or phone, or, if neither  *)
(* has an id, one with its domain and city or its phone                     *)
(* (IdentityResolver.is_duplicate).                                         *)
(***************************************************************************)
THEOREM OnlyTwinsDropped == Spec => DroppedOnlyForTwin
<1>. DEFINE Dropping ==
        \A r \in Discovery :
            status[r] = "new" /\ status'[r] = "duplicate" =>
               \E t \in Holding : MayBeSame(listing'[r], listing[t])
<1>1. IInv /\ NoStaleEntry /\ [Next]_vars => [Dropping]_vars
  <2>. SUFFICES ASSUME IInv, NoStaleEntry, Next, NEW r \in Discovery,
                       status[r] = "new", status'[r] = "duplicate"
                PROVE  \E t \in Holding : MayBeSame(listing'[r], listing[t])
    OBVIOUS
  <2>1. ASSUME NEW q \in Discovery, NEW l \in Listing, Lookup(q, l)
        PROVE  \E t \in Holding : MayBeSame(listing'[r], listing[t])
    <3>1. q = r
      BY <2>1 DEF Lookup, IInv, TypeOK
    <3>2. IsDuplicate(seen, l) /\ listing'[r] = l
      BY <2>1, <3>1 DEF Lookup, IInv, TypeOK
    <3>. QED BY <3>2, DuplicateOfTwin DEF IInv
  <2>2. ~(AddStep \/ Keep \/ PreFilterReject \/ ProducerRollback)
    BY DEF AddStep, Keep, PreFilterReject, ProducerRollback, IInv, TypeOK
  <2>3. ~(CommitterRollback \/ Restart)
    BY DEF CommitterRollback, Restart, IInv, TypeOK
  <2>4. ASSUME NEW q \in Discovery PROVE ~(Commit(q) \/ CommitRaises(q) \/ Refuse(q))
    BY DEF Commit, CommitRaises, Refuse, IInv, TypeOK
  <2>. QED BY <2>1, <2>2, <2>3, <2>4 DEF Next
<1>2. Init => IInv
  BY InitOK
<1>3. IInv /\ [Next]_vars => IInv'
  BY StepOK
<1>. QED BY <1>1, <1>2, <1>3, NothingStale, PTL DEF Spec, DroppedOnlyForTwin

-----------------------------------------------------------------------------
(* The resolver implements BusinessClaims *)

Exported == [i \in 1..Len(leads) |-> BusinessOf(leads[i])]
Claimed  == {BusinessOf(r) : r \in UnderWay}

\* Records on their way own their keys.
LEMMA UnderWayOwns == UnderWay \subseteq {r \in Discovery : Owns(r)}
BY DEF UnderWay, Owns

\* The two parts of a business tell it from every other.
LEMMA BusinessParts ==
  ASSUME NEW a \in Discovery, NEW b \in Discovery, BusinessOf(a) = BusinessOf(b)
  PROVE  a = b \/ KeyOf(listing[a]) \cap KeyOf(listing[b]) # {}
<1>. DEFINE j == IdentityKey(listing[a])
            k == IdentityKey(listing[b])
<1>1. a # Absent /\ b # Absent
  OBVIOUS
<1>2. BusinessOf(a) = (IF j = None THEN <<None, a>> ELSE <<j, Absent>>)
  BY DEF BusinessOf
<1>3. BusinessOf(b) = (IF k = None THEN <<None, b>> ELSE <<k, Absent>>)
  BY DEF BusinessOf
<1>4. KeyOf(listing[a]) = {j} \ {None} /\ KeyOf(listing[b]) = {k} \ {None}
  BY DEF KeyOf
<1>. HIDE DEF j, k
<1>5. BusinessOf(a)[1] = j /\ BusinessOf(a)[2] = IF j = None THEN a ELSE Absent
  BY <1>2
<1>6. BusinessOf(b)[1] = k /\ BusinessOf(b)[2] = IF k = None THEN b ELSE Absent
  BY <1>3
<1>7. j = k /\ (IF j = None THEN a ELSE Absent) = (IF k = None THEN b ELSE Absent)
  BY <1>5, <1>6, Zenon
<1>. QED BY <1>4, <1>7

\* Every record looked up has a business.
LEMMA BusinessInRange ==
  ASSUME NEW r \in Discovery, listing[r] \in Listing
  PROVE  BusinessOf(r) \in (Keys \X {Absent}) \cup ({None} \X Discovery)
BY DEF BusinessOf, Keys

\* Owners have businesses of their own.
LEMMA BusinessesApart ==
  ASSUME KeysApart, Len(leads) <= PreloadLimit,
         NEW a \in Discovery, NEW b \in Discovery, Owns(a), Owns(b),
         BusinessOf(a) = BusinessOf(b)
  PROVE  a = b
BY BusinessParts DEF KeysApart

\* The businesses of the leads, in the order of their commits.
LEMMA ExportedFacts ==
  ASSUME TypeOK, LeadsOK
  PROVE  /\ Len(leads) \in Nat /\ DOMAIN Exported = 1..Len(leads)
         /\ \A i \in 1..Len(leads) : leads[i] \in Discovery /\ status[leads[i]] = "committed"
         /\ Range(Exported) = {BusinessOf(leads[i]) : i \in 1..Len(leads)}
<1>1. leads \in Seq(Discovery) /\ Len(leads) \in Nat
  BY LenProperties DEF TypeOK
<1>2. \A i \in 1..Len(leads) : leads[i] \in Discovery
  BY <1>1, ElementOfSeq
<1>. QED BY <1>1, <1>2 DEF LeadsOK, Exported, Range

\* A step that moves no record in or out of its way changes nothing.
LEMMA StutterStep ==
  ASSUME TypeOK, LeadsOK, leads' = leads, UnderWay' = UnderWay,
         \A r \in Discovery : listing'[r] = listing[r] \/ status[r] = "new"
  PROVE  Exported' = Exported /\ Claimed' = Claimed
<1>1. \A r \in Discovery : listing'[r] = listing[r] => BusinessOf(r)' = BusinessOf(r)
  BY DEF BusinessOf
<1>2. \A i \in 1..Len(leads) : BusinessOf(leads[i])' = BusinessOf(leads[i])
  <2>. SUFFICES ASSUME NEW i \in 1..Len(leads)
                PROVE  BusinessOf(leads[i])' = BusinessOf(leads[i])
    OBVIOUS
  <2>1. leads[i] \in Discovery /\ status[leads[i]] = "committed"
    BY ExportedFacts
  <2>. QED BY <1>1, <2>1
<1>3. \A r \in UnderWay : BusinessOf(r)' = BusinessOf(r)
  BY <1>1 DEF UnderWay
<1>. QED BY <1>2, <1>3 DEF Exported, Claimed

\* A record that leaves gives up its claim, and no other claim with it.
LEMMA LeaveStep ==
  ASSUME IInv, Len(leads) <= PreloadLimit, NEW r \in Discovery,
         r \in UnderWay, UnderWay' = UnderWay \ {r}, listing' = listing
  PROVE  /\ BusinessOf(r) \in Claimed /\ Claimed' = Claimed \ {BusinessOf(r)}
         /\ BusinessOf(r) \in (Keys \X {Absent}) \cup ({None} \X Discovery)
<1>1. \A s \in UnderWay : BusinessOf(s) = BusinessOf(r) => s = r
  BY UnderWayOwns, BusinessesApart DEF IInv
<1>2. \A s \in Discovery : BusinessOf(s)' = BusinessOf(s)
  BY DEF BusinessOf
<1>3. Claimed' = {BusinessOf(s) : s \in UnderWay \ {r}}
  BY <1>2 DEF Claimed, UnderWay
<1>4. status[r] # "new"
  BY DEF UnderWay
<1>5. BusinessOf(r) \in (Keys \X {Absent}) \cup ({None} \X Discovery)
  BY <1>4, BusinessInRange DEF IInv, Listed
<1>6. BusinessOf(r) \in Claimed
  BY DEF Claimed
<1>7. {BusinessOf(s) : s \in UnderWay \ {r}} = Claimed \ {BusinessOf(r)}
  BY <1>1 DEF Claimed
<1>. QED BY <1>3, <1>5, <1>6, <1>7

\* The instance's range is that of functions.
LEMMA SameRange == \A f : Ledger!Range(f) = Range(f)
BY DEF Ledger!Range, Range

\* Every step is a step of BusinessClaims, or none.
LEMMA ClaimStep ==
  ASSUME IInv, [Next]_vars, Len(leads) <= PreloadLimit
  PROVE  [Ledger!Next]_(Ledger!vars)
<1>. DEFINE Business == (Keys \X {Absent}) \cup ({None} \X Discovery)
<1>0. /\ TypeOK /\ Control /\ Listed /\ LeadsOK /\ KeysApart /\ KeysHeld
      /\ status \in [Discovery -> Statuses] /\ listing \in [Discovery -> Listing \cup {Absent}]
      /\ Absent \notin Discovery
  BY DEF IInv, TypeOK
<1>S. ASSUME Exported' = Exported, Claimed' = Claimed
      PROVE  [Ledger!Next]_(Ledger!vars)
  BY <1>S DEF Ledger!vars, Exported, Claimed
<1>G. ASSUME NEW r \in Discovery, r \in UnderWay, UnderWay' = UnderWay \ {r},
             listing' = listing, leads' = leads
      PROVE  [Ledger!Next]_(Ledger!vars)
  <2>1. /\ BusinessOf(r) \in Claimed /\ Claimed' = Claimed \ {BusinessOf(r)}
        /\ BusinessOf(r) \in Business
    BY <1>G, LeaveStep
  <2>2. Exported' = Exported
    BY <1>G DEF Exported, BusinessOf
  <2>. QED BY <2>1, <2>2 DEF Ledger!Next, Ledger!GiveUp, Exported, Claimed
<1>1. ASSUME NEW r \in Discovery, NEW l \in Listing, Lookup(r, l)
      PROVE  [Ledger!Next]_(Ledger!vars)
  <2>1. /\ producer = Idle /\ status[r] = "new" /\ leads' = leads /\ committer' = committer
        /\ listing' = [listing EXCEPT ![r] = l] /\ seen' = seen
    BY <1>1 DEF Lookup
  <2>2. \A s \in Discovery \ {r} : listing'[s] = listing[s]
    BY <1>0, <2>1
  <2>3. CASE IsDuplicate(seen, l)
    <3>1. status' = [status EXCEPT ![r] = "duplicate"] /\ producer' = producer
      BY <1>1, <2>3 DEF Lookup
    <3>2. UnderWay' = UnderWay
      BY <1>0, <2>1, <3>1 DEF UnderWay, Dropped
    <3>. QED BY <1>0, <1>S, <2>1, <2>2, <3>2, StutterStep
  <2>4. CASE ~IsDuplicate(seen, l)
    <3>1. status' = [status EXCEPT ![r] = "adding"] /\ producer' = [record |-> r, step |-> 1]
      BY <1>1, <2>4 DEF Lookup
    <3>2. \A s \in Discovery : status[s] = "rollback" => producer'.record # s /\ producer.record # s
      BY <1>0, <2>1, <3>1 DEF Idle
    <3>3. UnderWay' = UnderWay \cup {r} /\ r \notin UnderWay
      BY <1>0, <2>1, <3>1, <3>2 DEF UnderWay, Dropped
    <3>4. \A s \in Discovery : Owns(s) => KeyOf(listing[s]) \subseteq seen.identities
      <4>1. \A s \in Discovery : status[s] # "adding"
        BY <1>0, <2>1 DEF Control, Idle
      <4>. QED BY <1>0, <4>1 DEF KeysHeld
    <3>5. KeyOf(l) \cap seen.identities = {}
      BY <2>4 DEF IsDuplicate
    <3>. DEFINE b == IF IdentityKey(l) = None THEN <<None, r>> ELSE <<IdentityKey(l), Absent>>
    <3>6. BusinessOf(r)' = b /\ b \in Business
      BY <1>0, <2>1 DEF BusinessOf, Keys
    <3>7. \A s \in Discovery \ {r} : BusinessOf(s)' = BusinessOf(s)
      BY <2>2 DEF BusinessOf
    <3>8. \A s \in Discovery \ {r} : Owns(s) => BusinessOf(s) # b
      <4>. SUFFICES ASSUME NEW s \in Discovery \ {r}, Owns(s), BusinessOf(s) = b PROVE FALSE
        OBVIOUS
      <4>. DEFINE k == IdentityKey(listing[s])
                  j == IdentityKey(l)
      <4>1. /\ KeyOf(listing[s]) = {k} \ {None} /\ KeyOf(l) = {j} \ {None}
        BY DEF KeyOf
      <4>2. BusinessOf(s) = (IF k = None THEN <<None, s>> ELSE <<k, Absent>>)
        BY DEF BusinessOf
      <4>3. b = (IF j = None THEN <<None, r>> ELSE <<j, Absent>>)
        OBVIOUS
      <4>4. KeyOf(listing[s]) \cap KeyOf(l) = {}
        BY <3>4, <3>5
      <4>. HIDE DEF b, k, j
      <4>5. BusinessOf(s)[1] = k /\ BusinessOf(s)[2] = IF k = None THEN s ELSE Absent
        BY <4>2
      <4>6. b[1] = j /\ b[2] = IF j = None THEN r ELSE Absent
        BY <4>3
      <4>7. j = k /\ (IF j = None THEN r ELSE Absent) = (IF k = None THEN s ELSE Absent)
        BY <4>5, <4>6, Zenon
      <4>. QED BY <4>1, <4>4, <4>7
    <3>. HIDE DEF b
    <3>9. b \notin Claimed
      BY <3>3, <3>8, UnderWayOwns DEF Claimed
    <3>10. Claimed' = Claimed \cup {b}
      <4>1. Claimed' = {BusinessOf(s)' : s \in UnderWay \cup {r}}
        BY <3>3 DEF Claimed
      <4>2. \A s \in UnderWay : BusinessOf(s)' = BusinessOf(s)
        BY <3>3, <3>7 DEF UnderWay
      <4>. QED BY <3>6, <4>1, <4>2 DEF Claimed
    <3>11. \A i \in 1..Len(leads) : leads[i] \in Discovery \ {r} /\ Owns(leads[i])
      BY <1>0, <2>1, ExportedFacts DEF Owns
    <3>12. b \notin Range(Exported)
      BY <1>0, <3>8, <3>11, ExportedFacts
    <3>13. Exported' = Exported
      BY <2>1, <3>7, <3>11 DEF Exported
    <3>14. Ledger!Claim(b)
      BY <3>9, <3>10, <3>12, <3>13, SameRange DEF Ledger!Claim, Exported, Claimed
    <3>. QED BY <3>6, <3>14 DEF Ledger!Next
  <2>. QED BY <2>3, <2>4
<1>2. CASE AddStep \/ Keep \/ PreFilterReject
  <2>. DEFINE r == producer.record
  <2>1. /\ producer # Idle /\ status[r] = "adding" /\ r \in Discovery
        /\ UNCHANGED <<listing, leads, committer>>
        /\ \/ status' = status /\ producer' = [producer EXCEPT !.step = @ + 1]
           \/ status' = [status EXCEPT ![r] = "queued"] /\ producer' = Idle
           \/ /\ status' = [status EXCEPT ![r] = "rollback"]
              /\ producer' = [producer EXCEPT !.step = 1]
    BY <1>2 DEF AddStep, Keep, PreFilterReject, TypeOK, IInv, Working
  <2>2. committer.record = r => committer = Idle
    BY <1>0, <2>1 DEF Control
  <2>3. committer.record # r
    BY <1>0, <2>1, <2>2 DEF Idle
  <2>4. producer'.record = r \/ producer'.record = Absent
    BY <1>0, <2>1 DEF TypeOK, Working, Idle
  <2>5. \A s \in Discovery : s \in UnderWay' <=> s \in UnderWay
    <3>. SUFFICES ASSUME NEW s \in Discovery PROVE s \in UnderWay' <=> s \in UnderWay
      OBVIOUS
    <3>1. CASE s = r
      <4>1. s \in UnderWay
        BY <2>1, <3>1 DEF UnderWay
      <4>2. status'[s] = "rollback" => producer'.step = 1
        BY <1>0, <2>1, <3>1 DEF TypeOK, Working, Idle
      <4>3. status'[s] \in {"adding", "queued", "rollback"}
        BY <1>0, <2>1, <3>1
      <4>. QED BY <2>1, <2>3, <3>1, <4>1, <4>2, <4>3 DEF UnderWay, Dropped
    <3>2. CASE s # r
      <4>1. status'[s] = status[s] /\ producer.record # s /\ producer'.record # s
        BY <1>0, <2>1, <2>4, <3>2
      <4>. QED BY <2>1, <4>1 DEF UnderWay, Dropped
    <3>. QED BY <3>1, <3>2
  <2>6. UnderWay' = UnderWay
    BY <2>5 DEF UnderWay
  <2>. QED BY <1>0, <1>S, <2>1, <2>6, StutterStep
<1>3. CASE ProducerRollback
  <2>. DEFINE r == producer.record
  <2>1. /\ producer # Idle /\ status[r] = "rollback" /\ r \in Discovery
        /\ producer.step \in 1..6
        /\ UNCHANGED <<listing, leads, committer>>
        /\ \/ producer.step = 6 /\ producer' = Idle /\ status' = [status EXCEPT ![r] = "rejected"]
           \/ /\ producer.step # 6 /\ status' = status
              /\ producer' = [producer EXCEPT !.step = @ + 1]
    BY <1>0, <1>3 DEF ProducerRollback, TypeOK, Working, Control
  <2>2. committer.record # r
    BY <1>0, <2>1 DEF Control, Idle
  <2>3. \A s \in Discovery \ {r} : s \in UnderWay' <=> s \in UnderWay
    <3>1. \A s \in Discovery \ {r} :
            status'[s] = status[s] /\ producer.record # s /\ producer'.record # s
      BY <1>0, <2>1 DEF TypeOK, Working, Idle
    <3>. QED BY <2>1, <3>1 DEF UnderWay, Dropped
  <2>4. CASE producer.step = 1
    <3>1. r \in UnderWay
      BY <2>1, <2>2, <2>4 DEF UnderWay, Dropped
    <3>2. r \notin UnderWay'
      BY <1>0, <2>1, <2>4 DEF UnderWay, Dropped, TypeOK, Working
    <3>3. UnderWay' = UnderWay \ {r}
      BY <2>3, <3>2 DEF UnderWay
    <3>. QED BY <1>G, <2>1, <3>1, <3>3
  <2>5. CASE producer.step # 1
    <3>1. r \notin UnderWay
      BY <2>1, <2>5 DEF UnderWay, Dropped
    <3>2. r \notin UnderWay'
      BY <1>0, <2>1, <2>5 DEF UnderWay, Dropped, TypeOK, Working
    <3>3. UnderWay' = UnderWay
      BY <2>1, <2>3, <3>1, <3>2 DEF UnderWay
    <3>. QED BY <1>0, <1>S, <2>1, <3>3, StutterStep
  <2>. QED BY <2>4, <2>5
<1>4. CASE CommitterRollback
  <2>. DEFINE r == committer.record
  <2>1. /\ committer # Idle /\ status[r] = "rollback" /\ r \in Discovery
        /\ committer.step \in 1..6
        /\ UNCHANGED <<listing, leads, producer>>
        /\ \/ committer.step = 6 /\ committer' = Idle /\ status' = [status EXCEPT ![r] = "rejected"]
           \/ /\ committer.step # 6 /\ status' = status
              /\ committer' = [committer EXCEPT !.step = @ + 1]
    BY <1>0, <1>4 DEF CommitterRollback, TypeOK, Working, Control
  <2>2. producer.record # r
    BY <1>0, <2>1 DEF Control, Idle
  <2>3. \A s \in Discovery \ {r} : s \in UnderWay' <=> s \in UnderWay
    <3>1. \A s \in Discovery \ {r} :
            status'[s] = status[s] /\ committer.record # s /\ committer'.record # s
      BY <1>0, <2>1 DEF TypeOK, Working, Idle
    <3>. QED BY <2>1, <3>1 DEF UnderWay, Dropped
  <2>4. CASE committer.step = 1
    <3>1. r \in UnderWay
      BY <2>1, <2>2, <2>4 DEF UnderWay, Dropped
    <3>2. r \notin UnderWay'
      BY <1>0, <2>1, <2>4 DEF UnderWay, Dropped, TypeOK, Working
    <3>3. UnderWay' = UnderWay \ {r}
      BY <2>3, <3>2 DEF UnderWay
    <3>. QED BY <1>G, <2>1, <3>1, <3>3
  <2>5. CASE committer.step # 1
    <3>1. r \notin UnderWay
      BY <2>1, <2>5 DEF UnderWay, Dropped
    <3>2. r \notin UnderWay'
      BY <1>0, <2>1, <2>5 DEF UnderWay, Dropped, TypeOK, Working
    <3>3. UnderWay' = UnderWay
      BY <2>1, <2>3, <3>1, <3>2 DEF UnderWay
    <3>. QED BY <1>0, <1>S, <2>1, <3>3, StutterStep
  <2>. QED BY <2>4, <2>5
<1>5. ASSUME NEW r \in Discovery, Commit(r)
      PROVE  [Ledger!Next]_(Ledger!vars)
  <2>1. /\ status[r] = "queued" /\ status' = [status EXCEPT ![r] = "committed"]
        /\ leads' = Append(leads, r) /\ UNCHANGED <<listing, producer, committer>>
    BY <1>5 DEF Commit
  <2>2. r \in UnderWay /\ UnderWay' = UnderWay \ {r}
    BY <1>0, <2>1 DEF UnderWay, Dropped
  <2>3. /\ BusinessOf(r) \in Claimed /\ Claimed' = Claimed \ {BusinessOf(r)}
        /\ BusinessOf(r) \in Business
    BY <2>1, <2>2, LeaveStep
  <2>4. \A s : BusinessOf(s)' = BusinessOf(s)
    BY <2>1 DEF BusinessOf
  <2>5. /\ Len(leads) \in Nat /\ Len(leads') = Len(leads) + 1
        /\ \A i \in 1..Len(leads) : leads'[i] = leads[i]
        /\ leads'[Len(leads) + 1] = r
    BY <1>0, <2>1, AppendProperties, LenProperties DEF TypeOK
  <2>. DEFINE all == {BusinessOf(s) : s \in Discovery}
  <2>6. Exported \in Seq(all) /\ Len(Exported) = Len(leads)
    <3>1. \A i \in 1..Len(leads) : BusinessOf(leads[i]) \in all
      BY <1>0, ExportedFacts
    <3>. QED BY <2>5, <3>1 DEF Exported
  <2>7. Append(Exported, BusinessOf(r)) =
           [i \in 1..(Len(leads) + 1) |->
               IF i = Len(leads) + 1 THEN BusinessOf(r) ELSE BusinessOf(leads[i])]
    <3>1. \A i \in 1..Len(leads) : Exported[i] = BusinessOf(leads[i])
      BY DEF Exported
    <3>2. /\ Len(Append(Exported, BusinessOf(r))) = Len(leads) + 1
          /\ \A i \in 1..Len(leads) : Append(Exported, BusinessOf(r))[i] = Exported[i]
          /\ Append(Exported, BusinessOf(r))[Len(leads) + 1] = BusinessOf(r)
          /\ Append(Exported, BusinessOf(r)) \in Seq(all)
      BY <2>5, <2>6, AppendProperties
    <3>. DEFINE longer == Append(Exported, BusinessOf(r))
    <3>. HIDE DEF all, longer
    <3>3. longer = [i \in 1..Len(longer) |-> longer[i]]
      <4>1. longer \in Seq(all)
        BY <3>2 DEF longer
      <4>2. longer \in [1..Len(longer) -> all]
        BY <4>1, LenProperties
      <4>. QED BY <4>2
    <3>4. Len(longer) = Len(leads) + 1
      BY <3>2 DEF longer
    <3>5. \A i \in 1..(Len(leads) + 1) :
             longer[i] = IF i = Len(leads) + 1 THEN BusinessOf(r) ELSE BusinessOf(leads[i])
      BY <2>5, <3>1, <3>2 DEF longer
    <3>6. longer = [i \in 1..(Len(leads) + 1) |->
                      IF i = Len(leads) + 1 THEN BusinessOf(r) ELSE BusinessOf(leads[i])]
      BY <3>3, <3>4, <3>5
    <3>. QED BY <3>6 DEF longer
  <2>8. Exported' = [i \in 1..(Len(leads) + 1) |->
               IF i = Len(leads) + 1 THEN BusinessOf(r) ELSE BusinessOf(leads[i])]
    BY <2>4, <2>5 DEF Exported
  <2>9. Exported' = Append(Exported, BusinessOf(r))
    BY <2>7, <2>8
  <2>. QED BY <2>3, <2>9 DEF Ledger!Next, Ledger!Export, Exported, Claimed
<1>6. ASSUME NEW r \in Discovery, CommitRaises(r)
      PROVE  [Ledger!Next]_(Ledger!vars)
  <2>1. /\ status[r] = "queued" /\ status' = [status EXCEPT ![r] = "failed"]
        /\ UNCHANGED <<leads, listing, producer, committer>>
    BY <1>6 DEF CommitRaises
  <2>2. r \in UnderWay /\ UnderWay' = UnderWay \ {r}
    BY <1>0, <2>1 DEF UnderWay, Dropped
  <2>. QED BY <1>G, <2>1, <2>2
<1>7. ASSUME NEW r \in Discovery, Refuse(r)
      PROVE  [Ledger!Next]_(Ledger!vars)
  <2>1. /\ committer = Idle /\ status[r] = "queued"
        /\ status' = [status EXCEPT ![r] = "rollback"]
        /\ committer' = [record |-> r, step |-> 1]
        /\ UNCHANGED <<leads, listing, producer>>
    BY <1>7 DEF Refuse
  <2>2. producer.record # r
    BY <1>0, <2>1 DEF Control, Idle
  <2>3. \A s \in Discovery : s \in UnderWay' <=> s \in UnderWay
    <3>1. \A s \in Discovery : committer.record # s /\ (committer'.record = s => committer'.step = 1)
      BY <1>0, <2>1 DEF Idle
    <3>. QED BY <1>0, <2>1, <2>2, <3>1 DEF UnderWay, Dropped
  <2>4. UnderWay' = UnderWay
    BY <2>3 DEF UnderWay
  <2>. QED BY <1>0, <1>S, <2>1, <2>4, StutterStep
<1>8. CASE Restart
  <2>1. /\ status' = [r \in Discovery |->
                        IF status[r] \in {"adding", "queued", "rollback", "failed"}
                        THEN "lost" ELSE status[r]]
        /\ UNCHANGED <<listing, leads>>
    BY <1>8 DEF Restart
  <2>2. UnderWay' = {}
    BY <1>0, <2>1 DEF UnderWay
  <2>3. Claimed' = {} /\ Exported' = Exported
    BY <2>1, <2>2 DEF Claimed, Exported, BusinessOf
  <2>. QED BY <2>3 DEF Ledger!Next, Ledger!Restart, Exported, Claimed
<1>9. CASE UNCHANGED vars
  <2>1. UNCHANGED <<status, listing, producer, committer, leads>>
    BY <1>9 DEF vars
  <2>2. UnderWay' = UnderWay
    BY <2>1 DEF UnderWay, Dropped
  <2>. QED BY <1>0, <1>S, <2>1, <2>2, StutterStep
<1>. QED
  BY <1>1, <1>2, <1>3, <1>4, <1>5, <1>6, <1>7, <1>8, <1>9 DEF Next

(***************************************************************************)
(* The interleaved calls of IdentityResolver do what BusinessClaims says,   *)
(* as long as the leads fit in the preload: a record that goes on holds a   *)
(* business nobody else holds or has exported, and every rollback gives up  *)
(* one claim in one step, in the middle of its six calls (dedup.py:129-203).*)
(***************************************************************************)
THEOREM ImplementsClaims == Spec => ClaimsWithinPreload
<1>1. Init => IInv
  BY InitOK
<1>2. IInv /\ [Next]_vars => IInv'
  BY StepOK
<1>3. Init => Ledger!Init
  BY DEF Init, Ledger!Init, UnderWay
<1>4. IInv /\ [Next]_vars => [Len(leads) <= PreloadLimit => Ledger!Next]_(Ledger!vars)
  BY ClaimStep
<1>. QED BY <1>1, <1>2, <1>3, <1>4, PTL DEF Spec, ClaimsWithinPreload
=============================================================================

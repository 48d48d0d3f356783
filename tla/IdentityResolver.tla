--------------------------- MODULE IdentityResolver ---------------------------
(***************************************************************************)
(* Identity resolution and deduplication (dedup/dedup.py), with the two     *)
(* threads of the pipeline that share one resolver without a lock: the      *)
(* producer looks records up, adds them and rolls pre-filter rejects back,  *)
(* while the committer rolls back what the post-filters and the quality     *)
(* gate refuse.  Under the interpreter lock each set or dict call is one    *)
(* step and the calls of the two threads interleave.  A restart seeds a new *)
(* resolver from the committed records (checkpoint/store.py).               *)
(*                                                                          *)
(* A lookup is one step although it reads several structures: only removals *)
(* run beside it, so its answer is the one an uninterrupted lookup gives at *)
(* the moment of the read that decides it.                                  *)
(***************************************************************************)
EXTENDS Naturals, Sequences, Functions

CONSTANTS Discovery,  \* records made from collected listings, one per discovery
          Listing,    \* the businesses the listings are about
          Signals,    \* what resolve_identity reads off each listing
          None,       \* a signal the listing lacks
          PreloadLimit, \* _PRELOAD_LIMIT: how many leads a restart loads
          Absent      \* no entry in a dict, no record, no listing

ASSUME SignalsAssumption ==
    /\ Absent \notin Listing \cup Discovery
    /\ \A l \in Listing :
          /\ DOMAIN Signals[l] = {"kgmid", "place_id", "domain", "phone", "name", "city"}
          /\ \A s \in DOMAIN Signals[l] : Signals[l][s] # Absent

ASSUME PreloadAssumption == PreloadLimit \in Nat \ {0}

VARIABLES
    seen,      \* the six structures of the resolver
    status,    \* what has become of each record
    listing,   \* the listing each record was made from
    producer,  \* record and next step of the producer's add or rollback
    committer, \* record and next step of the committer's rollback
    leads      \* committed records in commit order (the records table)

vars == <<seen, status, listing, producer, committer, leads>>

-----------------------------------------------------------------------------
(* resolve_identity *)

Weak(l) == Signals[l].kgmid = None /\ Signals[l].place_id = None

\* The ladder: the strongest signal present names the business.  A missing city
\* counts as a city of its own ("n/a" is not empty).
IdentityKey(l) ==
    LET s == Signals[l] IN
    IF s.kgmid # None    THEN <<"kgmid", s.kgmid>> ELSE
    IF s.place_id # None THEN <<"place_id", s.place_id>> ELSE
    IF s.domain # None   THEN <<"domain+city", s.domain, s.city>> ELSE
    IF s.phone # None    THEN <<"phone", s.phone>> ELSE
    IF s.name # None     THEN <<"name+city", s.name, s.city>> ELSE None

Keys    == {IdentityKey(l) : l \in Listing} \ {None}
Domains == {Signals[l].domain : l \in Listing} \ {None}
Phones  == {Signals[l].phone : l \in Listing} \ {None}
Names   == {Signals[l].name : l \in Listing}
Cities  == {Signals[l].city : l \in Listing} \ {None}

\* The entries a listing accounts for in each structure.
KeyOf(l)        == {IdentityKey(l)} \ {None}
DomainOf(l)     == {Signals[l].domain} \ {None}
PhoneOf(l)      == {Signals[l].phone} \ {None}
DomainCityOf(l) == {<<d, c>> : d \in DomainOf(l), c \in {Signals[l].city} \ {None}}

Nothing == [identities      |-> {},
            domains         |-> {},
            domainFirstName |-> [d \in Domains |-> Absent],
            domainCity      |-> {},
            phoneFirstName  |-> [p \in Phones |-> Absent],
            phones          |-> {}]

-----------------------------------------------------------------------------
(* is_duplicate and rollback, as calls on the six structures *)

\* Mutant: a shared phone is enough, whoever has it.
IsDuplicateAnyPhone(s, l) ==
    KeyOf(l) \cap s.identities # {} \/ PhoneOf(l) \cap s.phones # {}

IsDuplicate(s, l) ==
    LET named == Signals[l].name # None IN
    \/ KeyOf(l) \cap s.identities # {}
    \/ \E d \in DomainOf(l) \cap s.domains :
          named /\ s.domainFirstName[d] = Signals[l].name
    \/ \E p \in PhoneOf(l) \cap s.phones :
          named /\ s.phoneFirstName[p] = Signals[l].name
    \/ Weak(l) /\ DomainCityOf(l) \cap s.domainCity # {}
    \/ Weak(l) /\ PhoneOf(l) \cap s.phones # {}

SetDefault(f, keys, v) == [k \in DOMAIN f |-> IF k \in keys /\ f[k] = Absent THEN v ELSE f[k]]
\* Mutant: the rollback forgets the first names.
PopNever(f, keys, v) == f

PopIfEqual(f, keys, v) == [k \in DOMAIN f |-> IF k \in keys /\ f[k] = v THEN Absent ELSE f[k]]

AddOrder      == <<"identities", "domains", "domainFirstName", "domainCity",
                   "phoneFirstName", "phones">>
RollbackOrder == <<"identities", "domains", "domainFirstName", "domainCity",
                   "phones", "phoneFirstName">>

\* add: the resolver once every call is through, and after one of the calls.
AfterAdd(s, l) ==
    [identities      |-> s.identities \cup KeyOf(l),
     domains         |-> s.domains \cup DomainOf(l),
     domainFirstName |-> SetDefault(s.domainFirstName, DomainOf(l), Signals[l].name),
     domainCity      |-> s.domainCity \cup (IF Weak(l) THEN DomainCityOf(l) ELSE {}),
     phoneFirstName  |-> SetDefault(s.phoneFirstName, PhoneOf(l), Signals[l].name),
     phones          |-> s.phones \cup (IF Weak(l) THEN PhoneOf(l) ELSE {})]

Added(s, field, l) == [s EXCEPT ![field] = AfterAdd(s, l)[field]]

\* A rollback removes a strong listing's domain+city and phone as well, entries
\* it cannot have made.
AfterRollback(s, l) ==
    [identities      |-> s.identities \ KeyOf(l),
     domains         |-> s.domains \ DomainOf(l),
     domainFirstName |-> PopIfEqual(s.domainFirstName, DomainOf(l), Signals[l].name),
     domainCity      |-> s.domainCity \ DomainCityOf(l),
     phones          |-> s.phones \ PhoneOf(l),
     phoneFirstName  |-> PopIfEqual(s.phoneFirstName, PhoneOf(l), Signals[l].name)]

Removed(s, field, l) == [s EXCEPT ![field] = AfterRollback(s, l)[field]]

\* CheckpointStore._load_existing: only the newest rows are loaded.
Preloaded(order) ==
    IF Len(order) <= PreloadLimit THEN order
    ELSE SubSeq(order, Len(order) - PreloadLimit + 1, Len(order))

\* CheckpointStore._load_existing: newest commit first, and setdefault, so the
\* newest name of a domain or phone (of the listings "those") is the one kept.
NewestName(order, those) ==
    LET named  == {i \in DOMAIN order : order[i] \in those /\ Signals[order[i]].name # None}
        newest == {i \in named : \A j \in named : j <= i}
    IN  IF newest = {} THEN Absent
        ELSE Signals[order[CHOOSE i \in newest : TRUE]].name

\* Mutant: a restart starts with an empty resolver.
SeededEmpty(order) == Nothing

Seeded(order) ==
    LET weak == {l \in Range(order) : Weak(l)} IN
    [identities      |-> UNION {KeyOf(l) : l \in Range(order)},
     domains         |-> UNION {DomainOf(l) : l \in Range(order)},
     domainFirstName |-> [d \in Domains |-> NewestName(order, {l \in Listing : d \in DomainOf(l)})],
     domainCity      |-> UNION {DomainCityOf(l) : l \in weak},
     phoneFirstName  |-> [p \in Phones |-> NewestName(order, {l \in Listing : p \in PhoneOf(l)})],
     phones          |-> UNION {PhoneOf(l) : l \in weak}]

-----------------------------------------------------------------------------
Statuses == {"new", "adding", "queued", "rollback", "committed", "failed",
             "duplicate", "rejected", "lost"}

Idle    == [record |-> Absent, step |-> 0]
Working == [record : Discovery, step : 1..7]

TypeOK ==
    /\ seen \in [identities : SUBSET Keys, domains : SUBSET Domains,
                 domainFirstName : [Domains -> Names \cup {Absent}],
                 domainCity : SUBSET (Domains \X Cities),
                 phoneFirstName : [Phones -> Names \cup {Absent}],
                 phones : SUBSET Phones]
    /\ status \in [Discovery -> Statuses]
    /\ listing \in [Discovery -> Listing \cup {Absent}]
    /\ producer \in Working \cup {Idle}
    /\ committer \in Working \cup {Idle}
    /\ leads \in Seq(Discovery)

Init ==
    /\ seen = Nothing
    /\ status = [r \in Discovery |-> "new"]
    /\ listing = [r \in Discovery |-> Absent]
    /\ producer = Idle /\ committer = Idle
    /\ leads = <<>>

-----------------------------------------------------------------------------
(* The producer: Pipeline._dedup_and_prefilter *)

Lookup(r, l) ==
    /\ producer = Idle /\ status[r] = "new"
    /\ listing' = [listing EXCEPT ![r] = l]
    /\ IF IsDuplicate(seen, l)
       THEN /\ status' = [status EXCEPT ![r] = "duplicate"]
            /\ UNCHANGED producer
       ELSE /\ status' = [status EXCEPT ![r] = "adding"]
            /\ producer' = [record |-> r, step |-> 1]
    /\ UNCHANGED <<seen, committer, leads>>

AddStep ==
    LET r == producer.record IN
    /\ producer # Idle /\ status[r] = "adding" /\ producer.step <= 6
    /\ seen' = Added(seen, AddOrder[producer.step], listing[r])
    /\ producer' = [producer EXCEPT !.step = @ + 1]
    /\ UNCHANGED <<status, listing, committer, leads>>

\* require_website and the pre-filters pass: the record goes to the work queue.
Keep ==
    LET r == producer.record IN
    /\ producer # Idle /\ status[r] = "adding" /\ producer.step = 7
    /\ status' = [status EXCEPT ![r] = "queued"]
    /\ producer' = Idle
    /\ UNCHANGED <<seen, listing, committer, leads>>

PreFilterReject ==
    LET r == producer.record IN
    /\ producer # Idle /\ status[r] = "adding" /\ producer.step = 7
    /\ status' = [status EXCEPT ![r] = "rollback"]
    /\ producer' = [producer EXCEPT !.step = 1]
    /\ UNCHANGED <<seen, listing, committer, leads>>

ProducerRollback ==
    LET r == producer.record IN
    /\ producer # Idle /\ status[r] = "rollback"
    /\ seen' = Removed(seen, RollbackOrder[producer.step], listing[r])
    /\ IF producer.step = 6
       THEN /\ producer' = Idle
            /\ status' = [status EXCEPT ![r] = "rejected"]
       ELSE /\ producer' = [producer EXCEPT !.step = @ + 1]
            /\ UNCHANGED status
    /\ UNCHANGED <<listing, committer, leads>>

-----------------------------------------------------------------------------
(* The committer: Pipeline._commit_stage, on records in any order *)

Commit(r) ==
    /\ committer = Idle /\ status[r] = "queued"
    /\ status' = [status EXCEPT ![r] = "committed"]
    /\ leads' = Append(leads, r)
    /\ UNCHANGED <<seen, listing, producer, committer>>

\* The export or the checkpoint raises: the entries of the record stay.
CommitRaises(r) ==
    /\ committer = Idle /\ status[r] = "queued"
    /\ status' = [status EXCEPT ![r] = "failed"]
    /\ UNCHANGED <<seen, listing, producer, committer, leads>>

\* Mutant: the rollback counts its steps from 0.
RefuseFromZero(r) ==
    /\ committer = Idle /\ status[r] = "queued"
    /\ status' = [status EXCEPT ![r] = "rollback"]
    /\ committer' = [record |-> r, step |-> 0]
    /\ UNCHANGED <<seen, listing, producer, leads>>

\* A post-filter or the quality gate refuses the record.
Refuse(r) ==
    /\ committer = Idle /\ status[r] = "queued"
    /\ status' = [status EXCEPT ![r] = "rollback"]
    /\ committer' = [record |-> r, step |-> 1]
    /\ UNCHANGED <<seen, listing, producer, leads>>

CommitterRollback ==
    LET r == committer.record IN
    /\ committer # Idle
    /\ seen' = Removed(seen, RollbackOrder[committer.step], listing[r])
    /\ IF committer.step = 6
       THEN /\ committer' = Idle
            /\ status' = [status EXCEPT ![r] = "rejected"]
       ELSE /\ committer' = [committer EXCEPT !.step = @ + 1]
            /\ UNCHANGED status
    /\ UNCHANGED <<listing, producer, leads>>

-----------------------------------------------------------------------------
\* The process ends, or dies, and a new one seeds its resolver.  The lookups of
\* older leads in the store (identity_exists) are called by no one.
Restart ==
    /\ LET recent == Preloaded(leads)
       IN  seen' = Seeded([i \in DOMAIN recent |-> listing[recent[i]]])
    /\ status' = [r \in Discovery |->
                    IF status[r] \in {"adding", "queued", "rollback", "failed"}
                    THEN "lost" ELSE status[r]]
    /\ producer' = Idle /\ committer' = Idle
    /\ UNCHANGED <<listing, leads>>

Next ==
    \/ \E r \in Discovery, l \in Listing : Lookup(r, l)
    \/ AddStep \/ Keep \/ PreFilterReject \/ ProducerRollback
    \/ \E r \in Discovery : Commit(r) \/ CommitRaises(r) \/ Refuse(r)
    \/ CommitterRollback
    \/ Restart

Spec == Init /\ [][Next]_vars

-----------------------------------------------------------------------------
(* Properties *)

\* Records whose entries the resolver holds, wholly or in part.
Holding == {r \in Discovery :
              status[r] \in {"adding", "queued", "rollback", "committed", "failed"}}

(***************************************************************************)
(* No two leads are the same business: two committed records never have the *)
(* same identity key.  A restart breaks it once the leads outnumber the     *)
(* preload: nothing calls the look-ups meant to cover the older ones.       *)
(***************************************************************************)
OneLeadPerIdentity ==
    \A a, b \in Discovery :
        /\ status[a] = "committed" /\ status[b] = "committed"
        /\ IdentityKey(listing[a]) = IdentityKey(listing[b])
        /\ IdentityKey(listing[a]) # None
        => a = b

(***************************************************************************)
(* As long as the leads fit in the preload, no two of them are the same     *)
(* business, however lookups, adds and rollbacks of the two threads         *)
(* interleave and across restarts.                                          *)
(***************************************************************************)
OneLeadWithinPreload == Len(leads) <= PreloadLimit => OneLeadPerIdentity

(***************************************************************************)
(* A rejected record leaves nothing behind: each entry of each structure    *)
(* belongs to a record that is in the pipeline, committed or failed to      *)
(* commit ("so a legit later re-discovery is not wrongly dropped").         *)
(***************************************************************************)
NoStaleEntry ==
    /\ \A k \in seen.identities : \E r \in Holding : k \in KeyOf(listing[r])
    /\ \A d \in seen.domains : \E r \in Holding : d \in DomainOf(listing[r])
    /\ \A d \in Domains : seen.domainFirstName[d] # Absent =>
          \E r \in Holding : /\ d \in DomainOf(listing[r])
                             /\ Signals[listing[r]].name = seen.domainFirstName[d]
    /\ \A e \in seen.domainCity :
          \E r \in Holding : Weak(listing[r]) /\ e \in DomainCityOf(listing[r])
    /\ \A p \in seen.phones :
          \E r \in Holding : Weak(listing[r]) /\ p \in PhoneOf(listing[r])
    /\ \A p \in Phones : seen.phoneFirstName[p] # Absent =>
          \E r \in Holding : /\ p \in PhoneOf(listing[r])
                             /\ Signals[listing[r]].name = seen.phoneFirstName[p]

\* Two listings the resolver may take for one business.
MayBeSame(l, m) ==
    \/ KeyOf(l) \cap KeyOf(m) # {}
    \/ /\ Signals[l].name = Signals[m].name /\ Signals[l].name # None
       /\ DomainOf(l) \cap DomainOf(m) # {} \/ PhoneOf(l) \cap PhoneOf(m) # {}
    \/ /\ Weak(l) /\ Weak(m)
       /\ DomainCityOf(l) \cap DomainCityOf(m) # {} \/ PhoneOf(l) \cap PhoneOf(m) # {}

(***************************************************************************)
(* A listing is dropped as a duplicate only for a record it may really be:  *)
(* locations of a chain with ids and names of their own are never merged by *)
(* a shared domain or phone ("the weak signals must never merge them").     *)
(***************************************************************************)
DroppedOnlyForTwin ==
    [][\A r \in Discovery :
          status[r] = "new" /\ status'[r] = "duplicate" =>
             \E t \in Holding : MayBeSame(listing'[r], listing[t])]_vars

(***************************************************************************)
(* What the resolver is for: BusinessClaims is implemented by it.  A record *)
(* claims its business when it is looked up and holds it until it commits,  *)
(* fails, or its rollback has taken the key out, and a record without a key *)
(* is a business of its own.                                                *)
(***************************************************************************)

\* The rollback of r has taken its identity key out of the resolver.
Dropped(r) ==
    /\ status[r] = "rollback"
    /\ \/ producer.record = r /\ producer.step > 1
       \/ committer.record = r /\ committer.step > 1

UnderWay == {r \in Discovery :
               status[r] \in {"adding", "queued"} \/ (status[r] = "rollback" /\ ~Dropped(r))}

BusinessOf(r) ==
    LET key == IdentityKey(listing[r])
    IN  IF key = None THEN <<None, r>> ELSE <<key, Absent>>

Ledger == INSTANCE BusinessClaims WITH
    Business <- (Keys \X {Absent}) \cup ({None} \X Discovery),
    leads <- [i \in 1..Len(leads) |-> BusinessOf(leads[i])],
    claimed <- {BusinessOf(r) : r \in UnderWay}

\* As long as the leads fit in the preload, each step of the two threads and
\* each restart is one of BusinessClaims.
ClaimsWithinPreload ==
    Ledger!Init /\ [][Len(leads) <= PreloadLimit => Ledger!Next]_(Ledger!vars)
=============================================================================

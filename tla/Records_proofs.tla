--------------------------- MODULE Records_proofs ---------------------------
(***************************************************************************)
(* Proofs about the two ways to new records.                               *)
(*                                                                         *)
(* Of Records, for any number of processes and keys: keys are only put     *)
(* where their record was made, and fetches that do not overlap and are    *)
(* not disturbed give every process keys of its own.                       *)
(*                                                                         *)
(* Of CsvImport, for any files and tables, any sizes of the two buffers    *)
(* and any number of starts: a parser that was started once finds the      *)
(* rows of the file, and the import makes a record of each; and a table    *)
(* that was exported comes back.                                           *)
(***************************************************************************)
EXTENDS Records, CsvImport, SequenceTheorems, FiniteSetTheorems,
        WellFoundedInduction, TLAPS

(* A record was inserted before it is linked to.                           *)
LinkingMadeIt ==
  \A c \in Clients :
    client[c].at = "linking" => <<c, client[c].key>> \in made

(* A key that a process has to itself: to insert a record with, or shown   *)
(* as the one it has just added.                                           *)
Has(c, k) == Holds(c, k) \/ Shows(c, k)

(* There is one next value, which the only process that fetches has read.  *)
OneFetches ==
  /\ \A r, s \in rows : r = s
  /\ \A c, d \in Clients : Fetching(c) /\ Fetching(d) => c = d
  /\ \A c \in Clients :
       /\ client[c].at = "first" => rows = {} /\ client[c].key = 0
       /\ client[c].at = "fetched" => rows = {client[c].key}

(* It is greater than every key that is in use or will be.                 *)
NextIsGreater ==
  \A k \in Keys :
    k \in records \/ (\E c \in Clients : Has(c, k)) =>
      rows # {} /\ \A r \in rows : k < r

KeysAreOwn ==
  /\ \A c \in Clients, k \in Keys : Holds(c, k) => k \notin records
  /\ \A c, d \in Clients, k \in Keys : Has(c, k) /\ Has(d, k) => c = d
  /\ DetailsShowTheNewRecord

Calm == calm => OneFetches /\ NextIsGreater /\ KeysAreOwn

Inv == TypeOK /\ LinkingMadeIt /\ UsedKeysWereMade /\ Calm

----------------------------------------------------------------------------
LEMMA KeysAreNumbers ==
  /\ Keys \subseteq Nat /\ 0 \in Keys /\ None \notin Keys
  /\ \A k \in Keys : k + 1 \in 0..(MaxKey + 1) /\ k \in 0..(MaxKey + 1)
BY RecordsAssumption DEF Keys

LEMMA States ==
  /\ Idle \in Client /\ Idle.at = "idle" /\ Idle.key = None
  /\ \A k \in Keys : /\ Showing(k) \in Client
                     /\ Showing(k).at = "idle" /\ Showing(k).key = k
BY DEF Idle, Showing, Client, Steps, Kinds

(* What Become() does to the other processes: nothing.                     *)
LEMMA Becoming ==
  ASSUME client \in [Clients -> Client], NEW c \in Clients,
         NEW s \in Client, Become(c, s)
  PROVE  /\ client' \in [Clients -> Client]
         /\ client'[c] = s
         /\ \A d \in Clients : d # c => client'[d] = client[d]
BY DEF Become

LEMMA Going ==
  ASSUME client \in [Clients -> Client], NEW c \in Clients,
         NEW step \in Steps, Goto(c, step)
  PROVE  /\ client' \in [Clients -> Client]
         /\ client'[c].at = step
         /\ client'[c].kind = client[c].kind
         /\ client'[c].key = client[c].key
         /\ \A d \in Clients : d # c => client'[d] = client[d]
<1>1. client[c] \in Client
  OBVIOUS
<1>2. [client[c] EXCEPT !.at = step] \in Client
  BY <1>1 DEF Client
<1> QED BY <1>1, <1>2 DEF Goto, Client

LEMMA InitInv == Init => Inv
<1> SUFFICES ASSUME Init PROVE Inv
  OBVIOUS
<1> USE KeysAreNumbers
<1>1. client \in [Clients -> Client] /\ \A c \in Clients : client[c] = Idle
  BY States DEF Init
<1>2. \A c \in Clients : client[c].at = "idle" /\ client[c].key = None
  BY <1>1, States
<1>3. PICK n \in Keys : /\ records = {k \in Keys : k < n}
                        /\ \/ n # 0 /\ rows = {n}
                           \/ n = 0 /\ rows \in {{}, {1}}
  BY DEF Init
<1>4. TypeOK
  <2>1. n \in 0..(MaxKey + 1) /\ 1 \in 0..(MaxKey + 1)
    BY RecordsAssumption DEF Keys
  <2>2. rows \subseteq 0..(MaxKey + 1) /\ records \subseteq Keys
    BY <1>3, <2>1
  <2> QED BY <1>1, <1>2, <2>2 DEF Init, TypeOK
<1>5. LinkingMadeIt /\ UsedKeysWereMade
  BY <1>2 DEF Init, LinkingMadeIt, UsedKeysWereMade
<1>6. OneFetches
  BY <1>2, <1>3 DEF OneFetches, Fetching
<1>7. \A c \in Clients, k \in Keys : ~Has(c, k)
  BY <1>2 DEF Has, Holds, Shows
<1>8. NextIsGreater
  BY <1>3, <1>7 DEF NextIsGreater
<1>9. KeysAreOwn
  BY <1>4, <1>7 DEF KeysAreOwn, DetailsShowTheNewRecord, Has, TypeOK
<1> QED BY <1>4, <1>5, <1>6, <1>8, <1>9 DEF Inv, Calm

(* What the actions need of the invariant, and of the next state: each has *)
(* a lemma that shows the parts it can disturb.  First the steps of a      *)
(* fetch.                                                                  *)
LEMMA FetchInv ==
  ASSUME Inv, NEW c \in Clients,
         \/ \E kind \in Kinds : BeginFetch(c, kind)
         \/ InsertFirst(c) \/ Increment(c)
  PROVE  Inv'
<1> USE KeysAreNumbers, States
<1>0. TypeOK /\ LinkingMadeIt /\ UsedKeysWereMade /\ Calm
  BY DEF Inv
<1>1. ASSUME NEW kind \in Kinds, BeginFetch(c, kind)
      PROVE  Inv'
  <2>1. PICK v \in Keys, at \in {"first", "fetched"} :
          /\ Become(c, [at |-> at, kind |-> kind, key |-> v])
          /\ calm' => /\ v \in Found
                      /\ at = IF rows = {} THEN "first" ELSE "fetched"
                      /\ calm /\ \A d \in Clients : ~Fetching(d)
    <3>1. 0 \in Keys
      BY RecordsAssumption DEF Keys
    <3> QED
      BY <1>1, <3>1 DEF BeginFetch
  <2> DEFINE s == [at |-> at, kind |-> kind, key |-> v]
  <2>2. s \in Client /\ s.key = v /\ v \in Keys /\ s.at = at
    BY DEF Client, Steps
  <2>3. /\ client' \in [Clients -> Client] /\ client'[c] = s
        /\ \A d \in Clients : d # c => client'[d] = client[d]
    BY <1>0, <2>1, <2>2, Becoming DEF TypeOK
  <2> HIDE DEF s
  <2>4. /\ UNCHANGED <<rows, records, used, made>>
        /\ calm' \in BOOLEAN /\ client[c].at = "idle"
    BY <1>0, <1>1 DEF BeginFetch, TypeOK
  <2>5. TypeOK'
    BY <1>0, <2>2, <2>3, <2>4 DEF TypeOK
  <2>6. (LinkingMadeIt /\ UsedKeysWereMade)'
    BY <1>0, <2>2, <2>3, <2>4 DEF LinkingMadeIt, UsedKeysWereMade
  <2>7. ASSUME calm'
        PROVE  (OneFetches /\ NextIsGreater /\ KeysAreOwn)'
    <3>1. OneFetches /\ NextIsGreater /\ KeysAreOwn
      BY <1>0, <2>1, <2>7 DEF Calm
    <3>2. \A d \in Clients : ~Fetching(d)
      BY <2>1, <2>7
    <3>3. IF rows = {} THEN v = 0 ELSE rows = {v}
      BY <2>1, <2>7, <3>1 DEF Found, OneFetches
    <3>4. OneFetches'
      BY <2>1, <2>2, <2>3, <2>4, <2>7, <3>1, <3>2, <3>3 DEF OneFetches, Fetching
    <3>5. \A d \in Clients, k \in Keys :
            /\ Has(d, k)' => Has(d, k)
            /\ Holds(d, k)' => Holds(d, k)
            /\ Shows(d, k)' => Shows(d, k)
      BY <2>2, <2>3 DEF Has, Holds, Shows
    <3>6. NextIsGreater'
      BY <2>4, <3>1, <3>5 DEF NextIsGreater
    <3>7. KeysAreOwn'
      BY <1>0, <2>4, <3>1, <3>5
      DEF KeysAreOwn, DetailsShowTheNewRecord, TypeOK
    <3> QED BY <3>4, <3>6, <3>7
  <2> QED BY <2>5, <2>6, <2>7 DEF Inv, Calm
<1>2. ASSUME InsertFirst(c)
      PROVE  Inv'
  <2>1. /\ client[c].at = "first" /\ client[c].key # None
        /\ client' \in [Clients -> Client]
        /\ \A d \in Clients : d # c => client'[d] = client[d]
        /\ \/ client'[c] = Idle
           \/ /\ client'[c].at = "fetched"
              /\ client'[c].key = client[c].key
    <3>1. client \in [Clients -> Client] /\ client[c].at = "first"
          /\ client[c].key # None
      BY <1>0, <1>2 DEF InsertFirst, TypeOK
    <3>2. CASE Become(c, Idle)
      BY <3>1, <3>2, Becoming
    <3>3. CASE Goto(c, "fetched")
      BY <3>1, <3>3, Going DEF Steps
    <3> QED BY <3>1, <3>2, <3>3, <1>2 DEF InsertFirst
  <2>2. /\ UNCHANGED <<records, used, made>>
        /\ \/ rows' = rows \cup {0} /\ UNCHANGED calm
           \/ UNCHANGED rows /\ calm' = FALSE
    BY <1>2 DEF InsertFirst
  <2>3. TypeOK'
    <3>1. \A d \in Clients :
            client'[d].at # "idle" => client'[d].key # None
      BY <1>0, <2>1 DEF TypeOK, Idle
    <3>2. 0 \in 0..(MaxKey + 1) /\ rows \subseteq 0..(MaxKey + 1)
      BY <1>0 DEF TypeOK
    <3>3. rows' \subseteq 0..(MaxKey + 1) /\ calm' \in BOOLEAN
      BY <1>0, <2>2, <3>2 DEF TypeOK
    <3> QED
      BY <1>0, <2>1, <2>2, <3>1, <3>3 DEF TypeOK
  <2>4. (LinkingMadeIt /\ UsedKeysWereMade)'
    BY <1>0, <2>1, <2>2 DEF LinkingMadeIt, UsedKeysWereMade
  <2>5. ASSUME calm'
        PROVE  (OneFetches /\ NextIsGreater /\ KeysAreOwn)'
    <3>1. calm /\ OneFetches /\ NextIsGreater /\ KeysAreOwn
      BY <1>0, <2>2, <2>5 DEF Calm
    <3>2. rows = {} /\ client[c].key = 0 /\ rows' = {0}
      BY <2>1, <2>2, <2>5, <3>1 DEF OneFetches
    <3>3. \A d \in Clients : d # c => ~Fetching(d)
      BY <2>1, <3>1 DEF OneFetches, Fetching
    <3>4. OneFetches'
      BY <2>1, <3>1, <3>2, <3>3 DEF OneFetches, Fetching
    <3>5. \A d \in Clients, k \in Keys :
            /\ Has(d, k)' => Has(d, k)
            /\ Holds(d, k)' => Holds(d, k)
            /\ Shows(d, k)' => Shows(d, k)
      BY <2>1 DEF Has, Holds, Shows
    <3>6. NextIsGreater'
      BY <2>2, <3>1, <3>2, <3>5 DEF NextIsGreater
    <3>7. KeysAreOwn'
      BY <1>0, <2>2, <3>1, <3>5
      DEF KeysAreOwn, DetailsShowTheNewRecord, TypeOK
    <3> QED BY <3>4, <3>6, <3>7
  <2> QED BY <2>3, <2>4, <2>5 DEF Inv, Calm
<1>3. ASSUME Increment(c)
      PROVE  Inv'
  <2>0. PICK n \in Keys : n = client[c].key
    <3>1. client[c] \in Client /\ client[c].at # "idle"
      BY <1>0, <1>3 DEF TypeOK, Increment
    <3>2. client[c].key \in Keys
      BY <1>0, <3>1 DEF TypeOK, Client
    <3> QED BY <3>2
  <2>1. /\ client[c].at = "fetched"
        /\ client' \in [Clients -> Client]
        /\ \A d \in Clients : d # c => client'[d] = client[d]
        /\ client'[c].at = "key" /\ client'[c].key = n
    <3>1. client \in [Clients -> Client] /\ client[c].at = "fetched"
          /\ client[c].key # None /\ Goto(c, "key")
      BY <1>0, <1>3 DEF Increment, TypeOK
    <3> QED BY <2>0, <3>1, Going DEF Steps
  <2>2. /\ UNCHANGED <<records, used, made>>
        /\ \/ rows' = {n + 1 : r \in rows} /\ UNCHANGED calm
           \/ UNCHANGED rows /\ calm' = FALSE
    BY <1>3, <2>0 DEF Increment
  <2>3. TypeOK'
    <3>1. n + 1 \in 0..(MaxKey + 1) /\ n # None
      BY <2>0
    <3>2. {n + 1 : r \in rows} \subseteq 0..(MaxKey + 1)
      BY <3>1
    <3>3. rows' \subseteq 0..(MaxKey + 1)
      BY <1>0, <2>2, <3>2 DEF TypeOK
    <3>4. \A d \in Clients : client'[d].at # "idle" => client'[d].key # None
      BY <1>0, <2>1, <3>1 DEF TypeOK
    <3>5. calm' \in BOOLEAN
      BY <1>0, <2>2 DEF TypeOK
    <3> QED BY <1>0, <2>1, <2>2, <3>3, <3>4, <3>5 DEF TypeOK
  <2>4. (LinkingMadeIt /\ UsedKeysWereMade)'
    BY <1>0, <2>1, <2>2 DEF LinkingMadeIt, UsedKeysWereMade
  <2>5. ASSUME calm'
        PROVE  (OneFetches /\ NextIsGreater /\ KeysAreOwn)'
    <3>1. calm /\ OneFetches /\ NextIsGreater /\ KeysAreOwn
      BY <1>0, <2>2, <2>5 DEF Calm
    <3>2. rows = {n} /\ rows' = {n + 1}
      <4>1. rows = {n}
        BY <2>0, <2>1, <3>1 DEF OneFetches
      <4> QED BY <2>2, <2>5, <4>1
    <3>3. \A d \in Clients : d # c => ~Fetching(d)
      BY <2>1, <3>1 DEF OneFetches, Fetching
    <3>4. OneFetches'
      BY <2>1, <3>2, <3>3 DEF OneFetches, Fetching
    <3>5. \A d \in Clients, k \in Keys :
            /\ Has(d, k)' => Has(d, k) \/ (d = c /\ k = n)
            /\ Holds(d, k)' => Holds(d, k) \/ k = n
            /\ Shows(d, k)' => Shows(d, k)
      BY <2>1 DEF Has, Holds, Shows
    <3>6. /\ n \notin records
          /\ \A d \in Clients : ~Has(d, n)
      <4>1. ~(n < n)
        BY <2>0
      <4> QED BY <3>1, <3>2, <4>1 DEF NextIsGreater
    <3>7. NextIsGreater'
      <4>1. \A k \in Keys : k < n \/ k = n => k < n + 1
        OBVIOUS
      <4>2. ASSUME NEW k \in Keys,
                   k \in records' \/ (\E d \in Clients : Has(d, k)')
            PROVE  k < n \/ k = n
        <5>1. CASE k \in records
          BY <5>1, <3>1, <3>2 DEF NextIsGreater
        <5>2. CASE \E d \in Clients : Has(d, k)'
          BY <5>2, <3>1, <3>2, <3>5 DEF NextIsGreater
        <5> QED BY <4>2, <5>1, <5>2, <2>2
      <4> QED BY <3>2, <4>1, <4>2 DEF NextIsGreater
    <3>8. KeysAreOwn'
      <4>1. \A d \in Clients, k \in Keys : Holds(d, k)' => k \notin records'
        BY <2>2, <3>1, <3>5, <3>6 DEF KeysAreOwn, Has
      <4>2. \A d, e \in Clients, k \in Keys :
              Has(d, k)' /\ Has(e, k)' => d = e
        BY <3>1, <3>5, <3>6 DEF KeysAreOwn
      <4>3. DetailsShowTheNewRecord'
        BY <1>0, <2>2, <3>1, <3>5
        DEF KeysAreOwn, DetailsShowTheNewRecord, TypeOK
      <4> QED BY <4>1, <4>2, <4>3 DEF KeysAreOwn
    <3> QED BY <3>4, <3>7, <3>8
  <2> QED BY <2>3, <2>4, <2>5 DEF Inv, Calm
<1> QED BY <1>1, <1>2, <1>3

(* A process that does not fetch keeps the calm if it gets no key that it  *)
(* did not have, and no record is added.                                   *)
LEMMA KeepsCalm ==
  ASSUME Inv, NEW c \in Clients, UNCHANGED <<rows, made, calm>>,
         records' \subseteq records,
         client' \in [Clients -> Client],
         \A d \in Clients : d # c => client'[d] = client[d],
         ~Fetching(c)',
         \A k \in Keys : /\ Holds(c, k)' => Holds(c, k)
                         /\ Shows(c, k)' => Has(c, k)
  PROVE  Calm'
<1>1. TypeOK /\ Calm
  BY DEF Inv
<1>2. SUFFICES ASSUME calm'
               PROVE  (OneFetches /\ NextIsGreater /\ KeysAreOwn)'
  BY DEF Calm
<1>3. OneFetches /\ NextIsGreater /\ KeysAreOwn
  BY <1>1, <1>2 DEF Calm
<1>4. \A d \in Clients : d # c => Fetching(d)' = Fetching(d)
  BY DEF Fetching
<1>5. OneFetches'
  BY <1>3, <1>4 DEF OneFetches, Fetching
<1>6. \A d \in Clients, k \in Keys :
        /\ Holds(d, k)' => Holds(d, k)
        /\ Shows(d, k)' => Shows(d, k) \/ Holds(d, k)
        /\ Has(d, k)' => Has(d, k)
  <2>1. TAKE d \in Clients, k \in Keys
  <2>2. CASE d = c
    BY <2>2 DEF Has
  <2>3. CASE d # c
    <3>1. client'[d] = client[d]
      BY <2>3
    <3> QED BY <3>1 DEF Has, Holds, Shows
  <2> QED BY <2>2, <2>3
<1>7. NextIsGreater'
  BY <1>3, <1>6 DEF NextIsGreater
<1>8. /\ \A d \in Clients, k \in Keys : Holds(d, k)' => k \notin records'
      /\ \A d, e \in Clients, k \in Keys :
           Has(d, k)' /\ Has(e, k)' => d = e
  BY <1>3, <1>6 DEF KeysAreOwn
<1>9. DetailsShowTheNewRecord'
  BY <1>1, <1>3, <1>6 DEF KeysAreOwn, DetailsShowTheNewRecord, TypeOK
<1> QED BY <1>5, <1>7, <1>8, <1>9 DEF KeysAreOwn

(* The developer's changes of the next value, and keys that are entered,   *)
(* end the calm.                                                           *)
LEMMA DisturbInv ==
  ASSUME Inv,
         \/ \E v \in Keys : SetNextValue(v)
         \/ RemoveNextValue
         \/ \E c \in Clients, k \in Keys : EnterKey(c, k)
  PROVE  Inv'
<1> USE KeysAreNumbers
<1>0. TypeOK /\ LinkingMadeIt /\ UsedKeysWereMade
  BY DEF Inv
<1>1. Calm'
  BY DEF Calm, SetNextValue, RemoveNextValue, EnterKey
<1>2. ASSUME UNCHANGED <<records, client, used, made>>, calm' = FALSE,
             rows' \subseteq Keys
      PROVE  (TypeOK /\ LinkingMadeIt /\ UsedKeysWereMade)'
  BY <1>0, <1>2 DEF TypeOK, LinkingMadeIt, UsedKeysWereMade
<1>3. ASSUME NEW c \in Clients, NEW k \in Keys, EnterKey(c, k)
      PROVE  (TypeOK /\ LinkingMadeIt /\ UsedKeysWereMade)'
  <2> DEFINE s == [at |-> "key", kind |-> "hand", key |-> k]
  <2>1. s \in Client /\ s.at = "key" /\ s.key = k
    BY DEF Client, Steps, Kinds
  <2>2. /\ client' \in [Clients -> Client] /\ client'[c] = s
        /\ \A d \in Clients : d # c => client'[d] = client[d]
    BY <1>0, <1>3, <2>1, Becoming DEF TypeOK, EnterKey
  <2>3. UNCHANGED <<rows, records, used, made>> /\ calm' = FALSE
    BY <1>3 DEF EnterKey
  <2> HIDE DEF s
  <2> QED BY <1>0, <2>1, <2>2, <2>3
          DEF TypeOK, LinkingMadeIt, UsedKeysWereMade
<1>4. CASE \E v \in Keys : SetNextValue(v)
  BY <1>1, <1>2, <1>4 DEF SetNextValue, Inv
<1>5. CASE RemoveNextValue
  BY <1>1, <1>2, <1>5 DEF RemoveNextValue, Inv
<1> QED BY <1>1, <1>3, <1>4, <1>5 DEF Inv

(* Adding a record, up to its INSERT, and deleting one.                    *)
LEMMA RecordInv ==
  ASSUME Inv, NEW c \in Clients,
         \/ CheckUnique(c) \/ InsertFails(c) \/ Link(c)
         \/ \E k \in Keys : Delete(c, k)
  PROVE  Inv'
<1> USE KeysAreNumbers, States
<1>0. TypeOK /\ LinkingMadeIt /\ UsedKeysWereMade /\ client[c] \in Client
  BY DEF Inv, TypeOK
<1>1. /\ client' \in [Clients -> Client]
      /\ \A d \in Clients : d # c => client'[d] = client[d]
      /\ \/ client'[c] = Idle
         \/ /\ client'[c].at \in {"idle", "unique"}
            /\ client[c].at \in {"key", "unique"}
            /\ client'[c].key = client[c].key
  <2>1. CASE CheckUnique(c)
    <3>1. CASE Become(c, Idle)
      BY <1>0, <3>1, Becoming DEF TypeOK
    <3>2. CASE Goto(c, "unique")
      BY <1>0, <2>1, <3>2, Going DEF TypeOK, Steps, CheckUnique
    <3> QED BY <2>1, <3>1, <3>2 DEF CheckUnique
  <2>2. CASE InsertFails(c)
    <3>1. /\ client[c].at \in {"key", "unique"}
          /\ client[c].key \in Keys
      <4>1. client[c].at \in {"key", "unique"}
        BY <2>2 DEF InsertFails, MayInsert
      <4> QED BY <1>0, <4>1 DEF TypeOK, Client
    <3>2. CASE Become(c, Idle)
      BY <1>0, <3>2, Becoming DEF TypeOK
    <3>3. CASE Become(c, Showing(client[c].key))
      <4>1. PICK k \in Keys : k = client[c].key
        BY <3>1
      <4>2. Showing(k) \in Client /\ Become(c, Showing(k))
        BY <3>3, <4>1
      <4>3. client'[c] = Showing(k)
        BY <1>0, <4>2, Becoming DEF TypeOK
      <4>4. client'[c].at = "idle" /\ client'[c].key = k
        BY <4>3
      <4> QED BY <1>0, <3>1, <4>1, <4>2, <4>4, Becoming DEF TypeOK
    <3> QED BY <2>2, <3>2, <3>3 DEF InsertFails
  <2>3. CASE Link(c) \/ \E k \in Keys : Delete(c, k)
    <3>1. Become(c, Idle)
      BY <2>3 DEF Link, Delete
    <3> QED BY <1>0, <3>1, Becoming DEF TypeOK
  <2> QED BY <2>1, <2>2, <2>3
<1>2. /\ UNCHANGED <<rows, made, calm>>
      /\ records' \subseteq records
  BY DEF CheckUnique, InsertFails, Link, Delete
<1>3. used' \in [Clients -> SUBSET Keys] /\ UsedKeysWereMade'
  <2>1. CASE Link(c)
    <3>1. /\ client[c].at = "linking" /\ made' = made
          /\ used' = [used EXCEPT ![c] = @ \cup {client[c].key}]
      BY <2>1 DEF Link
    <3>2. client[c].key \in Keys /\ <<c, client[c].key>> \in made
      <4>1. client[c].key # None
        BY <1>0, <3>1 DEF TypeOK
      <4> QED BY <1>0, <3>1, <4>1 DEF Client, LinkingMadeIt
    <3>3. used' \in [Clients -> SUBSET Keys]
      BY <1>0, <3>1, <3>2 DEF TypeOK
    <3>4. \A d \in Clients : used'[d] =
            IF d = c THEN used[d] \cup {client[c].key} ELSE used[d]
      BY <1>0, <3>1 DEF TypeOK
    <3> QED BY <1>0, <3>1, <3>2, <3>3, <3>4 DEF UsedKeysWereMade
  <2>2. CASE UNCHANGED <<used, made>>
    BY <1>0, <2>2 DEF UsedKeysWereMade, TypeOK
  <2> QED BY <2>1, <2>2 DEF CheckUnique, InsertFails, Delete
<1>4. TypeOK'
  <2>1. \A d \in Clients : client'[d].at # "idle" => client'[d].key # None
    <3>1. client'[c].at # "idle" => client'[c].key # None
      BY <1>0, <1>1 DEF TypeOK
    <3> QED BY <1>0, <1>1, <3>1 DEF TypeOK
  <2> QED BY <1>0, <1>1, <1>2, <1>3, <2>1 DEF TypeOK
<1>5. LinkingMadeIt'
  <2>1. client'[c].at # "linking"
    BY <1>1
  <2> QED BY <1>0, <1>1, <1>2, <2>1 DEF LinkingMadeIt
<1>6. Calm'
  <2>1. ~Fetching(c)'
    BY <1>1 DEF Fetching
  <2>2. \A k \in Keys : /\ Holds(c, k)' => Holds(c, k)
                        /\ Shows(c, k)' => Has(c, k)
    BY <1>1 DEF Has, Holds, Shows
  <2> QED BY <1>1, <1>2, <2>1, <2>2, KeepsCalm
<1> QED BY <1>3, <1>4, <1>5, <1>6 DEF Inv

(* The INSERT makes the key that the process has one of a record.          *)
LEMMA InsertInv ==
  ASSUME Inv, NEW c \in Clients, Insert(c)
  PROVE  Inv'
<1> USE KeysAreNumbers, States
<1>0. TypeOK /\ LinkingMadeIt /\ UsedKeysWereMade /\ Calm
      /\ client[c] \in Client
  BY DEF Inv, TypeOK
<1>1. client[c].at \in {"key", "unique"}
  BY DEF Insert, MayInsert
<1>2. PICK k \in Keys : k = client[c].key
  BY <1>0, <1>1 DEF TypeOK, Client
<1>3. /\ UNCHANGED <<rows, calm>>
      /\ k \notin records
      /\ records' = records \cup {k}
      /\ made' = made \cup {<<c, k>>}
      /\ used' = [used EXCEPT ![c] =
           IF client[c].kind = "list" THEN @ \cup {k} ELSE @]
  BY <1>2 DEF Insert, AfterInsert
<1>4. /\ client' \in [Clients -> Client]
      /\ \A d \in Clients : d # c => client'[d] = client[d]
      /\ \/ client'[c] = Idle
         \/ client'[c].at \in {"idle", "linking"} /\ client'[c].key = k
  <2>1. CASE Become(c, Showing(k))
    <3>1. Showing(k).at = "idle" /\ Showing(k).key = k
      OBVIOUS
    <3>2. client'[c] = Showing(k)
      BY <1>0, <2>1, Becoming DEF TypeOK
    <3> QED BY <1>0, <2>1, <3>1, <3>2, Becoming DEF TypeOK
  <2>2. CASE Goto(c, "linking")
    BY <1>0, <1>2, <2>2, Going DEF TypeOK, Steps
  <2>3. CASE Become(c, Idle)
    BY <1>0, <2>3, Becoming DEF TypeOK
  <2> QED BY <1>2, <2>1, <2>2, <2>3 DEF Insert, AfterInsert
<1>5. used' \in [Clients -> SUBSET Keys] /\ UsedKeysWereMade'
  <2>1. used' \in [Clients -> SUBSET Keys]
    BY <1>0, <1>3 DEF TypeOK
  <2>2. \A d \in Clients : used'[d] \subseteq
          IF d = c THEN used[d] \cup {k} ELSE used[d]
    BY <1>0, <1>3 DEF TypeOK
  <2> QED BY <1>0, <1>3, <2>1, <2>2 DEF UsedKeysWereMade
<1>6. TypeOK'
  <2>1. \A d \in Clients : client'[d].at # "idle" => client'[d].key # None
    <3>1. client'[c].at # "idle" => client'[c].key # None
      BY <1>4
    <3> QED BY <1>0, <1>4, <3>1 DEF TypeOK
  <2>2. records' \subseteq Keys /\ made' \subseteq Clients \X Keys
    BY <1>0, <1>3 DEF TypeOK
  <2> QED BY <1>0, <1>3, <1>4, <1>5, <2>1, <2>2 DEF TypeOK
<1>7. LinkingMadeIt'
  <2>1. client'[c].at = "linking" => client'[c].key = k
    BY <1>4
  <2> QED BY <1>0, <1>3, <1>4, <2>1 DEF LinkingMadeIt
<1>8. Calm'
  <2>1. SUFFICES ASSUME calm'
                 PROVE  (OneFetches /\ NextIsGreater /\ KeysAreOwn)'
    BY DEF Calm
  <2>2. OneFetches /\ NextIsGreater /\ KeysAreOwn
    BY <1>0, <1>3, <2>1 DEF Calm
  <2>3. Has(c, k) /\ Holds(c, k)
    BY <1>1, <1>2 DEF Has, Holds
  <2>4. \A d \in Clients, j \in Keys :
          /\ Holds(d, j)' => Holds(d, j) /\ d # c
          /\ Shows(d, j)' => Shows(d, j) \/ (d = c /\ j = k)
    <3>1. TAKE d \in Clients, j \in Keys
    <3>2. CASE d = c
      BY <1>4, <3>2 DEF Holds, Shows
    <3>3. CASE d # c
      <4>1. client'[d] = client[d]
        BY <1>4, <3>3
      <4> QED BY <3>3, <4>1 DEF Holds, Shows
    <3> QED BY <3>2, <3>3
  <2>5. \A d \in Clients, j \in Keys : Has(d, j)' => Has(d, j)
    BY <2>3, <2>4 DEF Has
  <2>6. \A d \in Clients : d # c => ~Has(d, k)
    BY <2>2, <2>3 DEF KeysAreOwn
  <2>7. OneFetches'
    <3>1. ~Fetching(c)'
      BY <1>4 DEF Fetching
    <3>2. \A d \in Clients : d # c => Fetching(d)' = Fetching(d)
      BY <1>4 DEF Fetching
    <3> QED BY <1>3, <1>4, <2>2, <3>1, <3>2 DEF OneFetches, Fetching
  <2>8. NextIsGreater'
    BY <1>3, <2>2, <2>3, <2>5 DEF NextIsGreater
  <2>9. KeysAreOwn'
    <3>1. \A d \in Clients, j \in Keys : Holds(d, j)' => j \notin records'
      <4>1. TAKE d \in Clients, j \in Keys
      <4>2. HAVE Holds(d, j)'
      <4>3. Holds(d, j) /\ d # c
        BY <2>4, <4>2
      <4>4. j \notin records /\ Has(d, j)
        BY <2>2, <4>3 DEF KeysAreOwn, Has
      <4> QED BY <1>3, <2>6, <4>3, <4>4
    <3>2. \A d, e \in Clients, j \in Keys :
            Has(d, j)' /\ Has(e, j)' => d = e
      BY <2>2, <2>5 DEF KeysAreOwn
    <3>3. DetailsShowTheNewRecord'
      <4>1. SUFFICES ASSUME NEW d \in Clients, NEW j \in records',
                            Shows(d, j)'
                     PROVE  <<d, j>> \in made'
        BY DEF DetailsShowTheNewRecord
      <4>2. j \in Keys
        BY <1>6 DEF TypeOK
      <4>3. CASE j = k
        <5>1. d = c
          BY <2>4, <2>6, <4>1, <4>2, <4>3 DEF Has
        <5> QED BY <1>3, <4>3, <5>1
      <4>4. CASE j # k
        <5>1. j \in records /\ Shows(d, j)
          BY <1>3, <2>4, <4>1, <4>2, <4>4
        <5> QED BY <1>3, <2>2, <5>1 DEF KeysAreOwn, DetailsShowTheNewRecord
      <4> QED BY <4>3, <4>4
    <3> QED BY <3>1, <3>2, <3>3 DEF KeysAreOwn
  <2> QED BY <2>7, <2>8, <2>9
<1> QED BY <1>5, <1>6, <1>7, <1>8 DEF Inv

LEMMA StutterInv == Inv /\ UNCHANGED vars => Inv'
BY DEF vars, Inv, TypeOK, LinkingMadeIt, UsedKeysWereMade, Calm, OneFetches,
  Fetching, NextIsGreater, KeysAreOwn, Has, Holds, Shows,
  DetailsShowTheNewRecord

LEMMA Invariance == Spec => []Inv
<1>1. Inv /\ [Next]_vars => Inv'
  <2> SUFFICES ASSUME Inv, [Next]_vars PROVE Inv'
    OBVIOUS
  <2>1. CASE UNCHANGED vars
    BY <2>1, StutterInv
  <2>2. ASSUME NEW c \in Clients,
               \/ \E kind \in Kinds : BeginFetch(c, kind)
               \/ InsertFirst(c) \/ Increment(c)
        PROVE  Inv'
    BY <2>2, FetchInv
  <2>3. ASSUME NEW c \in Clients,
               \/ CheckUnique(c) \/ InsertFails(c) \/ Link(c)
               \/ \E k \in Keys : Delete(c, k)
        PROVE  Inv'
    BY <2>3, RecordInv
  <2>4. ASSUME NEW c \in Clients, Insert(c)
        PROVE  Inv'
    BY <2>4, InsertInv
  <2>5. CASE \/ \E v \in Keys : SetNextValue(v)
             \/ RemoveNextValue
             \/ \E c \in Clients, k \in Keys : EnterKey(c, k)
    BY <2>5, DisturbInv
  <2> QED BY <2>1, <2>2, <2>3, <2>4, <2>5 DEF Next
<1> QED BY <1>1, InitInv, PTL DEF Spec

(* The next value, the keys that processes have and the histories keep     *)
(* their types, and whoever is adding a record has a key for it.           *)
THEOREM TypeCorrect == Spec => []TypeOK
<1>1. Inv => TypeOK
  BY DEF Inv
<1> QED BY <1>1, Invariance, PTL

(* However the fetches of any number of processes overlap, a key in a row  *)
(* of a list or in a foreign key is one whose record this process made.    *)
THEOREM UsedWereMade == Spec => []UsedKeysWereMade
<1>1. Inv => UsedKeysWereMade
  BY DEF Inv
<1> QED BY <1>1, Invariance, PTL

(* Fetches that do not overlap, do not fail and are not meddled with give  *)
(* keys that are free.                                                     *)
THEOREM CalmKeys == Spec => []CalmKeysAreFree
<1>1. Inv => CalmKeysAreFree
  BY DEF Inv, Calm, KeysAreOwn, Has, CalmKeysAreFree
<1> QED BY <1>1, Invariance, PTL

(* And the details view then shows the new record, and no other.           *)
THEOREM CalmDetails == Spec => []CalmDetailsShowTheNewRecord
<1>1. Inv => CalmDetailsShowTheNewRecord
  BY DEF Inv, Calm, KeysAreOwn, CalmDetailsShowTheNewRecord
<1> QED BY <1>1, Invariance, PTL

----------------------------------------------------------------------------
(* What is computed along a sequence                                       *)

(* A set of numbers that is not empty has a least one.                     *)
LEMMA LeastNumber ==
  ASSUME NEW T \in SUBSET Nat, T # {}
  PROVE  \E n \in T : \A m \in T : n <= m
<1> DEFINE R == OpToRel(<, Nat)
<1>1. IsWellFoundedOn(R, Nat)
  BY NatLessThanWellFounded
<1>2. \A m, n \in Nat : m < n => <<m, n>> \in R
  BY DEF OpToRel
<1> HIDE DEF R
<1>3. PICK n \in T : \A m \in T : ~(<<m, n>> \in R)
  BY <1>1, WFMin
<1>4. \A m \in T : ~(m < n)
  BY <1>2, <1>3
<1> QED
  BY <1>4

(* Induction up to a number, of a set.                                     *)
LEMMA UpTo ==
  ASSUME NEW n \in Nat, NEW S, 0 \in S,
         \A i \in 0 .. n - 1 : i \in S => i + 1 \in S
  PROVE  \A i \in 0 .. n : i \in S
<1> DEFINE T == {i \in 0 .. n : i \notin S}
<1>1. SUFFICES ASSUME T # {} PROVE FALSE
  OBVIOUS
<1>2. PICK i \in T : \A j \in T : i <= j
  <2>1. T \in SUBSET Nat
    OBVIOUS
  <2> HIDE DEF T
  <2> QED
    BY <1>1, <2>1, LeastNumber
<1>3. i \in 1 .. n /\ i - 1 \notin T
  BY <1>2
<1>4. i - 1 \in S /\ i - 1 \in 0 .. n - 1 /\ i - 1 + 1 = i
  BY <1>3
<1>5. i \in S
  BY <1>4
<1> QED
  BY <1>2, <1>5

(* The value after each step over a sequence.                              *)
StepsOf(V, C) == [V \X C -> V]

(* f has the value after each of the steps over s.                         *)
IsTrace(V, C, step, base, s, f) ==
  /\ f \in [0 .. Len(s) -> V]
  /\ f[0] = base
  /\ \A i \in 1 .. Len(s) : f[i] = step[<<f[i - 1], s[i]>>]

(* The steps can be taken to the end of a sequence.                        *)
LEMMA TraceExists ==
  ASSUME NEW V, NEW C, NEW step \in StepsOf(V, C), NEW base \in V,
         NEW s \in Seq(C)
  PROVE  \E f : IsTrace(V, C, step, base, s, f)
<1> DEFINE Trace(n, f) ==
             f[0] = base /\ \A i \in 1 .. n : f[i] = step[<<f[i - 1], s[i]>>]
           S == {n \in 0 .. Len(s) : \E f \in [0 .. n -> V] : Trace(n, f)}
<1>1. Len(s) \in Nat /\ \A i \in 1 .. Len(s) : s[i] \in C
  BY ElementOfSeq, LenProperties
<1>2. 0 \in S
  <2>1. [i \in 0 .. 0 |-> base] \in [0 .. 0 -> V]
    OBVIOUS
  <2>2. Trace(0, [i \in 0 .. 0 |-> base])
    OBVIOUS
  <2> HIDE DEF Trace
  <2> QED
    BY <1>1, <2>1, <2>2
<1>3. ASSUME NEW n \in 0 .. Len(s) - 1, n \in S
      PROVE  n + 1 \in S
  <2>1. PICK f \in [0 .. n -> V] : Trace(n, f)
    BY <1>3
  <2> DEFINE last == step[<<f[n], s[n + 1]>>]
             g == [i \in 0 .. n + 1 |-> IF i = n + 1 THEN last ELSE f[i]]
  <2>2. last \in V
    BY <1>1 DEF StepsOf
  <2>3. g \in [0 .. n + 1 -> V]
    BY <2>2
  <2>4. g[n + 1] = last /\ \A i \in 0 .. n : g[i] = f[i]
    OBVIOUS
  <2> HIDE DEF last, g
  <2>5. g[0] = base
    BY <1>1, <2>1, <2>4
  <2>6. ASSUME NEW i \in 1 .. n + 1
        PROVE  g[i] = step[<<g[i - 1], s[i]>>]
    <3>1. CASE i = n + 1
      <4>1. n \in 0 .. n /\ n + 1 - 1 = n
        BY <1>1
      <4>2. g[i] = last /\ g[n] = f[n]
        BY <2>4, <3>1, <4>1
      <4>3. i - 1 = n
        BY <3>1, <4>1
      <4> QED
        BY <3>1, <4>2, <4>3 DEF last
    <3>2. CASE i \in 1 .. n
      BY <3>2, <1>1, <2>1, <2>4
    <3> QED
      BY <3>1, <3>2, <1>1
  <2>7. Trace(n + 1, g)
    BY <2>5, <2>6
  <2> HIDE DEF Trace
  <2> QED
    BY <1>1, <2>3, <2>7
<1>4. \A n \in 0 .. Len(s) : n \in S
  <2> HIDE DEF S
  <2> QED
    BY <1>1, <1>2, <1>3, UpTo
<1> QED
  BY <1>1, <1>4 DEF IsTrace

(* There is only one.                                                      *)
LEMMA TraceUnique ==
  ASSUME NEW V, NEW C, NEW s \in Seq(C), NEW step, NEW base, NEW f, NEW g,
         IsTrace(V, C, step, base, s, f), IsTrace(V, C, step, base, s, g)
  PROVE  \A i \in 0 .. Len(s) : f[i] = g[i]
<1> DEFINE S == {i \in 0 .. Len(s) : f[i] = g[i]}
<1>1. Len(s) \in Nat
  BY LenProperties
<1>2. 0 \in S
  BY <1>1 DEF IsTrace
<1>3. ASSUME NEW i \in 0 .. Len(s) - 1, i \in S
      PROVE  i + 1 \in S
  <2>1. i + 1 \in 1 .. Len(s) /\ i + 1 - 1 = i
    BY <1>1
  <2>2. /\ f[i + 1] = step[<<f[i + 1 - 1], s[i + 1]>>]
        /\ g[i + 1] = step[<<g[i + 1 - 1], s[i + 1]>>]
    BY <2>1 DEF IsTrace
  <2>3. f[i] = g[i]
    BY <1>3
  <2>4. f[i + 1] = g[i + 1]
    BY <2>1, <2>2, <2>3
  <2> QED
    BY <1>1, <2>4
<1> HIDE DEF S
<1>4. \A i \in 0 .. Len(s) : i \in S
  BY <1>1, <1>2, <1>3, UpTo
<1> QED
  BY <1>4 DEF S

(* What a sequence leads to, by steps.                                     *)
Ran(V, C, step, base, s) ==
  (CHOOSE f : IsTrace(V, C, step, base, s, f))[Len(s)]

(* It is the last value of a trace.                                        *)
LEMMA RanTrace ==
  ASSUME NEW V, NEW C, NEW step, NEW base, NEW s \in Seq(C),
         NEW f, IsTrace(V, C, step, base, s, f)
  PROVE  Ran(V, C, step, base, s) = f[Len(s)] /\ f[Len(s)] \in V
<1> DEFINE g == CHOOSE g : IsTrace(V, C, step, base, s, g)
<1>1. IsTrace(V, C, step, base, s, g)
  OBVIOUS
<1> HIDE DEF g
<1>2. Len(s) \in 0 .. Len(s)
  BY LenProperties
<1>3. f[Len(s)] = g[Len(s)]
  BY <1>1, <1>2, TraceUnique
<1>4. f[Len(s)] \in V
  BY <1>2 DEF IsTrace
<1> QED
  BY <1>3, <1>4 DEF Ran, g

(* The beginnings of a sequence grow by one element.                       *)
LEMMA Beginnings ==
  ASSUME NEW C, NEW s \in Seq(C)
  PROVE  /\ SubSeq(s, 1, 0) = <<>>
         /\ SubSeq(s, 1, Len(s)) = s
         /\ \A i \in 0 .. Len(s) : SubSeq(s, 1, i) \in Seq(C)
                                   /\ Len(SubSeq(s, 1, i)) = i
         /\ \A i \in 1 .. Len(s) :
              SubSeq(s, 1, i) = Append(SubSeq(s, 1, i - 1), s[i])
<1>1. Len(s) \in Nat /\ \A i \in 1 .. Len(s) : s[i] \in C
  BY ElementOfSeq, LenProperties
<1>2. ASSUME NEW i \in 0 .. Len(s)
      PROVE  /\ SubSeq(s, 1, i) \in Seq(C) /\ Len(SubSeq(s, 1, i)) = i
             /\ \A j \in 1 .. i : SubSeq(s, 1, i)[j] = s[j]
  BY <1>1, SubSeqProperties
<1>3. ASSUME NEW i \in 1 .. Len(s)
      PROVE  SubSeq(s, 1, i) = Append(SubSeq(s, 1, i - 1), s[i])
  <2> DEFINE a == SubSeq(s, 1, i)
             b == SubSeq(s, 1, i - 1)
  <2>1. /\ a \in Seq(C) /\ Len(a) = i /\ \A j \in 1 .. i : a[j] = s[j]
        /\ b \in Seq(C) /\ Len(b) = i - 1
        /\ \A j \in 1 .. i - 1 : b[j] = s[j]
    BY <1>1, <1>2
  <2> HIDE DEF a, b
  <2>2. /\ Append(b, s[i]) \in Seq(C) /\ Len(Append(b, s[i])) = i
        /\ \A j \in 1 .. i : Append(b, s[i])[j] = s[j]
    BY <1>1, <2>1, AppendProperties
  <2>3. a = Append(b, s[i])
    BY <2>1, <2>2, SeqEqual
  <2> QED
    BY <2>3 DEF a, b
<1>4. SubSeq(s, 1, 0) = <<>>
  BY SubSeqEmpty
<1>5. SubSeq(s, 1, Len(s)) = s
  BY <1>1, SubSeqFull
<1> QED
  BY <1>2, <1>3, <1>4, <1>5

(* The steps along one sequence, and along two after one another.          *)
LEMMA RanSteps ==
  ASSUME NEW V, NEW C, NEW step \in StepsOf(V, C), NEW base \in V,
         NEW s \in Seq(C)
  PROVE  /\ Ran(V, C, step, base, s) \in V
         /\ Ran(V, C, step, base, SubSeq(s, 1, 0)) = base
         /\ \A i \in 0 .. Len(s) :
              Ran(V, C, step, base, SubSeq(s, 1, i)) \in V
         /\ \A i \in 1 .. Len(s) :
              Ran(V, C, step, base, SubSeq(s, 1, i)) =
                step[<<Ran(V, C, step, base, SubSeq(s, 1, i - 1)), s[i]>>]
<1>1. PICK f : IsTrace(V, C, step, base, s, f)
  BY TraceExists
<1>2. Ran(V, C, step, base, s) \in V
  BY <1>1, RanTrace
<1>3. Len(s) \in Nat /\ \A i \in 1 .. Len(s) : s[i] \in C
  BY ElementOfSeq, LenProperties
<1>4. ASSUME NEW i \in 0 .. Len(s)
      PROVE  /\ Ran(V, C, step, base, SubSeq(s, 1, i)) = f[i]
             /\ f[i] \in V
  <2> DEFINE t == SubSeq(s, 1, i)
             g == [j \in 0 .. i |-> f[j]]
  <2>1. t \in Seq(C) /\ Len(t) = i /\ \A j \in 1 .. i : t[j] = s[j]
    BY <1>3, Beginnings
  <2> HIDE DEF t
  <2>2. IsTrace(V, C, step, base, t, g)
    <3>1. /\ f \in [0 .. Len(s) -> V] /\ f[0] = base
          /\ \A j \in 1 .. Len(s) : f[j] = step[<<f[j - 1], s[j]>>]
      BY <1>1 DEF IsTrace
    <3>2. /\ 0 \in 0 .. i /\ 0 .. i \subseteq 0 .. Len(s)
          /\ \A j \in 1 .. i : j \in 1 .. Len(s) /\ j \in 0 .. i
                               /\ j - 1 \in 0 .. i
      BY <1>3
    <3>3. g \in [0 .. i -> V] /\ g[0] = base
      BY <3>1, <3>2
    <3>4. \A j \in 1 .. i : g[j] = f[j] /\ g[j - 1] = f[j - 1]
      BY <3>2
    <3> HIDE DEF g
    <3>5. \A j \in 1 .. i : g[j] = step[<<g[j - 1], t[j]>>]
      BY <2>1, <3>1, <3>2, <3>4
    <3> QED
      BY <2>1, <3>3, <3>5 DEF IsTrace
  <2>3. i \in 0 .. i
    BY <1>3
  <2>4. Ran(V, C, step, base, t) = g[i] /\ g[i] = f[i] /\ g[i] \in V
    <3> HIDE DEF g
    <3>1. Ran(V, C, step, base, t) = g[i] /\ g[i] \in V
      BY <2>1, <2>2, RanTrace
    <3> QED
      BY <2>3, <3>1 DEF g
  <2> QED
    BY <2>4 DEF t
<1>5. ASSUME NEW i \in 1 .. Len(s)
      PROVE  f[i] = step[<<f[i - 1], s[i]>>]
  BY <1>1 DEF IsTrace
<1>6. f[0] = base
  BY <1>1 DEF IsTrace
<1>7. ASSUME NEW i \in 1 .. Len(s)
      PROVE  Ran(V, C, step, base, SubSeq(s, 1, i)) =
               step[<<Ran(V, C, step, base, SubSeq(s, 1, i - 1)), s[i]>>]
  <2>1. i \in 0 .. Len(s) /\ i - 1 \in 0 .. Len(s)
    BY <1>3
  <2> QED
    BY <2>1, <1>4, <1>5
<1>8. Ran(V, C, step, base, SubSeq(s, 1, 0)) = base
  BY <1>3, <1>4, <1>6
<1> QED
  BY <1>2, <1>4, <1>7, <1>8

(* Two sequences after one another lead to where the second leads from     *)
(* where the first one does.                                               *)
LEMMA RanConcat ==
  ASSUME NEW V, NEW C, NEW step \in StepsOf(V, C), NEW base \in V,
         NEW s \in Seq(C), NEW t \in Seq(C)
  PROVE  Ran(V, C, step, base, s \o t) =
           Ran(V, C, step, Ran(V, C, step, base, s), t)
<1> DEFINE m == Len(s)
           n == Len(t)
           b == Ran(V, C, step, base, s)
           w == s \o t
<1>1. PICK f : IsTrace(V, C, step, base, s, f)
  BY TraceExists
<1>2. b = f[m] /\ b \in V
  BY <1>1, RanTrace
<1> HIDE DEF b
<1>3. PICK g : IsTrace(V, C, step, b, t, g)
  BY <1>2, TraceExists
<1>4. Ran(V, C, step, b, t) = g[n]
  BY <1>2, <1>3, RanTrace
<1> DEFINE h == [i \in 0 .. m + n |-> IF i <= m THEN f[i] ELSE g[i - m]]
<1>5. m \in Nat /\ n \in Nat
  BY LenProperties
<1>6. /\ w \in Seq(C) /\ Len(w) = m + n
      /\ \A i \in 1 .. m + n : w[i] = IF i <= m THEN s[i] ELSE t[i - m]
  BY ConcatProperties
<1> HIDE DEF w
<1>7. /\ f \in [0 .. m -> V] /\ f[0] = base
      /\ \A i \in 1 .. m : f[i] = step[<<f[i - 1], s[i]>>]
      /\ g \in [0 .. n -> V] /\ g[0] = b
      /\ \A i \in 1 .. n : g[i] = step[<<g[i - 1], t[i]>>]
  BY <1>1, <1>3 DEF IsTrace
<1>8. h \in [0 .. m + n -> V]
  BY <1>5, <1>7
<1>9. /\ \A i \in 0 .. m : h[i] = f[i]
      /\ \A i \in m .. m + n : h[i] = g[i - m]
  <2>1. \A i \in m .. m + n : i > m => h[i] = g[i - m]
    BY <1>5
  <2>2. h[m] = f[m] /\ m - m = 0
    BY <1>5
  <2>3. \A i \in 0 .. m : h[i] = f[i]
    BY <1>5
  <2> HIDE DEF h, m, n
  <2>4. \A i \in m .. m + n : h[i] = g[i - m]
    BY <2>1, <2>2, <1>2, <1>5, <1>7
  <2> QED
    BY <2>3, <2>4
<1> HIDE DEF h
<1>10. ASSUME NEW i \in 1 .. m + n
       PROVE  h[i] = step[<<h[i - 1], w[i]>>]
  <2>1. CASE i <= m
    <3> HIDE DEF m, n
    <3>1. i \in 1 .. m /\ i \in 0 .. m /\ i - 1 \in 0 .. m
      BY <2>1, <1>5
    <3>2. h[i] = f[i] /\ h[i - 1] = f[i - 1] /\ w[i] = s[i]
      BY <3>1, <2>1, <1>6, <1>9
    <3>3. f[i] = step[<<f[i - 1], s[i]>>]
      BY <3>1, <1>7
    <3> QED
      BY <3>2, <3>3
  <2>2. CASE i > m
    <3> HIDE DEF m, n
    <3>1. i - m \in 1 .. n /\ i - m - 1 = i - 1 - m
      BY <2>2, <1>5
    <3>2. h[i] = g[i - m] /\ h[i - 1] = g[i - 1 - m]
      BY <2>2, <1>5, <1>9
    <3>3. w[i] = t[i - m]
      BY <2>2, <1>5, <1>6
    <3>4. g[i - m] = step[<<g[i - m - 1], t[i - m]>>]
      BY <3>1, <1>7
    <3> QED
      BY <3>1, <3>2, <3>3, <3>4
  <2>3. i \in Int /\ m \in Int
    BY <1>5
  <2> HIDE DEF m, n
  <2> QED
    BY <2>1, <2>2, <2>3
<1>11. IsTrace(V, C, step, base, w, h)
  BY <1>5, <1>6, <1>7, <1>8, <1>9, <1>10 DEF IsTrace
<1>12. Ran(V, C, step, base, w) = h[m + n]
  BY <1>6, <1>11, RanTrace
<1>13. h[m + n] = g[n]
  <2>1. m + n \in m .. m + n /\ m + n - m = n
    BY <1>5
  <2> QED
    BY <2>1, <1>9
<1> QED
  BY <1>4, <1>12, <1>13 DEF b, w

(* What Advanced() works on.                                               *)
Fields == [done : Seq(Seq(Chars)), field : Seq(Chars),
           inside : BOOLEAN, ended : BOOLEAN]

(* A character makes fields of fields.                                     *)
LEMMA AdvancedTyped ==
  ASSUME NEW f \in Fields, NEW c \in Chars
  PROVE  Advanced(f, c) \in Fields
<1>1. /\ Append(f.field, c) \in Seq(Chars)
      /\ Append(f.field, "q") \in Seq(Chars)
      /\ Append(f.done, f.field) \in Seq(Seq(Chars))
      /\ <<>> \in Seq(Chars)
  BY AppendProperties DEF Fields, Chars
<1> QED
  BY <1>1 DEF Advanced, Fields

(* Where advance_field() begins.                                           *)
NoFields == [done |-> <<>>, field |-> <<>>, inside |-> FALSE, ended |-> FALSE]

(* A character, as a step.                                                 *)
AdvanceStep == [p \in Fields \X Chars |-> Advanced(p[1], p[2])]

(* Where the characters lead to.                                           *)
Advance(base, chars) == Ran(Fields, Chars, AdvanceStep, base, chars)

(* It makes fields of fields.                                              *)
LEMMA AdvanceStepTyped ==
  NoFields \in Fields /\ AdvanceStep \in StepsOf(Fields, Chars)
BY EmptySeq, AdvancedTyped DEF NoFields, Fields, AdvanceStep, StepsOf

(* The fields of a line are where the steps lead to.                       *)
LEMMA FieldsOfAre ==
  ASSUME NEW text \in Seq(Chars)
  PROVE  LET f == Advance(NoFields, text)
         IN  f \in Fields /\ FieldsOf(text) = Append(f.done, f.field)
<1> DEFINE step == AdvanceStep
           base == NoFields
           n == Len(text)
           Fn(f) == [i \in 0 .. Len(text) |->
                       IF i = 0 THEN NoFields
                       ELSE CHOOSE r \in {Advanced(v, text[i]) :
                                            v \in {f[i - 1]}} : TRUE]
           F == CHOOSE f : f = Fn(f)
<1>1. base \in Fields /\ step \in StepsOf(Fields, Chars)
  BY AdvanceStepTyped
<1>2. n \in Nat /\ \A i \in 1 .. n : text[i] \in Chars
  BY ElementOfSeq, LenProperties
<1>3. PICK t : IsTrace(Fields, Chars, step, base, text, t)
  <2> HIDE DEF step, base
  <2> QED
    BY <1>1, TraceExists
<1>4. Ran(Fields, Chars, step, base, text) = t[n] /\ t[n] \in Fields
  <2> HIDE DEF step, base
  <2> QED
    BY <1>3, RanTrace DEF Advance
<1>5. /\ t \in [0 .. n -> Fields] /\ t[0] = base
      /\ \A i \in 1 .. n : t[i] = Advanced(t[i - 1], text[i])
  BY <1>2, <1>3 DEF IsTrace, AdvanceStep
<1>a. ASSUME NEW f, NEW i \in 1 .. n
      PROVE  Fn(f)[i] = Advanced(f[i - 1], text[i])
  <2>1. {Advanced(v, text[i]) : v \in {f[i - 1]}} =
          {Advanced(f[i - 1], text[i])}
    OBVIOUS
  <2> QED
    BY <1>2, <2>1
<1>b. Fn(t) = [i \in 0 .. n |-> Fn(t)[i]] /\ Fn(t)[0] = base
  BY <1>2
<1>6. t = Fn(t)
  <2> HIDE DEF Fn
  <2>1. \A i \in 0 .. n : i # 0 => i \in 1 .. n
    BY <1>2
  <2>2. \A i \in 0 .. n : t[i] = Fn(t)[i]
    BY <1>5, <1>a, <1>b, <2>1
  <2> QED
    BY <1>5, <1>b, <2>2
<1>7. F = Fn(F)
  BY <1>6
<1> DEFINE S == {i \in 0 .. n : F[i] = t[i]}
<1> HIDE DEF F
<1>8. 0 \in S
  BY <1>2, <1>5, <1>7
<1>9. ASSUME NEW i \in 0 .. n - 1, i \in S
      PROVE  i + 1 \in S
  <2> HIDE DEF Fn
  <2>1. i + 1 \in 1 .. n /\ i + 1 - 1 = i
    BY <1>2
  <2>2. F[i + 1] = Advanced(F[i], text[i + 1])
    BY <2>1, <1>7, <1>a
  <2>3. t[i + 1] = Advanced(t[i + 1 - 1], text[i + 1])
    BY <2>1, <1>5
  <2>4. F[i] = t[i]
    BY <1>9
  <2>5. F[i + 1] = t[i + 1]
    BY <2>1, <2>2, <2>3, <2>4
  <2> QED
    BY <1>2, <2>1, <2>5
<1>10. n \in S
  <2> HIDE DEF S
  <2>1. \A i \in 0 .. n : i \in S
    BY <1>2, <1>8, <1>9, UpTo
  <2> QED
    BY <1>2, <2>1
<1>11. FieldsOf(text) = Append(F[n].done, F[n].field)
  BY DEF FieldsOf, Folded, F, NoFields
<1>12. t[n] = Advance(NoFields, text) /\ F[n] = t[n]
  <2> HIDE DEF step, base, n
  <2>1. t[n] = Advance(NoFields, text)
    BY <1>4 DEF Advance, step, base
  <2> QED
    BY <1>10, <2>1 DEF S
<1> HIDE DEF S, step, base, n, Fn
<1> QED
  BY <1>4, <1>11, <1>12

(* The fields of a line are texts.                                         *)
LEMMA FieldsOfTyped ==
  ASSUME NEW line \in Seq(Chars)
  PROVE  FieldsOf(line) \in Seq(Seq(Chars))
<1> DEFINE f == Advance(NoFields, line)
<1>1. f \in Fields /\ FieldsOf(line) = Append(f.done, f.field)
  BY FieldsOfAre
<1> HIDE DEF f
<1>2. f.done \in Seq(Seq(Chars)) /\ f.field \in Seq(Chars)
  BY <1>1 DEF Fields
<1> QED
  BY <1>1, <1>2, AppendProperties

----------------------------------------------------------------------------
(* The conversion *)
Conversions == [chars : Seq(Chars), used : Nat, half : BOOLEAN,
                why : {"done", "EILSEQ"}]

(* Where iconv() begins.                                                   *)
Unconverted == [chars |-> <<>>, used |-> 0, half |-> FALSE, why |-> "done"]

(* A byte, as a step.                                                      *)
ConvertStep(encoding, max) ==
  [p \in Conversions \X Bytes |-> ConvertedByte(encoding, max, p[1], p[2])]

(* It makes a conversion of a conversion, of Boolean and natural members.  *)
LEMMA ConvertStepTyped ==
  \A encoding, max :
    ConvertStep(encoding, max) \in StepsOf(Conversions, Bytes)
<1> SUFFICES ASSUME NEW encoding, NEW max, NEW c \in Conversions,
                    NEW b \in Bytes
             PROVE  ConvertedByte(encoding, max, c, b) \in Conversions
  BY DEF ConvertStep, StepsOf
<1>1. /\ Append(c.chars, b) \in Seq(Chars)
      /\ Append(c.chars, "u") \in Seq(Chars)
      /\ c.used + 1 \in Nat /\ c.used + 2 \in Nat
  BY AppendProperties DEF Conversions, Bytes, Chars
<1> QED
  BY <1>1 DEF ConvertedByte, Conversions

(* What iconv() has after the bytes, but for its answer.                   *)
Conversion(encoding, bytes, max) ==
  Ran(Conversions, Bytes, ConvertStep(encoding, max), Unconverted, bytes)

(* Converted() is where the steps lead to, and its answer.                 *)
LEMMA ConvertedIsConversion ==
  ASSUME NEW encoding, NEW max, NEW s \in Seq(Bytes)
  PROVE  LET c == Conversion(encoding, s, max)
         IN  /\ c \in Conversions
             /\ Converted(encoding, s, max) =
                  IF c.why = "done" /\ c.half THEN [c EXCEPT !.why = "EINVAL"]
                  ELSE c
<1> DEFINE step == ConvertStep(encoding, max)
           base == Unconverted
           n == Len(s)
           Fn(f) == [i \in 0 .. Len(s) |->
                       IF i = 0
                       THEN [chars |-> <<>>, used |-> 0, half |-> FALSE,
                             why |-> "done"]
                       ELSE CHOOSE r \in {ConvertedByte(encoding, max, v, s[i]) :
                                            v \in {f[i - 1]}} : TRUE]
           F == CHOOSE f : f = Fn(f)
<1>1. base \in Conversions /\ step \in StepsOf(Conversions, Bytes)
  BY EmptySeq, ConvertStepTyped DEF Conversions, Unconverted
<1>2. n \in Nat /\ \A i \in 1 .. n : s[i] \in Bytes
  BY ElementOfSeq, LenProperties
<1>3. PICK t : IsTrace(Conversions, Bytes, step, base, s, t)
  <2> HIDE DEF step, base
  <2> QED
    BY <1>1, TraceExists
<1>4. Conversion(encoding, s, max) = t[n] /\ t[n] \in Conversions
  BY <1>3, RanTrace DEF Conversion
<1>5. /\ t \in [0 .. n -> Conversions] /\ t[0] = base
      /\ \A i \in 1 .. n :
           t[i] = ConvertedByte(encoding, max, t[i - 1], s[i])
  BY <1>2, <1>3 DEF IsTrace, ConvertStep
<1>a. ASSUME NEW f, NEW i \in 1 .. n
      PROVE  Fn(f)[i] = ConvertedByte(encoding, max, f[i - 1], s[i])
  <2>1. {ConvertedByte(encoding, max, v, s[i]) : v \in {f[i - 1]}} =
          {ConvertedByte(encoding, max, f[i - 1], s[i])}
    OBVIOUS
  <2> QED
    BY <1>2, <2>1
<1>b. Fn(t) = [i \in 0 .. n |-> Fn(t)[i]] /\ Fn(t)[0] = base
  BY <1>2 DEF Unconverted
<1>6. t = Fn(t)
  <2> HIDE DEF Fn
  <2>1. \A i \in 0 .. n : i # 0 => i \in 1 .. n
    BY <1>2
  <2>2. \A i \in 0 .. n : t[i] = Fn(t)[i]
    BY <1>5, <1>a, <1>b, <2>1
  <2> QED
    BY <1>5, <1>b, <2>2
<1>7. F = Fn(F)
  BY <1>6
<1> DEFINE S == {i \in 0 .. n : F[i] = t[i]}
<1> HIDE DEF F
<1>8. 0 \in S
  BY <1>2, <1>5, <1>7 DEF Unconverted
<1>9. ASSUME NEW i \in 0 .. n - 1, i \in S
      PROVE  i + 1 \in S
  <2> HIDE DEF Fn
  <2>1. i + 1 \in 1 .. n /\ i + 1 - 1 = i
    BY <1>2
  <2>2. F[i + 1] = ConvertedByte(encoding, max, F[i], s[i + 1])
    BY <2>1, <1>7, <1>a
  <2>3. t[i + 1] = ConvertedByte(encoding, max, t[i + 1 - 1], s[i + 1])
    BY <2>1, <1>5
  <2>4. F[i] = t[i]
    BY <1>9
  <2>5. F[i + 1] = t[i + 1]
    BY <2>1, <2>2, <2>3, <2>4
  <2> QED
    BY <1>2, <2>1, <2>5
<1>10. n \in S
  <2> HIDE DEF S
  <2>1. \A i \in 0 .. n : i \in S
    BY <1>2, <1>8, <1>9, UpTo
  <2> QED
    BY <1>2, <2>1
<1>11. Converted(encoding, s, max) =
         IF F[n].why = "done" /\ F[n].half
         THEN [F[n] EXCEPT !.why = "EINVAL"] ELSE F[n]
  BY DEF Converted, Folded, F
<1> QED
  BY <1>4, <1>10, <1>11

----------------------------------------------------------------------------
(* The scan *)
Scans == [line : Seq(Chars), quotes : BOOLEAN, rows : Seq(Seq(Seq(Chars)))]

(* Where the scan of a file begins.                                        *)
Unscanned == [line |-> <<>>, quotes |-> FALSE, rows |-> <<>>]

(* A character, as a step.                                                 *)
ScanStep == [p \in Scans \X Chars |-> ScannedChar(p[1], p[2])]

(* It makes a scan of a scan.                                              *)
LEMMA ScanStepTyped == ScanStep \in StepsOf(Scans, Chars)
<1> SUFFICES ASSUME NEW p \in Scans, NEW c \in Chars
             PROVE  ScannedChar(p, c) \in Scans
  BY DEF ScanStep, StepsOf
<1>1. /\ Append(p.line, c) \in Seq(Chars)
      /\ Append(p.rows, FieldsOf(p.line)) \in Seq(Seq(Seq(Chars)))
      /\ <<>> \in Seq(Chars)
  BY AppendProperties, FieldsOfTyped DEF Scans
<1> QED
  BY <1>1 DEF ScannedChar, Scans

(* Where the characters lead to.                                           *)
Scan(base, chars) == Ran(Scans, Chars, ScanStep, base, chars)

(* What a parser has of a scan.                                            *)
ScanOf(p) == [line |-> p.line, quotes |-> p.quotes, rows |-> p.rows]

(* The parser with another scan.                                           *)
WithScan(p, s) ==
  [p EXCEPT !.line = s.line, !.quotes = s.quotes, !.rows = s.rows]

(* Scanned() is where the steps lead to.                                   *)
LEMMA ScannedIsScan ==
  ASSUME NEW p \in Parsers, NEW s \in Seq(Chars)
  PROVE  /\ Scan(ScanOf(p), s) \in Scans
         /\ Scanned(p, s) = WithScan(p, Scan(ScanOf(p), s))
<1> DEFINE step == ScanStep
           base == ScanOf(p)
           n == Len(s)
           Fn(f) == [i \in 0 .. Len(s) |->
                       IF i = 0 THEN p
                       ELSE CHOOSE r \in {ScannedChar(v, s[i]) :
                                            v \in {f[i - 1]}} : TRUE]
           F == CHOOSE f : f = Fn(f)
<1>1. base \in Scans /\ step \in StepsOf(Scans, Chars)
  BY ScanStepTyped DEF Scans, ScanOf, Parsers
<1>2. n \in Nat /\ \A i \in 1 .. n : s[i] \in Chars
  BY ElementOfSeq, LenProperties
<1>3. PICK t : IsTrace(Scans, Chars, step, base, s, t)
  <2> HIDE DEF step, base
  <2> QED
    BY <1>1, TraceExists
<1>4. Scan(base, s) = t[n] /\ t[n] \in Scans
  BY <1>3, RanTrace DEF Scan
<1>5. /\ t \in [0 .. n -> Scans] /\ t[0] = base
      /\ \A i \in 1 .. n : t[i] = ScannedChar(t[i - 1], s[i])
  BY <1>2, <1>3 DEF IsTrace, ScanStep
<1>6. ASSUME NEW q \in Scans, NEW c
      PROVE  WithScan(p, ScannedChar(q, c)) = ScannedChar(WithScan(p, q), c)
  BY DEF WithScan, ScannedChar, Parsers, Scans
<1> DEFINE g == [i \in 0 .. n |-> WithScan(p, t[i])]
<1>a. ASSUME NEW f, NEW i \in 1 .. n
      PROVE  Fn(f)[i] = ScannedChar(f[i - 1], s[i])
  <2>1. {ScannedChar(v, s[i]) : v \in {f[i - 1]}} =
          {ScannedChar(f[i - 1], s[i])}
    OBVIOUS
  <2> QED
    BY <1>2, <2>1
<1>b. Fn(g) = [i \in 0 .. n |-> Fn(g)[i]] /\ Fn(g)[0] = p
  BY <1>2
<1>7. g = Fn(g)
  <2>0. WithScan(p, ScanOf(p)) = p
    BY DEF WithScan, ScanOf, Parsers
  <2>1. g[0] = p
    BY <1>2, <1>5, <2>0
  <2>2. ASSUME NEW i \in 1 .. n
        PROVE  g[i] = ScannedChar(g[i - 1], s[i])
    <3>1. i - 1 \in 0 .. n /\ i \in 0 .. n
      BY <1>2
    <3>2. t[i - 1] \in Scans /\ t[i] = ScannedChar(t[i - 1], s[i])
      BY <3>1, <1>5
    <3> QED
      BY <3>1, <3>2, <1>6
  <2> HIDE DEF Fn
  <2>3. \A i \in 0 .. n : i # 0 => i \in 1 .. n
    BY <1>2
  <2>4. g = [i \in 0 .. n |-> g[i]]
    OBVIOUS
  <2> HIDE DEF g
  <2>5. \A i \in 0 .. n : g[i] = Fn(g)[i]
    BY <1>a, <1>b, <2>1, <2>2, <2>3
  <2>6. [i \in 0 .. n |-> g[i]] = [i \in 0 .. n |-> Fn(g)[i]]
    BY <2>5
  <2> QED
    BY <1>b, <2>4, <2>6
<1>8. F = Fn(F)
  BY <1>7
<1> DEFINE S == {i \in 0 .. n : F[i] = g[i]}
<1> HIDE DEF F, g
<1>9. 0 \in S
  BY <1>2, <1>7, <1>8
<1>10. ASSUME NEW i \in 0 .. n - 1, i \in S
       PROVE  i + 1 \in S
  <2> HIDE DEF Fn
  <2>1. i + 1 \in 1 .. n /\ i + 1 - 1 = i
    BY <1>2
  <2>2. F[i + 1] = ScannedChar(F[i], s[i + 1])
    BY <2>1, <1>8, <1>a
  <2>3. g[i + 1] = ScannedChar(g[i], s[i + 1])
    BY <2>1, <1>7, <1>a
  <2>4. F[i] = g[i]
    BY <1>10
  <2>5. F[i + 1] = g[i + 1]
    BY <2>2, <2>3, <2>4
  <2> QED
    BY <1>2, <2>1, <2>5
<1>11. n \in S
  <2> HIDE DEF S
  <2>1. \A i \in 0 .. n : i \in S
    BY <1>2, <1>9, <1>10, UpTo
  <2> QED
    BY <1>2, <2>1
<1>12. Scanned(p, s) = F[n]
  BY DEF Scanned, Folded, F
<1> QED
  BY <1>2, <1>4, <1>11, <1>12 DEF g

(* The conversion of the beginnings of a text, byte by byte.               *)
LEMMA ConversionSteps ==
  ASSUME NEW encoding, NEW max, NEW s \in Seq(Bytes)
  PROVE  LET cv(i) == Conversion(encoding, SubSeq(s, 1, i), max)
         IN  /\ Len(s) \in Nat
             /\ cv(0) = Unconverted
             /\ cv(Len(s)) = Conversion(encoding, s, max)
             /\ \A i \in 0 .. Len(s) : cv(i) \in Conversions
             /\ \A i \in 0 .. Len(s) - 1 :
                  cv(i + 1) = ConvertedByte(encoding, max, cv(i), s[i + 1])
<1> DEFINE cv(i) == Conversion(encoding, SubSeq(s, 1, i), max)
           step == ConvertStep(encoding, max)
<1>1. Unconverted \in Conversions /\ step \in StepsOf(Conversions, Bytes)
  BY EmptySeq, ConvertStepTyped DEF Conversions, Unconverted
<1>2. Len(s) \in Nat /\ \A i \in 1 .. Len(s) : s[i] \in Bytes
  BY ElementOfSeq, LenProperties
<1> HIDE DEF step
<1>3. /\ cv(0) = Unconverted
      /\ \A i \in 0 .. Len(s) : cv(i) \in Conversions
      /\ \A i \in 1 .. Len(s) : cv(i) = step[<<cv(i - 1), s[i]>>]
  BY <1>1, RanSteps DEF Conversion, step
<1>4. ASSUME NEW i \in 0 .. Len(s) - 1
      PROVE  cv(i + 1) = ConvertedByte(encoding, max, cv(i), s[i + 1])
  <2> HIDE DEF cv
  <2>1. i + 1 \in 1 .. Len(s) /\ i + 1 - 1 = i /\ i \in 0 .. Len(s)
    BY <1>2
  <2>2. cv(i + 1) = step[<<cv(i), s[i + 1]>>]
    BY <1>3, <2>1
  <2>3. cv(i) \in Conversions /\ s[i + 1] \in Bytes
    BY <1>2, <1>3, <2>1
  <2> QED
    BY <2>2, <2>3 DEF step, ConvertStep
<1>5. cv(Len(s)) = Conversion(encoding, s, max)
  BY Beginnings
<1> QED
  BY <1>2, <1>3, <1>4, <1>5

(* How much it has used, and when it stopped.                              *)
Consumed(encoding, max, c, n) ==
  /\ Len(c.chars) <= c.used /\ c.used <= n
  /\ c.half => c.used < n
  /\ encoding # "utf8" => ~c.half /\ c.why = "done"
  /\ c.why = "done" =>
       IF c.half THEN c.used = n - 1 /\ Len(c.chars) # max
       ELSE Len(c.chars) = max \/ c.used = n

(* It uses as many bytes as it makes characters, or more, all but the first*)
(* half of a character, until it has enough characters or is stuck.        *)
LEMMA ConversionConsumes ==
  ASSUME NEW encoding, NEW max, NEW s \in Seq(Bytes)
  PROVE  \A i \in 0 .. Len(s) :
           Consumed(encoding, max,
                    Conversion(encoding, SubSeq(s, 1, i), max), i)
<1> DEFINE cv(i) == Conversion(encoding, SubSeq(s, 1, i), max)
           S == {i \in 0 .. Len(s) : Consumed(encoding, max, cv(i), i)}
<1>1. /\ Len(s) \in Nat
      /\ cv(0) = Unconverted
      /\ \A i \in 0 .. Len(s) : cv(i) \in Conversions
      /\ \A i \in 0 .. Len(s) - 1 :
           cv(i + 1) = ConvertedByte(encoding, max, cv(i), s[i + 1])
  BY ConversionSteps
<1> HIDE DEF cv
<1>2. 0 \in S
  BY <1>1 DEF Consumed, Unconverted
<1>3. ASSUME NEW i \in 0 .. Len(s) - 1, i \in S
      PROVE  i + 1 \in S
  <2> DEFINE c == cv(i)
             d == cv(i + 1)
             b == s[i + 1]
  <2>1. c \in Conversions /\ Consumed(encoding, max, c, i) /\ i \in Nat
    BY <1>1, <1>3
  <2>2. d = ConvertedByte(encoding, max, c, b)
    BY <1>1
  <2>3. /\ c.chars \in Seq(Chars) /\ c.used \in Nat /\ c.half \in BOOLEAN
        /\ c.why \in {"done", "EILSEQ"}
        /\ Len(c.chars) \in Nat
        /\ Len(Append(c.chars, "u")) = Len(c.chars) + 1
        /\ Len(Append(c.chars, b)) = Len(c.chars) + 1
    <3>1. c.chars \in Seq(Chars)
      BY <2>1 DEF Conversions
    <3>2. b \in Chars
      BY <1>1, ElementOfSeq DEF Bytes
    <3> QED
      BY <2>1, <3>1, <3>2, AppendProperties, LenProperties DEF Conversions, Chars
  <2> HIDE DEF c, d, b
  <2>4. Consumed(encoding, max, d, i + 1)
    BY <2>1, <2>2, <2>3 DEF Consumed, ConvertedByte, Conversions
  <2> QED
    BY <1>1, <2>4 DEF d
<1> HIDE DEF S
<1>4. \A i \in 0 .. Len(s) : i \in S
  BY <1>1, <1>2, <1>3, UpTo
<1> QED
  BY <1>4 DEF S, cv

(* What is converted of a text stays.                                      *)
LEMMA ConversionGrows ==
  ASSUME NEW encoding, NEW max, NEW s \in Seq(Bytes), NEW i \in 0 .. Len(s)
  PROVE  LET c == Conversion(encoding, SubSeq(s, 1, i), max)
             d == Conversion(encoding, s, max)
         IN  /\ Len(c.chars) <= Len(d.chars)
             /\ c.chars = SubSeq(d.chars, 1, Len(c.chars))
<1> DEFINE cv(j) == Conversion(encoding, SubSeq(s, 1, j), max)
           c == cv(i)
           n == Len(c.chars)
           Grown(d) == n <= Len(d.chars) /\ \A k \in 1 .. n : d.chars[k] = c.chars[k]
           S == {j \in 0 .. Len(s) - i : Grown(cv(i + j))}
<1>1. /\ Len(s) \in Nat
      /\ cv(Len(s)) = Conversion(encoding, s, max)
      /\ \A j \in 0 .. Len(s) : cv(j) \in Conversions
      /\ \A j \in 0 .. Len(s) - 1 :
           cv(j + 1) = ConvertedByte(encoding, max, cv(j), s[j + 1])
  BY ConversionSteps
<1> HIDE DEF cv
<1>2. c.chars \in Seq(Chars) /\ n \in Nat
  BY <1>1, LenProperties DEF Conversions
<1> HIDE DEF c, n
<1>3. 0 \in S
  BY <1>1, <1>2 DEF c, n
<1>4. ASSUME NEW j \in 0 .. Len(s) - i - 1, j \in S
      PROVE  j + 1 \in S
  <2> DEFINE d == cv(i + j)
             e == cv(i + j + 1)
             b == s[i + j + 1]
  <2>1. /\ i + j \in 0 .. Len(s) - 1 /\ i + j \in 0 .. Len(s)
        /\ i + (j + 1) = i + j + 1 /\ j + 1 \in 0 .. Len(s) - i
        /\ i + j + 1 \in 1 .. Len(s)
    BY <1>1
  <2>2. d \in Conversions /\ e = ConvertedByte(encoding, max, d, b) /\ b \in Chars
    BY <1>1, <2>1, ElementOfSeq DEF Bytes
  <2>3. Grown(d)
    BY <1>4
  <2> HIDE DEF d, e, b
  <2>4. ASSUME NEW x \in Chars
        PROVE  /\ Len(Append(d.chars, x)) = Len(d.chars) + 1
               /\ Len(d.chars) \in Nat
               /\ \A k \in 1 .. Len(d.chars) : Append(d.chars, x)[k] = d.chars[k]
    BY <2>2, AppendProperties, LenProperties DEF Conversions
  <2>5. \/ e.chars = d.chars
        \/ \E x \in Chars : e.chars = Append(d.chars, x)
    BY <2>2 DEF ConvertedByte, Conversions, Chars
  <2>6. Grown(e)
    <3>1. CASE e.chars = d.chars
      BY <3>1, <2>3
    <3>2. ASSUME NEW x \in Chars, e.chars = Append(d.chars, x)
          PROVE  Grown(e)
      BY <3>2, <2>3, <2>4, <1>2
    <3> QED
      BY <3>1, <3>2, <2>5
  <2> QED
    BY <2>1, <2>6 DEF e
<1>5. Grown(cv(Len(s)))
  <2>1. Len(s) - i \in Nat /\ i + (Len(s) - i) = Len(s)
    BY <1>1
  <2> HIDE DEF S
  <2>2. \A j \in 0 .. Len(s) - i : j \in S
    BY <1>3, <1>4, <2>1, UpTo
  <2>3. Len(s) - i \in S
    BY <2>1, <2>2
  <2> QED
    BY <2>1, <2>3 DEF S
<1> DEFINE w == cv(Len(s)).chars
<1>6. w \in Seq(Chars) /\ n <= Len(w) /\ Len(w) \in Nat
  <2>1. w \in Seq(Chars)
    BY <1>1 DEF Conversions
  <2> QED
    BY <1>5, <2>1, LenProperties
<1>7. \A k \in 1 .. n : w[k] = c.chars[k]
  BY <1>5
<1> HIDE DEF w
<1>8. /\ SubSeq(w, 1, n) \in Seq(Chars) /\ Len(SubSeq(w, 1, n)) = n
      /\ \A k \in 1 .. n : SubSeq(w, 1, n)[k] = w[k]
  BY <1>2, <1>6, SubSeqProperties
<1>9. c.chars = SubSeq(w, 1, n)
  BY <1>2, <1>7, <1>8, SeqEqual DEF n
<1> QED
  BY <1>1, <1>6, <1>9 DEF w, n, c, cv

(* One more element, after two sequences.                                  *)
LEMMA ConcatAppend ==
  ASSUME NEW C, NEW s \in Seq(C), NEW t \in Seq(C), NEW c \in C
  PROVE  s \o Append(t, c) = Append(s \o t, c)
<1> DEFINE u == Append(t, c)
           v == s \o t
           a == s \o u
           b == Append(v, c)
           m == Len(s)
           n == Len(t)
<1>1. m \in Nat /\ n \in Nat
  BY LenProperties
<1>2. /\ u \in Seq(C) /\ Len(u) = n + 1 /\ u[n + 1] = c
      /\ \A i \in 1 .. n : u[i] = t[i]
  BY AppendProperties
<1>3. /\ v \in Seq(C) /\ Len(v) = m + n
      /\ \A i \in 1 .. m + n : v[i] = IF i <= m THEN s[i] ELSE t[i - m]
  BY ConcatProperties
<1> HIDE DEF u, v
<1>4. /\ a \in Seq(C) /\ Len(a) = m + (n + 1)
      /\ \A i \in 1 .. m + (n + 1) :
           a[i] = IF i <= m THEN s[i] ELSE u[i - m]
  <2>1. /\ a \in Seq(C) /\ Len(a) = Len(s) + Len(u)
        /\ \A i \in 1 .. Len(s) + Len(u) :
             a[i] = IF i <= Len(s) THEN s[i] ELSE u[i - Len(s)]
    BY <1>2, ConcatProperties
  <2> HIDE DEF a
  <2> QED
    BY <1>2, <2>1
<1>5. /\ b \in Seq(C) /\ Len(b) = m + n + 1 /\ b[m + n + 1] = c
      /\ \A i \in 1 .. m + n : b[i] = v[i]
  <2>1. /\ b \in Seq(C) /\ Len(b) = Len(v) + 1 /\ b[Len(v) + 1] = c
        /\ \A i \in 1 .. Len(v) : b[i] = v[i]
    <3>1. v \in Seq(C)
      BY <1>3
    <3> QED
      BY <3>1, AppendProperties
  <2> HIDE DEF b
  <2>2. Len(v) = m + n
    BY <1>3
  <2> HIDE DEF m, n
  <2>3. b[m + n + 1] = c /\ Len(b) = m + n + 1
    BY <2>1, <2>2
  <2> QED
    BY <2>1, <2>2, <2>3, Zenon
<1> HIDE DEF a, b, m, n
<1>6. ASSUME NEW i \in 1 .. m + n + 1 PROVE a[i] = b[i]
  <2>1. CASE i <= m
    <3>1. i \in 1 .. m + n /\ i \in 1 .. m + (n + 1)
      BY <2>1, <1>1
    <3> QED
      BY <2>1, <3>1, <1>3, <1>4, <1>5
  <2>2. CASE i > m /\ i <= m + n
    <3>1. i - m \in 1 .. n /\ i \in 1 .. m + n /\ i \in 1 .. m + (n + 1)
          /\ ~(i <= m)
      BY <2>2, <1>1
    <3> QED
      BY <3>1, <1>2, <1>3, <1>4, <1>5
  <2>3. CASE i = m + n + 1
    <3>1. i - m = n + 1 /\ ~(i <= m) /\ i \in 1 .. m + (n + 1)
      BY <2>3, <1>1
    <3> QED
      BY <2>3, <3>1, <1>2, <1>4, <1>5
  <2> QED
    BY <2>1, <2>2, <2>3, <1>1
<1>7. Len(a) = Len(b) /\ Len(a) = m + n + 1
  BY <1>1, <1>4, <1>5
<1>8. a = b
  BY <1>4, <1>5, <1>6, <1>7, SeqEqual
<1> QED
  BY <1>8 DEF a, b, u, v

(* A conversion that stopped between two characters goes on from there as  *)
(* it would have in one go.                                                *)
Between(D, pos) ==
  [chars |-> D, used |-> pos, half |-> FALSE, why |-> "done"]

(* A piece that on_idle_parse() converts is what a conversion in one go has*)
(* there.                                                                  *)
LEMMA PieceConverted ==
  ASSUME NEW encoding, NEW max, NEW s \in Seq(Bytes),
         NEW m \in 0 .. Len(s), NEW pos \in 0 .. m, NEW D \in Seq(Chars),
         Conversion(encoding, SubSeq(s, 1, pos), Len(s)) = Between(D, pos)
  PROVE  LET p == Conversion(encoding, SubSeq(s, pos + 1, m), max)
         IN  /\ p.used <= m - pos
             /\ Conversion(encoding, SubSeq(s, 1, pos + p.used), Len(s)) =
                  Between(D \o p.chars, pos + p.used)
<1> DEFINE t == SubSeq(s, pos + 1, m)
           n == m - pos
           cv(i) == Conversion(encoding, SubSeq(s, 1, i), Len(s))
           pv(i) == Conversion(encoding, SubSeq(t, 1, i), max)
           Follows(k, p) ==
             /\ Consumed(encoding, max, p, k)
             /\ p.half /\ p.why = "done" => t[k] = "l" /\ encoding = "utf8"
             /\ cv(pos + p.used) = Between(D \o p.chars, pos + p.used)
           S == {k \in 0 .. n : Follows(k, pv(k))}
<1>1. /\ Len(s) \in Nat
      /\ \A j \in 0 .. Len(s) : cv(j) \in Conversions
      /\ \A j \in 0 .. Len(s) - 1 :
           cv(j + 1) = ConvertedByte(encoding, Len(s), cv(j), s[j + 1])
  BY ConversionSteps
<1>2. \A j \in 0 .. Len(s) : Consumed(encoding, Len(s), cv(j), j)
  BY ConversionConsumes
<1>3. m \in Nat /\ pos \in Nat /\ n \in Nat /\ pos + n = m
  BY <1>1
<1>4. /\ t \in Seq(Bytes) /\ Len(t) = n
      /\ \A k \in 1 .. n : t[k] = s[pos + k] /\ t[k] \in Bytes
  <2>1. /\ t \in Seq(Bytes) /\ Len(t) = n
        /\ \A k \in 1 .. n : t[k] = s[pos + 1 + k - 1]
    BY <1>1, <1>3, SubSeqProperties
  <2>2. \A k \in 1 .. n : pos + 1 + k - 1 = pos + k
    BY <1>3
  <2> HIDE DEF t, n
  <2>3. \A k \in 1 .. n : t[k] = s[pos + k]
    BY <2>1, <2>2
  <2>4. \A k \in 1 .. n : t[k] \in Bytes
    BY <2>1, ElementOfSeq
  <2> QED
    BY <2>1, <2>3, <2>4
<1> HIDE DEF t
<1>5. /\ pv(0) = Unconverted
      /\ pv(n) = Conversion(encoding, t, max)
      /\ \A j \in 0 .. n : pv(j) \in Conversions
      /\ \A j \in 0 .. n - 1 :
           pv(j + 1) = ConvertedByte(encoding, max, pv(j), t[j + 1])
  <2>1. t \in Seq(Bytes) /\ Len(t) = n
    BY <1>4
  <2> HIDE DEF n
  <2> QED
    BY <2>1, ConversionSteps
<1>6. \A j \in 0 .. n : Consumed(encoding, max, pv(j), j)
  BY <1>4, ConversionConsumes
<1>7. cv(pos) = Between(D, pos)
  OBVIOUS
<1> HIDE DEF cv, pv, n
<1>8. 0 \in S
  <2>1. D \o <<>> = D
    BY ConcatEmptySeq
  <2>2. pv(0).used = 0 /\ pv(0).chars = <<>> /\ ~pv(0).half
    BY <1>5 DEF Unconverted
  <2>3. pos + pv(0).used = pos /\ D \o pv(0).chars = D /\ 0 \in 0 .. n
    BY <1>3, <2>1, <2>2
  <2>4. Follows(0, pv(0))
    BY <1>6, <1>7, <2>2, <2>3
  <2> QED
    BY <2>3, <2>4
<1>9. ASSUME NEW k \in 0 .. n - 1, k \in S
      PROVE  k + 1 \in S
  <2> DEFINE p == pv(k)
             q == pv(k + 1)
             b == t[k + 1]
             e == D \o p.chars
  <2>1. /\ k \in Nat /\ k + 1 \in 0 .. n /\ k \in 0 .. n /\ k + 1 \in 1 .. n
        /\ pos + k + 1 = pos + (k + 1)
        /\ pos + k \in 0 .. Len(s) - 1 /\ pos + k + 1 \in 0 .. Len(s)
    BY <1>1, <1>3
  <2>2. /\ p \in Conversions /\ Follows(k, p)
        /\ Consumed(encoding, max, q, k + 1)
    BY <1>5, <1>6, <1>9, <2>1
  <2>3. q = ConvertedByte(encoding, max, p, b) /\ b \in Bytes /\ b \in Chars
    BY <1>4, <1>5, <2>1 DEF Bytes
  <2>4. cv(pos + k + 1) =
          ConvertedByte(encoding, Len(s), cv(pos + k), s[pos + k + 1])
        /\ s[pos + k + 1] = b
    BY <1>1, <1>4, <2>1, SMTT(20)
  <2>5. \A c \in Chars : D \o Append(p.chars, c) = Append(e, c)
    <3> DEFINE w == p.chars
    <3>1. w \in Seq(Chars)
      BY <2>2 DEF Conversions
    <3> HIDE DEF w
    <3>2. \A c \in Chars : D \o Append(w, c) = Append(D \o w, c)
      BY <3>1, ConcatAppend
    <3> QED
      BY <3>2 DEF w
  <2>6. p.used \in Nat /\ p.half \in BOOLEAN
    BY <2>2 DEF Conversions
  <2> HIDE DEF p, q, b, e
  <2>7. CASE p.why # "done" \/ Len(p.chars) = max
    <3>1. q = p
      BY <2>3, <2>7 DEF ConvertedByte
    <3>2. ~(p.half /\ p.why = "done")
      BY <2>2, <2>7 DEF Consumed
    <3>3. Follows(k + 1, q)
      BY <2>2, <3>1, <3>2
    <3> QED
      BY <2>1, <3>3 DEF q
  <2>8. CASE p.why = "done" /\ Len(p.chars) # max /\ p.half
    <3>1. p.used = k - 1 /\ t[k] = "l" /\ encoding = "utf8" /\ k \in 1 .. n
      BY <2>1, <2>2, <2>6, <2>8 DEF Consumed
    <3>2. /\ pos + p.used = pos + k - 1 /\ pos + k - 1 + 1 = pos + k
          /\ pos + k - 1 \in 0 .. Len(s) - 1 /\ pos + k - 1 \in 0 .. Len(s)
      BY <1>1, <1>3, <2>1, <3>1
    <3>3. cv(pos + k - 1) = Between(e, pos + k - 1)
      BY <2>2, <3>2 DEF p, e
    <3>4. Len(e) # Len(s)
      <4>1. Len(e) <= pos + k - 1
        BY <1>2, <3>2, <3>3 DEF Consumed, Between
      <4>2. p.chars \in Seq(Chars)
        BY <2>2 DEF Conversions
      <4>3. Len(e) \in Nat
        BY <4>2, ConcatProperties, LenProperties DEF e
      <4> QED
        BY <1>1, <3>2, <4>1, <4>3
    <3>5. s[pos + k] = "l"
      BY <1>4, <3>1
    <3>6. cv(pos + k) = [Between(e, pos + k - 1) EXCEPT !.half = TRUE]
      <4>1. cv(pos + k - 1 + 1) =
              ConvertedByte(encoding, Len(s), cv(pos + k - 1), s[pos + k - 1 + 1])
        BY <1>1, <3>2
      <4>2. cv(pos + k) = ConvertedByte(encoding, Len(s),
                                        Between(e, pos + k - 1), "l")
        <5> DEFINE i == pos + k - 1
                   j == pos + k
        <5>1. i + 1 = j
          BY <3>2
        <5>2. cv(i + 1) = ConvertedByte(encoding, Len(s), cv(i), s[i + 1])
          BY <4>1
        <5>3. cv(i) = Between(e, i) /\ s[j] = "l"
          BY <3>3, <3>5
        <5> HIDE DEF i, j, cv, e
        <5>4. cv(j) = ConvertedByte(encoding, Len(s), Between(e, i), "l")
          BY <5>1, <5>2, <5>3
        <5> QED
          BY <5>4 DEF i, j
      <4> QED
        BY <3>1, <3>4, <4>2 DEF ConvertedByte, Between
    <3>7. CASE b = "t"
      <4>1. q = [p EXCEPT !.chars = Append(@, "u"), !.used = @ + 2,
                          !.half = FALSE]
        BY <2>3, <2>8, <3>7 DEF ConvertedByte
      <4>2. q.used = k + 1 /\ q.chars = Append(p.chars, "u") /\ ~q.half
        <5>1. q.used = p.used + 2 /\ q.chars = Append(p.chars, "u") /\ ~q.half
          BY <2>2, <4>1 DEF Conversions
        <5>2. p.used + 2 = k + 1
          BY <2>1, <3>1
        <5> QED
          BY <5>1, <5>2
      <4>3. cv(pos + k + 1) = Between(Append(e, "u"), pos + k + 1)
        <5>1. pos + k - 1 + 2 = pos + k + 1
          BY <1>3, <2>1
        <5> QED
          BY <2>4, <3>4, <3>6, <3>7, <5>1 DEF ConvertedByte, Between
      <4>4. D \o q.chars = Append(e, "u") /\ pos + q.used = pos + k + 1
        BY <2>1, <2>5, <4>2 DEF Chars
      <4>5. Follows(k + 1, q)
        BY <2>2, <4>2, <4>3, <4>4
      <4> QED
        BY <2>1, <4>5 DEF q
    <3>8. CASE b # "t"
      <4>1. q = [p EXCEPT !.why = "EILSEQ"]
        BY <2>3, <2>8, <3>8 DEF ConvertedByte
      <4>2. q.used = p.used /\ q.chars = p.chars /\ q.why # "done"
        BY <2>2, <4>1 DEF Conversions
      <4>3. Follows(k + 1, q)
        BY <2>2, <4>2
      <4> QED
        BY <2>1, <4>3 DEF q
    <3> QED
      BY <3>7, <3>8
  <2>9. CASE p.why = "done" /\ Len(p.chars) # max /\ ~p.half
    <3>1. p.used = k
      BY <2>1, <2>2, <2>9 DEF Consumed
    <3>2. cv(pos + k) = Between(e, pos + k)
      BY <2>2, <3>1 DEF p, e
    <3>3. CASE encoding = "utf8" /\ b = "l"
      <4>1. q = [p EXCEPT !.half = TRUE]
        BY <2>3, <2>9, <3>3 DEF ConvertedByte
      <4>2. q.used = p.used /\ q.chars = p.chars
        BY <2>2, <4>1 DEF Conversions
      <4>3. t[k + 1] = "l"
        BY <3>3 DEF b
      <4>4. Follows(k + 1, q)
        BY <2>2, <3>3, <4>2, <4>3
      <4> QED
        BY <2>1, <4>4 DEF q
    <3>4. CASE encoding = "utf8" /\ b = "t"
      <4>1. q = [p EXCEPT !.why = "EILSEQ"]
        BY <2>3, <2>9, <3>4 DEF ConvertedByte
      <4>2. q.used = p.used /\ q.chars = p.chars /\ q.why # "done"
        BY <2>2, <4>1 DEF Conversions
      <4>3. Follows(k + 1, q)
        BY <2>2, <4>2
      <4> QED
        BY <2>1, <4>3 DEF q
    <3>5. CASE ~(encoding = "utf8" /\ b \in {"l", "t"})
      <4>1. q = [p EXCEPT !.chars = Append(@, b), !.used = @ + 1]
        BY <2>3, <2>9, <3>5 DEF ConvertedByte
      <4>2. q.used = k + 1 /\ q.chars = Append(p.chars, b) /\ ~q.half
        BY <2>1, <2>2, <2>9, <3>1, <4>1 DEF Conversions
      <4>3. Len(e) # Len(s)
        <5>1. Len(e) <= pos + k
          BY <1>2, <2>1, <3>2 DEF Consumed, Between
        <5>2. p.chars \in Seq(Chars)
          BY <2>2 DEF Conversions
        <5>3. Len(e) \in Nat
          BY <5>2, ConcatProperties, LenProperties DEF e
        <5> QED
          BY <1>1, <2>1, <5>1, <5>3
      <4>4. cv(pos + k + 1) = Between(Append(e, b), pos + k + 1)
        <5>1. cv(pos + k + 1) = ConvertedByte(encoding, Len(s),
                                              Between(e, pos + k), b)
          BY <2>4, <3>2
        <5> QED
          BY <3>5, <4>3, <5>1 DEF ConvertedByte, Between
      <4>5. D \o q.chars = Append(e, b) /\ pos + q.used = pos + k + 1
        BY <2>1, <2>3, <2>5, <4>2
      <4>6. Follows(k + 1, q)
        BY <2>2, <4>2, <4>4, <4>5
      <4> QED
        BY <2>1, <4>6 DEF q
    <3> QED
      BY <3>3, <3>4, <3>5
  <2> QED
    BY <2>6, <2>7, <2>8, <2>9
<1>10. n \in S
  <2> HIDE DEF S
  <2>1. \A k \in 0 .. n : k \in S
    BY <1>3, <1>8, <1>9, UpTo
  <2> QED
    BY <1>3, <2>1
<1>11. Follows(n, pv(n))
  BY <1>10
<1>12. pv(n).used <= n
  BY <1>11 DEF Consumed
<1> QED
  BY <1>5, <1>11, <1>12 DEF cv, n, t

----------------------------------------------------------------------------
(* The rows of a text *)

(* The quotes up to a place.                                               *)
QuotesIn(text, i) == {j \in 1 .. i : text[j] = "q"}

(* The rows that end at a place or before it.                              *)
EndsBy(text, i) == {d \in RowEnds(text) : d <= i}

(* They are counted one by one.                                            *)
LEMMA QuotesCount ==
  ASSUME NEW text, NEW i \in Nat
  PROVE  /\ Cardinality(QuotesIn(text, 0)) = 0
         /\ Cardinality(QuotesIn(text, i)) \in Nat
         /\ Cardinality(QuotesIn(text, i + 1)) =
              Cardinality(QuotesIn(text, i)) +
                IF text[i + 1] = "q" THEN 1 ELSE 0
<1> DEFINE Q == QuotesIn(text, i)
<1>1. IsFiniteSet(1 .. i)
  BY FS_Interval
<1>2. Q \subseteq 1 .. i
  BY DEF QuotesIn
<1>3. IsFiniteSet(Q) /\ Cardinality(Q) \in Nat
  BY <1>1, <1>2, FS_Subset, FS_CardinalityType
<1>4. QuotesIn(text, 0) = {}
  BY DEF QuotesIn
<1>5. CASE text[i + 1] = "q"
  <2>1. QuotesIn(text, i + 1) = Q \cup {i + 1} /\ i + 1 \notin Q
    BY <1>5 DEF QuotesIn
  <2> HIDE DEF Q
  <2>2. Cardinality(Q \cup {i + 1}) = Cardinality(Q) + 1
    BY <1>3, <2>1, FS_AddElement
  <2> QED
    BY <1>3, <1>4, <1>5, <2>1, <2>2, FS_EmptySet DEF Q
<1>6. CASE text[i + 1] # "q"
  <2>1. QuotesIn(text, i + 1) = Q
    BY <1>6 DEF QuotesIn
  <2> QED
    BY <1>3, <1>4, <1>6, <2>1, FS_EmptySet
<1> QED
  BY <1>5, <1>6

(* Where a line ends.                                                      *)
LEMMA EdgesAre ==
  ASSUME NEW text \in Seq(Chars)
  PROVE  /\ Edges(text) \subseteq 0 .. Len(text) + 1
         /\ 0 \in Edges(text) /\ Len(text) + 1 \in Edges(text)
         /\ \A i \in 1 .. Len(text) :
              i \in Edges(text) <=>
                /\ text[i] = "n"
                /\ Cardinality(QuotesIn(text, i)) % 2 = 0
<1>1. Len(text) \in Nat /\ DOMAIN text = 1 .. Len(text)
  BY LenProperties
<1>2. Edges(text) =
        {0, Len(text) + 1} \cup
          {i \in 1 .. Len(text) :
             text[i] = "n" /\ Cardinality(QuotesIn(text, i)) % 2 = 0}
  BY <1>1 DEF Edges, QuotesIn
<1> HIDE DEF QuotesIn
<1> QED
  BY <1>1, <1>2

(* They are counted one by one, up to the end of the text.                 *)
LEMMA EndsCount ==
  ASSUME NEW text \in Seq(Chars), NEW i \in Nat
  PROVE  /\ IsFiniteSet(RowEnds(text))
         /\ RowEnds(text) \subseteq 1 .. Len(text) + 1
         /\ Cardinality(EndsBy(text, 0)) = 0
         /\ Cardinality(EndsBy(text, i)) \in Nat
         /\ Cardinality(EndsBy(text, i + 1)) =
              Cardinality(EndsBy(text, i)) +
                IF i + 1 \in RowEnds(text) THEN 1 ELSE 0
         /\ EndsBy(text, Len(text) + 1) = RowEnds(text)
<1> DEFINE R == EndsBy(text, i)
<1>1. Len(text) \in Nat
  BY LenProperties
<1>2. RowEnds(text) \subseteq 1 .. Len(text) + 1
  BY <1>1, EdgesAre DEF RowEnds
<1>3. IsFiniteSet(RowEnds(text))
  <2>1. Len(text) + 1 \in Int
    BY <1>1
  <2>2. IsFiniteSet(1 .. Len(text) + 1)
    BY <2>1, FS_Interval
  <2> QED
    BY <1>2, <2>2, FS_Subset
<1>4. R \subseteq RowEnds(text)
  BY DEF EndsBy
<1>5. IsFiniteSet(R) /\ Cardinality(R) \in Nat
  BY <1>3, <1>4, FS_Subset, FS_CardinalityType
<1>6. EndsBy(text, 0) = {}
  BY <1>1, <1>2 DEF EndsBy
<1>7. EndsBy(text, Len(text) + 1) = RowEnds(text)
  BY <1>1, <1>2 DEF EndsBy
<1>8. CASE i + 1 \in RowEnds(text)
  <2>1. EndsBy(text, i + 1) = R \cup {i + 1} /\ i + 1 \notin R
    BY <1>1, <1>2, <1>8 DEF EndsBy
  <2> HIDE DEF R
  <2>2. Cardinality(R \cup {i + 1}) = Cardinality(R) + 1
    BY <1>5, <2>1, FS_AddElement
  <2>3. Cardinality(R) + 1 \in Nat
    BY <1>5
  <2> QED
    BY <1>2, <1>3, <1>5, <1>6, <1>7, <1>8, <2>1, <2>2, <2>3, FS_EmptySet
    DEF R
<1>9. CASE i + 1 \notin RowEnds(text)
  <2>1. EndsBy(text, i + 1) = R
    BY <1>1, <1>2, <1>9 DEF EndsBy
  <2>2. Cardinality(R) + 0 = Cardinality(R)
    BY <1>5
  <2>3. Cardinality(EndsBy(text, 0)) = 0
    BY <1>6, FS_EmptySet
  <2> QED
    BY <1>2, <1>3, <1>5, <1>7, <1>9, <2>1, <2>2, <2>3
<1> QED
  BY <1>8, <1>9

(* The row that ends at a place is the one with its number.                *)
LEMMA RowsByEnd ==
  ASSUME NEW text \in Seq(Chars), NEW e \in RowEnds(text)
  PROVE  LET k == Cardinality(EndsBy(text, e))
         IN  /\ k \in 1 .. Cardinality(RowEnds(text))
             /\ RowsOf(text)[k] = FieldsOf(LineBefore(text, e))
<1> DEFINE rank(d) == Cardinality(EndsBy(text, d))
           nth(k) == CHOOSE d \in RowEnds(text) : rank(d) = k
<1>1. IsFiniteSet(RowEnds(text)) /\ RowEnds(text) \subseteq Nat
  <2>1. Len(text) \in Nat
    BY LenProperties
  <2> QED
    BY <2>1, EndsCount
<1>2. ASSUME NEW d \in Nat
      PROVE  /\ IsFiniteSet(EndsBy(text, d))
             /\ EndsBy(text, d) \subseteq RowEnds(text)
             /\ rank(d) \in Nat /\ rank(d) <= Cardinality(RowEnds(text))
  <2>1. EndsBy(text, d) \subseteq RowEnds(text)
    BY DEF EndsBy
  <2> QED
    BY <1>1, <2>1, FS_Subset, FS_CardinalityType
<1>3. ASSUME NEW c \in RowEnds(text), NEW d \in RowEnds(text), c < d
      PROVE  rank(c) # rank(d)
  <2>1. EndsBy(text, c) \subseteq EndsBy(text, d) /\ c \in Nat /\ d \in Nat
    BY <1>1, <1>3 DEF EndsBy
  <2>2. d \in EndsBy(text, d) /\ d \notin EndsBy(text, c)
    BY <1>1, <1>3 DEF EndsBy
  <2> QED
    BY <1>2, <2>1, <2>2, FS_Subset
<1>4. ASSUME NEW d \in RowEnds(text), rank(d) = rank(e) PROVE d = e
  <2>1. d \in Nat /\ e \in Nat
    BY <1>1
  <2>2. ~(d < e) /\ ~(e < d)
    BY <1>3, <1>4
  <2> QED
    BY <2>1, <2>2
<1>5. rank(e) # 0
  <2>1. e \in Nat /\ e \in EndsBy(text, e)
    BY <1>1 DEF EndsBy
  <2> QED
    BY <1>2, <2>1, FS_EmptySet
<1>6. nth(rank(e)) = e
  <2> HIDE DEF rank
  <2> QED
    BY <1>4
<1>7. rank(e) \in 1 .. Cardinality(RowEnds(text))
  BY <1>1, <1>2, <1>5
<1>8. RowsOf(text) = [k \in 1 .. Cardinality(RowEnds(text)) |->
                        FieldsOf(LineBefore(text, nth(k)))]
  BY DEF RowsOf, EndsBy
<1> HIDE DEF rank, nth
<1>9. RowsOf(text)[rank(e)] = FieldsOf(LineBefore(text, e))
  BY <1>6, <1>7, <1>8
<1> QED
  BY <1>7, <1>9 DEF rank

(* The scan of the beginnings of a text, character by character.           *)
LEMMA ScanSteps ==
  ASSUME NEW text \in Seq(Chars)
  PROVE  LET sc(i) == Scan(Unscanned, SubSeq(text, 1, i))
         IN  /\ Len(text) \in Nat
             /\ sc(0) = Unscanned
             /\ sc(Len(text)) = Scan(Unscanned, text)
             /\ \A i \in 0 .. Len(text) : sc(i) \in Scans
             /\ \A i \in 0 .. Len(text) - 1 :
                  sc(i + 1) = ScannedChar(sc(i), text[i + 1])
<1> DEFINE sc(i) == Scan(Unscanned, SubSeq(text, 1, i))
<1>1. Unscanned \in Scans /\ ScanStep \in StepsOf(Scans, Chars)
  BY EmptySeq, ScanStepTyped DEF Scans, Unscanned
<1>2. Len(text) \in Nat /\ \A i \in 1 .. Len(text) : text[i] \in Chars
  BY ElementOfSeq, LenProperties
<1>3. /\ sc(0) = Unscanned
      /\ \A i \in 0 .. Len(text) : sc(i) \in Scans
      /\ \A i \in 1 .. Len(text) : sc(i) = ScanStep[<<sc(i - 1), text[i]>>]
  BY <1>1, RanSteps DEF Scan
<1>4. ASSUME NEW i \in 0 .. Len(text) - 1
      PROVE  sc(i + 1) = ScannedChar(sc(i), text[i + 1])
  <2> HIDE DEF sc
  <2>1. i + 1 \in 1 .. Len(text) /\ i + 1 - 1 = i /\ i \in 0 .. Len(text)
    BY <1>2
  <2>2. sc(i + 1) = ScanStep[<<sc(i), text[i + 1]>>]
    BY <1>3, <2>1
  <2>3. sc(i) \in Scans /\ text[i + 1] \in Chars
    BY <1>2, <1>3, <2>1
  <2> QED
    BY <2>2, <2>3 DEF ScanStep
<1>5. sc(Len(text)) = Scan(Unscanned, text)
  BY Beginnings
<1> QED
  BY <1>2, <1>3, <1>4, <1>5

(* The edge before a place.                                                *)
LEMMA LastEdge ==
  ASSUME NEW text, NEW b, NEW e, b \in Edges(text), b < e,
         Edges(text) \subseteq Nat, \A i \in Edges(text) : i < e => i <= b
  PROVE  LineBefore(text, e) = SubSeq(text, b + 1, e - 1)
<1> DEFINE T == {i \in Edges(text) : i < e}
<1>1. b \in T /\ \A i \in T : b >= i
  OBVIOUS
<1>2. ASSUME NEW x \in T, \A i \in T : x >= i
      PROVE  x = b
  <2>1. x >= b /\ b >= x /\ x \in Nat /\ b \in Nat
    BY <1>1, <1>2
  <2> QED
    BY <2>1
<1> HIDE DEF T
<1>3. Max(T) = b
  BY <1>1, <1>2 DEF Max
<1> QED
  BY <1>3 DEF LineBefore, T

(* After i characters the scan has the rows that end there or before, and  *)
(* the beginning of the next line.                                         *)
LineSoFar(text, i, line) ==
  \E b \in Edges(text) :
    /\ b <= i /\ \A e \in Edges(text) : e < i + 1 => e <= b
    /\ line = SubSeq(text, b + 1, i)

(* The rows are those that end by i, each at its rank.                     *)
RowsSoFar(text, i, found) ==
  /\ Len(found) = Cardinality(EndsBy(text, i))
  /\ \A k \in 1 .. Len(found) :
       \E e \in EndsBy(text, i) :
         /\ Cardinality(EndsBy(text, e)) = k
         /\ found[k] = FieldsOf(LineBefore(text, e))

(* A scan that is where it should be after i characters.                   *)
Agrees(text, i, p) ==
  /\ p.quotes = (Cardinality(QuotesIn(text, i)) % 2 # 0)
  /\ LineSoFar(text, i, p.line)
  /\ RowsSoFar(text, i, p.rows)

(* A line that is not empty makes a row, an empty one makes none.          *)
LEMMA RowAtEdge ==
  ASSUME NEW text \in Seq(Chars), NEW i \in 0 .. Len(text),
         NEW line, LineSoFar(text, i, line), i + 1 \in Edges(text)
  PROVE  /\ line \in Seq(Chars)
         /\ i + 1 \in RowEnds(text) <=> line # <<>>
         /\ line = LineBefore(text, i + 1)
<1>1. Len(text) \in Nat /\ Edges(text) \subseteq 0 .. Len(text) + 1
  BY EdgesAre, LenProperties
<1>2. PICK b \in Edges(text) :
        /\ b <= i /\ \A e \in Edges(text) : e < i + 1 => e <= b
        /\ line = SubSeq(text, b + 1, i)
  BY DEF LineSoFar
<1>3. b \in Nat /\ b < i + 1 /\ i + 1 - 1 = i
  BY <1>1, <1>2
<1>4. LineBefore(text, i + 1) = SubSeq(text, b + 1, i)
  <2>1. Edges(text) \subseteq Nat
    BY <1>1
  <2> DEFINE f == i + 1
  <2>2. b < f /\ (\A e \in Edges(text) : e < f => e <= b) /\ f - 1 = i
    BY <1>2, <1>3
  <2> HIDE DEF f
  <2>3. LineBefore(text, f) = SubSeq(text, b + 1, f - 1)
    BY <2>1, <2>2, LastEdge
  <2> QED
    BY <2>2, <2>3 DEF f
<1>5. /\ line \in Seq(Chars)
      /\ Len(line) = IF b + 1 <= i THEN i - b ELSE 0
  <2>1. CASE b + 1 <= i
    <3>1. b + 1 \in 1 .. Len(text) /\ i \in b + 1 .. Len(text)
          /\ i - (b + 1) + 1 = i - b
      BY <1>1, <1>3, <2>1
    <3>2. line \in Seq(Chars) /\ Len(line) = i - (b + 1) + 1
      BY <1>1, <1>2, <1>3, <2>1, <3>1, SubSeqProperties
    <3> QED
      BY <2>1, <3>1, <3>2
  <2>2. CASE ~(b + 1 <= i)
    <3>1. line = <<>>
      BY <1>2, <1>3, <2>2, SubSeqEmpty
    <3> QED
      BY <2>2, <3>1, EmptySeq
  <2> QED
    BY <2>1, <2>2
<1>6. line = <<>> <=> b = i
  <2>1. line = <<>> <=> Len(line) = 0
    BY <1>5, EmptySeq
  <2> QED
    BY <1>2, <1>3, <1>5, <2>1
<1>7. i \in Edges(text) <=> b = i
  BY <1>2, <1>3
<1>8. i + 1 \in RowEnds(text) <=> i \notin Edges(text)
  <2>1. i + 1 # 0
    BY <1>1
  <2> QED
    BY <1>3, <2>1 DEF RowEnds
<1> QED
  BY <1>2, <1>4, <1>5, <1>6, <1>7, <1>8

(* The scan of a text is, after each character.                            *)
LEMMA ScanAgrees ==
  ASSUME NEW text \in Seq(Chars)
  PROVE  \A i \in 0 .. Len(text) :
           Agrees(text, i, Scan(Unscanned, SubSeq(text, 1, i)))
<1> DEFINE sc(i) == Scan(Unscanned, SubSeq(text, 1, i))
           n == Len(text)
           S == {i \in 0 .. n : Agrees(text, i, sc(i))}
<1>1. /\ n \in Nat
      /\ sc(0) = Unscanned
      /\ \A i \in 0 .. n : sc(i) \in Scans
      /\ \A i \in 0 .. n - 1 : sc(i + 1) = ScannedChar(sc(i), text[i + 1])
  BY ScanSteps
<1>2. /\ Edges(text) \subseteq 0 .. n + 1 /\ 0 \in Edges(text)
      /\ \A i \in 1 .. n :
           i \in Edges(text) <=>
             text[i] = "n" /\ Cardinality(QuotesIn(text, i)) % 2 = 0
  BY EdgesAre
<1>3. \A i \in 1 .. n : text[i] \in Chars
  BY <1>1, ElementOfSeq
<1> HIDE DEF sc, n
<1>4. 0 \in S
  <2>1. Unscanned.quotes = (Cardinality(QuotesIn(text, 0)) % 2 # 0)
    <3>1. Cardinality(QuotesIn(text, 0)) = 0
      BY QuotesCount
    <3>2. 0 % 2 = 0
      OBVIOUS
    <3> QED
      BY <3>1, <3>2 DEF Unscanned
  <2>2. LineSoFar(text, 0, <<>>)
    <3>1. SubSeq(text, 0 + 1, 0) = <<>>
      BY SubSeqEmpty
    <3>2. \A e \in Edges(text) : e < 0 + 1 => e <= 0
      BY <1>1, <1>2
    <3> QED
      BY <1>2, <3>1, <3>2 DEF LineSoFar
  <2>3. RowsSoFar(text, 0, <<>>)
    <3>1. Len(<<>>) = 0 /\ Cardinality(EndsBy(text, 0)) = 0
      BY EndsCount, EmptySeq
    <3> QED
      BY <3>1 DEF RowsSoFar
  <2>4. Unscanned.line = <<>> /\ Unscanned.rows = <<>>
    BY DEF Unscanned
  <2>5. Agrees(text, 0, Unscanned)
    BY <2>1, <2>2, <2>3, <2>4 DEF Agrees
  <2> QED
    BY <1>1, <2>5
<1>5. ASSUME NEW i \in 0 .. n - 1, i \in S
      PROVE  i + 1 \in S
  <2> DEFINE p == sc(i)
             q == sc(i + 1)
             c == text[i + 1]
  <2>1. /\ i \in Nat /\ i + 1 \in Nat /\ i \in 0 .. n /\ i + 1 \in 1 .. n
        /\ i + 1 \in 0 .. n /\ i + 1 # n + 1
    BY <1>1
  <2>2. p \in Scans /\ Agrees(text, i, p) /\ q = ScannedChar(p, c) /\ c \in Chars
    BY <1>1, <1>3, <1>5, <2>1
  <2>3. Cardinality(QuotesIn(text, i + 1)) =
          Cardinality(QuotesIn(text, i)) + (IF c = "q" THEN 1 ELSE 0)
        /\ Cardinality(QuotesIn(text, i)) \in Nat
    BY <2>1, QuotesCount
  <2>4. i + 1 \in Edges(text) <=> c = "n" /\ ~p.quotes
    <3>1. p.quotes = (Cardinality(QuotesIn(text, i)) % 2 # 0)
      BY <2>2 DEF Agrees
    <3>2. c = "n" => Cardinality(QuotesIn(text, i + 1)) =
                       Cardinality(QuotesIn(text, i))
      BY <2>3
    <3> QED
      BY <1>2, <2>1, <3>1, <3>2
  <2>5. LineSoFar(text, i, p.line) /\ RowsSoFar(text, i, p.rows)
    BY <2>2 DEF Agrees
  <2>6. Cardinality(EndsBy(text, i + 1)) =
          Cardinality(EndsBy(text, i)) +
            (IF i + 1 \in RowEnds(text) THEN 1 ELSE 0)
        /\ Cardinality(EndsBy(text, i)) \in Nat
    BY <2>1, EndsCount
  <2>7. EndsBy(text, i) \subseteq EndsBy(text, i + 1)
        /\ RowEnds(text) \subseteq Edges(text)
    <3>1. RowEnds(text) \subseteq Nat
      BY <1>1, <1>2 DEF RowEnds
    <3> QED
      BY <2>1, <3>1 DEF EndsBy, RowEnds
  <2>8. p.line \in Seq(Chars) /\ p.rows \in Seq(Seq(Seq(Chars)))
        /\ p.quotes \in BOOLEAN
    BY <2>2 DEF Scans
  <2> HIDE DEF p, q, c
  <2>9. CASE i + 1 \in Edges(text)
    <3>1. /\ i + 1 \in RowEnds(text) <=> p.line # <<>>
          /\ p.line = LineBefore(text, i + 1)
      BY <2>1, <2>5, <2>9, RowAtEdge DEF n
    <3>2. /\ q.quotes = p.quotes /\ q.line = <<>>
          /\ q.rows = IF p.line = <<>> THEN p.rows
                      ELSE Append(p.rows, FieldsOf(p.line))
      BY <2>2, <2>4, <2>9 DEF ScannedChar, Scans
    <3>3. q.quotes = (Cardinality(QuotesIn(text, i + 1)) % 2 # 0)
      BY <2>2, <2>3, <2>4, <2>9, <3>2 DEF Agrees
    <3>4. LineSoFar(text, i + 1, q.line)
      <4>1. SubSeq(text, i + 1 + 1, i + 1) = <<>>
        BY <2>1, SubSeqEmpty
      <4>2. \A e \in Edges(text) : e < i + 1 + 1 => e <= i + 1
        BY <1>1, <1>2, <2>1
      <4> QED
        BY <2>1, <2>9, <3>2, <4>1, <4>2 DEF LineSoFar
    <3>5. RowsSoFar(text, i + 1, q.rows)
      <4>1. CASE p.line = <<>>
        BY <2>5, <2>6, <2>7, <3>1, <3>2, <4>1 DEF RowsSoFar
      <4>2. CASE p.line # <<>>
        <5> DEFINE m == Len(p.rows)
                   row == FieldsOf(p.line)
        <5>1. /\ Len(q.rows) = m + 1 /\ m \in Nat /\ q.rows[m + 1] = row
              /\ \A k \in 1 .. m : q.rows[k] = p.rows[k]
          <6>1. row \in Seq(Seq(Chars)) /\ q.rows = Append(p.rows, row)
            BY <2>8, <3>2, <4>2, FieldsOfTyped
          <6> HIDE DEF row
          <6> QED
            BY <2>8, <6>1, AppendProperties, LenProperties
        <5>2. /\ m = Cardinality(EndsBy(text, i))
              /\ \A k \in 1 .. m :
                   \E e \in EndsBy(text, i) :
                     /\ Cardinality(EndsBy(text, e)) = k
                     /\ p.rows[k] = FieldsOf(LineBefore(text, e))
          BY <2>5 DEF RowsSoFar
        <5> HIDE DEF m
        <5>3. i + 1 \in EndsBy(text, i + 1)
          BY <2>1, <3>1, <4>2 DEF EndsBy
        <5>4. Cardinality(EndsBy(text, i + 1)) = m + 1
          BY <2>6, <3>1, <4>2, <5>2
        <5>5. ASSUME NEW k \in 1 .. m + 1
              PROVE  \E e \in EndsBy(text, i + 1) :
                       /\ Cardinality(EndsBy(text, e)) = k
                       /\ q.rows[k] = FieldsOf(LineBefore(text, e))
          <6>1. CASE k = m + 1
            BY <3>1, <5>1, <5>3, <5>4, <6>1
          <6>2. CASE k \in 1 .. m
            <7>1. PICK e \in EndsBy(text, i) :
                    /\ Cardinality(EndsBy(text, e)) = k
                    /\ p.rows[k] = FieldsOf(LineBefore(text, e))
              BY <5>2, <6>2
            <7>2. e \in EndsBy(text, i + 1)
              BY <2>7
            <7>3. q.rows[k] = p.rows[k]
              BY <5>1, <6>2
            <7> QED
              BY <7>1, <7>2, <7>3
          <6> QED
            BY <5>1, <6>1, <6>2
        <5> QED
          BY <5>1, <5>4, <5>5 DEF RowsSoFar
      <4> QED
        BY <4>1, <4>2
    <3> QED
      BY <2>1, <3>3, <3>4, <3>5 DEF Agrees, q
  <2>10. CASE i + 1 \notin Edges(text)
    <3>1. /\ q.quotes = (IF c = "q" THEN ~p.quotes ELSE p.quotes)
          /\ q.line = Append(p.line, c) /\ q.rows = p.rows
      BY <2>2, <2>4, <2>10 DEF ScannedChar, Scans
    <3>2. q.quotes = (Cardinality(QuotesIn(text, i + 1)) % 2 # 0)
      <4> DEFINE a == Cardinality(QuotesIn(text, i))
      <4>1. a \in Nat /\ p.quotes = (a % 2 # 0)
        BY <2>2, <2>3 DEF Agrees
      <4>2. Cardinality(QuotesIn(text, i + 1)) = IF c = "q" THEN a + 1 ELSE a
        BY <2>3
      <4> HIDE DEF a
      <4>3. (a + 1) % 2 # 0 <=> a % 2 = 0
        BY <4>1
      <4> QED
        BY <2>8, <3>1, <4>1, <4>2, <4>3
    <3>3. LineSoFar(text, i + 1, q.line)
      <4>1. PICK b \in Edges(text) :
              /\ b <= i /\ \A e \in Edges(text) : e < i + 1 => e <= b
              /\ p.line = SubSeq(text, b + 1, i)
        BY <2>5 DEF LineSoFar
      <4>2. b \in Nat /\ b <= i + 1 /\ i + 1 - 1 = i
        BY <1>1, <1>2, <2>1, <4>1
      <4>3. \A e \in Edges(text) : e < i + 1 + 1 => e <= b
        BY <1>1, <1>2, <2>1, <2>10, <4>1
      <4>4. SubSeq(text, b + 1, i + 1) = Append(p.line, c)
        <5>1. b + 1 \in 1 .. Len(text) /\ i + 1 \in b + 1 .. Len(text)
          BY <2>1, <4>1, <4>2 DEF n
        <5> DEFINE l == i + 1
                   f == b + 1
        <5>2. f \in 1 .. Len(text) /\ l \in f .. Len(text)
          BY <5>1
        <5>3. p.line = SubSeq(text, f, l - 1) /\ c = text[l]
          BY <4>1, <4>2 DEF c
        <5> HIDE DEF l, f
        <5>4. SubSeq(text, f, l) = SubSeq(text, f, l - 1) \o <<text[l]>>
          BY <5>2, SubSeqRecursiveSecond
        <5>5. p.line \o <<c>> = Append(p.line, c)
          BY <2>2, <2>8, AppendIsConcat
        <5> QED
          BY <5>3, <5>4, <5>5 DEF l, f
      <4> QED
        BY <3>1, <4>1, <4>2, <4>3, <4>4 DEF LineSoFar
    <3>4. RowsSoFar(text, i + 1, q.rows)
      <4>1. i + 1 \notin RowEnds(text)
        BY <2>7, <2>10
      <4>2. Cardinality(EndsBy(text, i + 1)) = Cardinality(EndsBy(text, i))
        BY <2>6, <4>1
      <4> QED
        BY <2>5, <2>7, <3>1, <4>2 DEF RowsSoFar
    <3> QED
      BY <2>1, <3>2, <3>3, <3>4 DEF Agrees, q
  <2> QED
    BY <2>9, <2>10
<1>6. \A i \in 0 .. n : i \in S
  <2> HIDE DEF S
  <2> QED
    BY <1>1, <1>4, <1>5, UpTo
<1> QED
  BY <1>6 DEF sc, n

(* The rows found by a scan of the beginning of a text are its first ones. *)
LEMMA RowsFound ==
  ASSUME NEW text \in Seq(Chars), NEW i \in 0 .. Len(text), NEW p,
         p = Scan(Unscanned, SubSeq(text, 1, i))
  PROVE  /\ p \in Scans
         /\ LineSoFar(text, i, p.line)
         /\ Len(p.rows) = Cardinality(EndsBy(text, i))
         /\ Len(p.rows) <= Cardinality(RowEnds(text))
         /\ \A k \in 1 .. Len(p.rows) : p.rows[k] = RowsOf(text)[k]
<1>1. p \in Scans /\ Len(text) \in Nat
  BY ScanSteps
<1>2. Agrees(text, i, p)
  BY ScanAgrees
<1>3. LineSoFar(text, i, p.line) /\ RowsSoFar(text, i, p.rows)
  BY <1>2 DEF Agrees
<1>4. Len(p.rows) = Cardinality(EndsBy(text, i))
  BY <1>3 DEF RowsSoFar
<1>5. Cardinality(EndsBy(text, i)) <= Cardinality(RowEnds(text))
  <2>1. EndsBy(text, i) \subseteq RowEnds(text)
    BY DEF EndsBy
  <2>2. IsFiniteSet(RowEnds(text))
    BY <1>1, EndsCount
  <2> QED
    BY <2>1, <2>2, FS_Subset
<1>6. ASSUME NEW k \in 1 .. Len(p.rows)
      PROVE  p.rows[k] = RowsOf(text)[k]
  <2>1. PICK e \in EndsBy(text, i) :
          /\ Cardinality(EndsBy(text, e)) = k
          /\ p.rows[k] = FieldsOf(LineBefore(text, e))
    BY <1>3 DEF RowsSoFar
  <2>2. e \in RowEnds(text)
    BY DEF EndsBy
  <2> QED
    BY <2>1, <2>2, RowsByEnd
<1> QED
  BY <1>1, <1>3, <1>4, <1>5, <1>6

(* All of them are found at the end, but for the line the text ends with.  *)
LEMMA AllRowsFound ==
  ASSUME NEW text \in Seq(Chars), NEW p, p = Scan(Unscanned, text)
  PROVE  /\ p \in Scans
         /\ RowsOf(text) = IF p.line = <<>> THEN p.rows
                           ELSE Append(p.rows, FieldsOf(p.line))
<1> DEFINE n == Len(text)
           N == Cardinality(RowEnds(text))
           m == Len(p.rows)
<1>1. n \in Nat /\ p = Scan(Unscanned, SubSeq(text, 1, n)) /\ n \in 0 .. Len(text)
  BY ScanSteps, Beginnings
<1>2. /\ p \in Scans
      /\ LineSoFar(text, n, p.line)
      /\ m = Cardinality(EndsBy(text, n))
      /\ \A k \in 1 .. m : p.rows[k] = RowsOf(text)[k]
  BY <1>1, RowsFound
<1>3. n + 1 \in Edges(text)
  BY EdgesAre
<1>4. /\ p.line \in Seq(Chars)
      /\ n + 1 \in RowEnds(text) <=> p.line # <<>>
      /\ p.line = LineBefore(text, n + 1)
  BY <1>1, <1>2, <1>3, RowAtEdge
<1>5. /\ N = m + IF n + 1 \in RowEnds(text) THEN 1 ELSE 0
      /\ Cardinality(EndsBy(text, n + 1)) = N
      /\ m \in Nat
  BY <1>1, <1>2, EndsCount
<1>6. p.rows \in Seq(Seq(Seq(Chars)))
  BY <1>2 DEF Scans
<1>7. DOMAIN RowsOf(text) = 1 .. N
      /\ RowsOf(text) = [k \in 1 .. N |-> RowsOf(text)[k]]
  BY DEF RowsOf
<1> HIDE DEF n, N, m
<1>8. CASE p.line = <<>>
  <2>1. N = m
    BY <1>4, <1>5, <1>8
  <2>2. p.rows = [k \in 1 .. m |-> p.rows[k]]
    BY <1>6, LenProperties DEF m
  <2>3. p.rows = [k \in 1 .. m |-> RowsOf(text)[k]]
    BY <1>2, <2>2
  <2> QED
    BY <1>2, <1>7, <1>8, <2>1, <2>3
<1>9. CASE p.line # <<>>
  <2> DEFINE row == FieldsOf(p.line)
             a == Append(p.rows, row)
  <2>1. N = m + 1 /\ n + 1 \in RowEnds(text)
    BY <1>4, <1>5, <1>9
  <2>2. row \in Seq(Seq(Chars))
    BY <1>4, FieldsOfTyped
  <2>3. RowsOf(text)[m + 1] = row
    <3> DEFINE e == n + 1
    <3>1. e \in RowEnds(text) /\ p.line = LineBefore(text, e)
          /\ Cardinality(EndsBy(text, e)) = m + 1
      BY <1>4, <1>5, <2>1
    <3> HIDE DEF e
    <3> QED
      BY <3>1, RowsByEnd
  <2> HIDE DEF row
  <2>4. /\ a \in Seq(Seq(Seq(Chars))) /\ Len(a) = m + 1 /\ a[m + 1] = row
        /\ \A k \in 1 .. m : a[k] = p.rows[k]
    BY <1>6, <2>2, AppendProperties DEF m
  <2> HIDE DEF a
  <2>5. a = [k \in 1 .. m + 1 |-> a[k]]
    BY <2>4, LenProperties
  <2>6. ASSUME NEW k \in 1 .. m + 1 PROVE a[k] = RowsOf(text)[k]
    <3>1. CASE k = m + 1
      BY <2>3, <2>4, <3>1
    <3>2. CASE k \in 1 .. m
      BY <1>2, <2>4, <3>2
    <3> QED
      BY <1>5, <3>1, <3>2
  <2>7. a = [k \in 1 .. m + 1 |-> RowsOf(text)[k]]
    BY <2>5, <2>6
  <2> QED
    BY <1>2, <1>7, <1>9, <2>1, <2>7 DEF a, row
<1> QED
  BY <1>8, <1>9

(* The rows of a text are sequences of fields.                             *)
LEMMA RowsOfTyped ==
  ASSUME NEW text \in Seq(Chars)
  PROVE  /\ RowsOf(text) \in Seq(Seq(Seq(Chars)))
         /\ Len(RowsOf(text)) = Cardinality(RowEnds(text))
<1> DEFINE p == Scan(Unscanned, text)
<1>1. /\ p \in Scans
      /\ RowsOf(text) = IF p.line = <<>> THEN p.rows
                        ELSE Append(p.rows, FieldsOf(p.line))
  BY AllRowsFound
<1> HIDE DEF p
<1>2. RowsOf(text) \in Seq(Seq(Seq(Chars)))
  BY <1>1, FieldsOfTyped, AppendProperties DEF Scans
<1>3. DOMAIN RowsOf(text) = 1 .. Cardinality(RowEnds(text))
  BY DEF RowsOf
<1>4. Cardinality(RowEnds(text)) \in Nat
  BY EndsCount, FS_CardinalityType
<1> QED
  BY <1>2, <1>3, <1>4, LenProperties

(* A prefix, element by element.                                           *)
LEMMA PrefixByElements ==
  ASSUME NEW C, NEW s \in Seq(C), NEW t \in Seq(C), Len(s) <= Len(t),
         \A k \in 1 .. Len(s) : s[k] = t[k]
  PROVE  IsPrefix(s, t) /\ s = SubSeq(t, 1, Len(s))
<1> DEFINE n == Len(s)
           u == SubSeq(t, 1, n)
<1>1. n \in Nat /\ Len(t) \in Nat
  BY LenProperties
<1>2. u \in Seq(C) /\ Len(u) = n /\ \A k \in 1 .. n : u[k] = t[k]
  <2>1. n \in 0 .. Len(t)
    BY <1>1
  <2>2. \A k \in 1 .. n : t[k] \in C
    BY <1>1, ElementOfSeq
  <2> QED
    BY <1>1, <2>1, <2>2, SubSeqProperties
<1> HIDE DEF u
<1>3. s = u
  BY <1>2, SeqEqual
<1>4. SubSeq(s, 1, Len(s)) = s
  BY SubSeqFull
<1> QED
  BY <1>3, <1>4 DEF IsPrefix, u

(* What is found in the beginning of a text is the beginning of its rows.  *)
LEMMA FoundRowsAreAPrefix ==
  ASSUME NEW text \in Seq(Chars), NEW i \in 0 .. Len(text)
  PROVE  IsPrefix(Scan(Unscanned, SubSeq(text, 1, i)).rows, RowsOf(text))
<1> DEFINE p == Scan(Unscanned, SubSeq(text, 1, i))
<1>1. /\ p \in Scans
      /\ Len(p.rows) <= Cardinality(RowEnds(text))
      /\ \A k \in 1 .. Len(p.rows) : p.rows[k] = RowsOf(text)[k]
  BY RowsFound
<1> HIDE DEF p
<1>2. p.rows \in Seq(Seq(Seq(Chars)))
  BY <1>1 DEF Scans
<1>3. IsPrefix(p.rows, RowsOf(text))
  BY <1>1, <1>2, RowsOfTyped, PrefixByElements
<1> QED
  BY <1>3 DEF p

----------------------------------------------------------------------------
(* The files *)

(* FlattenSeq() puts one sequence after the other.                         *)
LEMMA FlattenIs ==
  ASSUME NEW C, NEW s \in Seq(Seq(C))
  PROVE  \E t \in [0 .. Len(s) -> Seq(C)] :
           /\ t[0] = <<>> /\ t[Len(s)] = FlattenSeq(s)
           /\ \A i \in 1 .. Len(s) : t[i] = t[i - 1] \o s[i]
<1> DEFINE n == Len(s)
           step == [p \in Seq(C) \X Seq(C) |-> p[1] \o p[2]]
           Fn(f) == [i \in 1 .. Len(s) |->
                       IF i = 1 THEN s[i] ELSE f[i - 1] \o s[i]]
           F == CHOOSE f : f = Fn(f)
<1>1. step \in StepsOf(Seq(C), Seq(C)) /\ <<>> \in Seq(C)
  BY ConcatProperties, EmptySeq DEF StepsOf
<1>2. n \in Nat /\ \A i \in 1 .. n : s[i] \in Seq(C)
  BY ElementOfSeq, LenProperties
<1>3. PICK t : IsTrace(Seq(C), Seq(C), step, <<>>, s, t)
  <2> HIDE DEF step
  <2> QED
    BY <1>1, TraceExists
<1>4. /\ t \in [0 .. n -> Seq(C)] /\ t[0] = <<>>
      /\ \A i \in 1 .. n : t[i] = t[i - 1] \o s[i]
  <2>1. \A a, b \in Seq(C) : step[<<a, b>>] = a \o b
    OBVIOUS
  <2> HIDE DEF step
  <2>2. /\ t \in [0 .. n -> Seq(C)] /\ t[0] = <<>>
        /\ \A i \in 1 .. n : t[i] = step[<<t[i - 1], s[i]>>]
    BY <1>3 DEF IsTrace
  <2>3. ASSUME NEW i \in 1 .. n
        PROVE  t[i] = t[i - 1] \o s[i]
    <3>1. t[i - 1] \in Seq(C) /\ s[i] \in Seq(C)
      BY <1>2, <2>2
    <3> QED
      BY <3>1, <2>1, <2>2
  <2> QED
    BY <2>2, <2>3
<1>a. ASSUME NEW f, NEW i \in 1 .. n
      PROVE  Fn(f)[i] = IF i = 1 THEN s[i] ELSE f[i - 1] \o s[i]
  OBVIOUS
<1> DEFINE g == [i \in 1 .. n |-> t[i]]
<1>5. g = Fn(g)
  <2>1. ASSUME NEW i \in 1 .. n
        PROVE  g[i] = Fn(g)[i]
    <3>0. t[i] = t[i - 1] \o s[i]
      BY <1>4
    <3>1. CASE i = 1
      <4> HIDE DEF n
      <4>1. t[i - 1] = <<>> /\ s[i] \in Seq(C)
        BY <1>2, <1>4, <3>1
      <4>2. t[i] = s[i]
        BY <3>0, <4>1, ConcatEmptySeq
      <4>3. g[i] = t[i]
        OBVIOUS
      <4> HIDE DEF Fn, g
      <4> QED
        BY <1>a, <3>1, <4>2, <4>3
    <3>2. CASE i # 1
      <4>1. g[i] = t[i] /\ g[i - 1] = t[i - 1]
        BY <1>2, <3>2
      <4> HIDE DEF Fn, g, n
      <4>2. Fn(g)[i] = g[i - 1] \o s[i]
        BY <1>a, <3>2
      <4> QED
        BY <3>0, <4>1, <4>2
    <3> QED
      BY <3>1, <3>2
  <2>2. Fn(g) = [i \in 1 .. n |-> Fn(g)[i]]
    OBVIOUS
  <2> HIDE DEF Fn
  <2> QED
    BY <2>1, <2>2
<1>6. F = Fn(F)
  BY <1>5
<1> DEFINE S == {i \in 0 .. n : i = 0 \/ F[i] = t[i]}
<1> HIDE DEF F
<1>7. 0 \in S
  BY <1>2
<1>8. ASSUME NEW i \in 0 .. n - 1, i \in S
      PROVE  i + 1 \in S
  <2>1. i + 1 \in 1 .. n /\ i + 1 - 1 = i /\ s[i + 1] \in Seq(C)
    BY <1>2
  <2>2. F[i + 1] = IF i = 0 THEN s[i + 1] ELSE F[i] \o s[i + 1]
    <3> HIDE DEF Fn
    <3>1. Fn(F)[i + 1] = IF i + 1 = 1 THEN s[i + 1] ELSE F[i + 1 - 1] \o s[i + 1]
      BY <1>a, <2>1
    <3>2. i + 1 = 1 <=> i = 0
      BY <1>2
    <3> QED
      BY <1>6, <2>1, <3>1, <3>2
  <2>3. t[i + 1] = t[i] \o s[i + 1]
    <3> DEFINE j == i + 1
    <3>0. j \in 1 .. n /\ j - 1 = i /\ j = i + 1
      BY <2>1
    <3> HIDE DEF j, n
    <3>1. t[j] = t[j - 1] \o s[j]
      BY <1>4, <3>0
    <3> QED
      BY <3>0, <3>1
  <2>4. CASE i = 0
    <3>1. t[i] \o s[i + 1] = s[i + 1]
      BY <1>4, <2>1, <2>4, ConcatEmptySeq
    <3>2. F[i + 1] = t[i + 1]
      BY <2>2, <2>3, <2>4, <3>1
    <3> QED
      BY <1>2, <2>1, <3>2
  <2>5. CASE i # 0
    <3>1. F[i] = t[i]
      BY <1>8, <2>5
    <3>2. F[i + 1] = t[i + 1]
      BY <2>2, <2>3, <2>5, <3>1
    <3> QED
      BY <1>2, <2>1, <3>2
  <2> QED
    BY <2>4, <2>5
<1>9. n \in S
  <2> HIDE DEF S
  <2>1. \A i \in 0 .. n : i \in S
    BY <1>2, <1>7, <1>8, UpTo
  <2> QED
    BY <1>2, <2>1
<1>10. FlattenSeq(s) = t[n]
  <2>1. CASE n = 0
    <3>1. FlattenSeq(s) = s /\ s = <<>>
      BY <2>1, EmptySeq DEF FlattenSeq
    <3> QED
      BY <2>1, <3>1, <1>4
  <2>2. CASE n # 0
    <3>1. FlattenSeq(s) = F[n]
      BY <2>2 DEF FlattenSeq, F
    <3> QED
      BY <1>9, <2>2, <3>1
  <2> QED
    BY <2>1, <2>2
<1> HIDE DEF n
<1> QED
  BY <1>4, <1>10 DEF n

(* Sequences after one another.                                            *)
LEMMA FlattenTyped ==
  ASSUME NEW C, NEW s \in Seq(Seq(C))
  PROVE  FlattenSeq(s) \in Seq(C)
<1> DEFINE n == Len(s)
<1>1. n \in Nat
  BY LenProperties
<1>2. PICK t \in [0 .. n -> Seq(C)] : t[n] = FlattenSeq(s)
  BY FlattenIs
<1> HIDE DEF n
<1>3. n \in 0 .. n
  BY <1>1
<1>4. t[n] \in Seq(C)
  BY <1>2, <1>3
<1> QED
  BY <1>2, <1>4

(* A character can become several.                                         *)
LEMMA PiecesTyped ==
  ASSUME NEW C, NEW D, NEW s \in Seq(C), NEW f \in [C -> Seq(D)]
  PROVE  FlattenSeq([i \in DOMAIN s |-> f[s[i]]]) \in Seq(D)
<1> DEFINE t == [i \in DOMAIN s |-> f[s[i]]]
<1>1. DOMAIN s = 1 .. Len(s) /\ Len(s) \in Nat
      /\ \A i \in 1 .. Len(s) : s[i] \in C
  BY ElementOfSeq, LenProperties
<1>2. t \in [1 .. Len(s) -> Seq(D)]
  BY <1>1
<1>3. t \in Seq(Seq(D))
  BY <1>1, <1>2, IsASeq
<1> HIDE DEF t
<1>4. FlattenSeq(t) \in Seq(D)
  BY <1>3, FlattenTyped
<1> QED
  BY <1>4 DEF t

(* A text becomes bytes.                                                   *)
LEMMA EncodedTyped ==
  ASSUME NEW text \in Texts
  PROVE  Encoded(text) \in Seq(Bytes)
<1> DEFINE C == Chars \ {"l", "t"}
           f == [c \in C |-> IF c = "u" THEN <<"l", "t">> ELSE <<c>>]
<1>1. f \in [C -> Seq(Bytes)]
  BY DEF Bytes, Chars
<1>2. DOMAIN text = 1 .. Len(text) /\ \A i \in 1 .. Len(text) : text[i] \in C
  BY ElementOfSeq, LenProperties DEF Texts
<1>3. Encoded(text) = FlattenSeq([i \in DOMAIN text |-> f[text[i]]])
  <2>1. [i \in DOMAIN text |-> IF text[i] = "u" THEN <<"l", "t">> ELSE <<text[i]>>] =
          [i \in DOMAIN text |-> f[text[i]]]
    BY <1>2
  <2> QED
    BY <2>1 DEF Encoded
<1> HIDE DEF f, C
<1>4. text \in Seq(C)
  BY DEF Texts, C
<1> QED
  BY <1>1, <1>3, <1>4, PiecesTyped

(* Quotes are written twice.                                               *)
LEMMA TwiceTyped ==
  ASSUME NEW text \in Texts
  PROVE  Twice(text) \in Texts
<1> DEFINE C == Chars \ {"l", "t"}
           f == [c \in C |-> IF c = "q" THEN <<"q", "q">> ELSE <<c>>]
<1>1. f \in [C -> Texts]
  <2>1. ASSUME NEW c \in C
        PROVE  (IF c = "q" THEN <<"q", "q">> ELSE <<c>>) \in Seq(C)
    <3>1. "q" \in C
      BY DEF Chars
    <3> HIDE DEF C
    <3> QED
      BY <3>1
  <2> QED
    BY <2>1 DEF Texts
<1>2. DOMAIN text = 1 .. Len(text) /\ \A i \in 1 .. Len(text) : text[i] \in C
  BY ElementOfSeq, LenProperties DEF Texts
<1>3. Twice(text) = FlattenSeq([i \in DOMAIN text |-> f[text[i]]])
  <2>1. [i \in DOMAIN text |-> IF text[i] = "q" THEN <<"q", "q">> ELSE <<text[i]>>] =
          [i \in DOMAIN text |-> f[text[i]]]
    BY <1>2
  <2> QED
    BY <2>1 DEF Twice
<1> HIDE DEF f, C
<1>4. text \in Seq(C) /\ f \in [C -> Seq(C)] /\ Texts = Seq(C)
  BY <1>1 DEF Texts, C
<1>5. FlattenSeq([i \in DOMAIN text |-> f[text[i]]]) \in Seq(C)
  BY <1>4, PiecesTyped
<1> QED
  BY <1>3, <1>4, <1>5

(* What the file of a table says.                                          *)
TextOf(t) == FlattenSeq([i \in DOMAIN t |-> ExportedRow(t[i])])

(* A table becomes a text, and a file.                                     *)
LEMMA ExportedTyped ==
  ASSUME NEW t \in Seq(Numbers \X Texts)
  PROVE  /\ TextOf(t) \in Texts /\ Exported(t) = Encoded(TextOf(t))
         /\ Exported(t) \in Seq(Bytes)
<1> DEFINE C == Chars \ {"l", "t"}
           R == Numbers \X Texts
           f == [row \in R |-> ExportedRow(row)]
<1>1. ASSUME NEW row \in R PROVE ExportedRow(row) \in Texts
  <2>1. row[1] \in Texts /\ row[2] \in Texts /\ ToFileFormat(row[2]) \in Texts
    <3>1. row[1] \in Seq({"a"}) /\ row[2] \in Texts
      BY DEF Numbers
    <3>2. {"a"} \subseteq C
      BY DEF Chars
    <3> HIDE DEF C
    <3>3. row[1] \in Seq(C)
      BY <3>1, <3>2, SeqMonotonic
    <3> QED
      BY <3>1, <3>3, TwiceTyped DEF ToFileFormat, Texts, C
  <2>2. <<"c">> \in Seq(C) /\ <<"q">> \in Seq(C) /\ <<"q", "n">> \in Seq(C)
        /\ <<>> \in Seq(C)
    BY DEF Chars
  <2>3. Texts = Seq(C)
    BY DEF Texts
  <2> HIDE DEF C
  <2> DEFINE comma == IF row[1] = <<>> THEN <<>> ELSE <<"c">>
             text == ToFileFormat(row[2])
  <2>4. comma \in Seq(C)
    BY <2>2
  <2>5. row[1] \in Seq(C) /\ text \in Seq(C)
    BY <2>1, <2>3
  <2> HIDE DEF comma, text
  <2>6. row[1] \o comma \in Seq(C)
    BY <2>4, <2>5, ConcatProperties
  <2>7. row[1] \o comma \o <<"q">> \in Seq(C)
    BY <2>2, <2>6, ConcatProperties
  <2>8. row[1] \o comma \o <<"q">> \o text \in Seq(C)
    BY <2>5, <2>7, ConcatProperties
  <2>9. row[1] \o comma \o <<"q">> \o text \o <<"q", "n">> \in Seq(C)
    BY <2>2, <2>8, ConcatProperties
  <2> QED
    BY <2>3, <2>9 DEF ExportedRow, comma, text
<1>2. DOMAIN t = 1 .. Len(t) /\ \A i \in 1 .. Len(t) : t[i] \in R
  BY ElementOfSeq, LenProperties
<1>3. [i \in DOMAIN t |-> ExportedRow(t[i])] =
        [i \in DOMAIN t |-> f[t[i]]]
  BY <1>2
<1>4. f \in [R -> Seq(C)]
  BY <1>1 DEF Texts
<1> HIDE DEF f, R, C
<1>5. FlattenSeq([i \in DOMAIN t |-> f[t[i]]]) \in Seq(C)
  <2>1. t \in Seq(R)
    BY DEF R
  <2> QED
    BY <1>4, <2>1, PiecesTyped
<1>6. TextOf(t) \in Texts
  BY <1>3, <1>5 DEF TextOf, Texts, C
<1> QED
  BY <1>6, EncodedTyped DEF Exported, TextOf

----------------------------------------------------------------------------
(* Type correctness *)

(* The types, what the file is made of, the streams that were asked for,   *)
(* and the encoding that is tried.                                         *)
ImportInv ==
  /\ ImportTypeOK
  /\ file \in Seq(Bytes)
  /\ parser.opening + parser.opened <= starts
  /\ detect # 0 => detect \in {1, 2} /\ parser.encoding = AutoDetect[detect]

(* There are two encodings.                                                *)
LEMMA EncodingsAre ==
  /\ Encodings = {"utf8", "latin1"}
  /\ AutoDetect[1] = "utf8" /\ AutoDetect[2] = "latin1"
  /\ DOMAIN AutoDetect = {1, 2} /\ Len(AutoDetect) = 2
<1>1. /\ AutoDetect[1] = "utf8" /\ AutoDetect[2] = "latin1"
      /\ DOMAIN AutoDetect = 1 .. 2 /\ Len(AutoDetect) = 2
  BY DEF AutoDetect
<1>2. 1 .. 2 = {1, 2}
  OBVIOUS
<1>3. Encodings = {"utf8", "latin1"}
  BY <1>1, <1>2 DEF Encodings, Range
<1> QED
  BY <1>1, <1>2, <1>3

(* A piece of what has been read and not been parsed.                      *)
LEMMA PieceTyped ==
  ASSUME ImportInv
  PROVE  LET left == SubSeq(parser.raw, parser.pos + 1, Len(parser.raw))
             c == Conversion(parser.encoding, left, ConvertSize)
         IN  /\ c \in Conversions
             /\ Consumed(parser.encoding, ConvertSize, c,
                         Len(parser.raw) - parser.pos)
             /\ Piece = IF c.why = "done" /\ c.half
                        THEN [c EXCEPT !.why = "EINVAL"] ELSE c
<1> DEFINE left == SubSeq(parser.raw, parser.pos + 1, Len(parser.raw))
           c == Conversion(parser.encoding, left, ConvertSize)
           n == Len(parser.raw) - parser.pos
<1>1. /\ parser.raw \in Seq(Bytes) /\ parser.pos \in Nat
      /\ Len(parser.raw) \in Nat /\ parser.pos <= Len(parser.raw)
      /\ \A i \in 1 .. Len(parser.raw) : parser.raw[i] \in Bytes
  <2>1. parser.raw \in Seq(Bytes) /\ parser.pos \in Nat
        /\ parser.pos <= Len(parser.raw)
    BY DEF ImportInv, ImportTypeOK, Parsers
  <2> QED
    BY <2>1, ElementOfSeq, LenProperties
<1>2. left \in Seq(Bytes) /\ Len(left) = n /\ n \in Nat
  BY <1>1, SubSeqProperties
<1> HIDE DEF left, n
<1>3. c = Conversion(parser.encoding, SubSeq(left, 1, n), ConvertSize)
  BY <1>2, Beginnings
<1>4. Consumed(parser.encoding, ConvertSize, c, n) /\ c \in Conversions
  <2>1. n \in 0 .. Len(left)
    BY <1>2
  <2>2. c \in Conversions
    BY <1>2, ConvertedIsConversion
  <2> HIDE DEF c
  <2> QED
    BY <1>2, <1>3, <2>1, <2>2, ConversionConsumes
<1>5. Converted(parser.encoding, left, ConvertSize) =
        IF c.why = "done" /\ c.half THEN [c EXCEPT !.why = "EINVAL"] ELSE c
  BY <1>2, ConvertedIsConversion
<1> QED
  BY <1>4, <1>5 DEF Piece, left, n

(* What iconv() can answer.                                                *)
Pieces == [chars : Seq(Chars), used : Nat, half : BOOLEAN,
           why : {"done", "EILSEQ", "EINVAL"}]

(* A piece is no longer than what is left, and there are no invalid bytes  *)
(* in Latin 1.                                                             *)
LEMMA PieceFits ==
  ASSUME ImportInv
  PROVE  /\ Piece \in Pieces
         /\ parser.pos + Piece.used <= Len(parser.raw)
         /\ parser.encoding = "latin1" => ~Invalid(Piece)
<1> DEFINE left == SubSeq(parser.raw, parser.pos + 1, Len(parser.raw))
           c == Conversion(parser.encoding, left, ConvertSize)
<1>1. /\ c \in Conversions
      /\ Consumed(parser.encoding, ConvertSize, c,
                  Len(parser.raw) - parser.pos)
      /\ Piece = IF c.why = "done" /\ c.half
                 THEN [c EXCEPT !.why = "EINVAL"] ELSE c
  BY PieceTyped
<1>2. Len(parser.raw) \in Nat /\ parser.pos \in Nat
  BY LenProperties DEF ImportInv, ImportTypeOK, Parsers
<1> HIDE DEF c
<1>3. c.used \in Nat /\ c.used <= Len(parser.raw) - parser.pos
  BY <1>1 DEF Consumed, Conversions
<1>4. Piece.used = c.used /\ Piece \in Pieces
  BY <1>1 DEF Conversions, Pieces
<1>5. parser.encoding = "latin1" => ~Invalid(Piece)
  BY <1>1 DEF Consumed, Conversions, Invalid
<1> QED
  BY <1>2, <1>3, <1>4, <1>5

(* The parser after a piece.                                               *)
LEMMA AfterTyped ==
  ASSUME NEW p \in Parsers, NEW piece \in Pieces,
         p.pos + piece.used <= Len(p.raw)
  PROVE  LET r == Scan(ScanOf(p), piece.chars)
             q == After(p, piece)
         IN  /\ r \in Scans
             /\ q = [p EXCEPT !.line = r.line, !.quotes = r.quotes,
                              !.rows = r.rows, !.pos = @ + piece.used,
                              !.idle = piece.why # "EINVAL"
                                       /\ p.pos + piece.used < Len(p.raw)]
             /\ q \in Parsers /\ Finished(q) \in Parsers
<1> DEFINE r == Scan(ScanOf(p), piece.chars)
           q == After(p, piece)
<1>1. r \in Scans /\ Scanned(p, piece.chars) = WithScan(p, r)
  BY ScannedIsScan DEF Pieces
<1> HIDE DEF r
<1>2. q = [p EXCEPT !.line = r.line, !.quotes = r.quotes,
                    !.rows = r.rows, !.pos = @ + piece.used,
                    !.idle = piece.why # "EINVAL"
                             /\ p.pos + piece.used < Len(p.raw)]
  <2> DEFINE idle == piece.why # "EINVAL"
                     /\ p.pos + piece.used < Len(p.raw)
             w == WithScan(p, r)
  <2>1. q = [w EXCEPT !.pos = w.pos + piece.used, !.idle = idle]
    BY <1>1 DEF After
  <2>2. w.pos = p.pos
    BY DEF WithScan, Parsers
  <2> HIDE DEF idle
  <2>3. q = [w EXCEPT !.pos = p.pos + piece.used, !.idle = idle]
    BY <2>1, <2>2
  <2>4. [p EXCEPT !.line = r.line, !.quotes = r.quotes, !.rows = r.rows,
                  !.pos = @ + piece.used, !.idle = idle] =
          [w EXCEPT !.pos = p.pos + piece.used, !.idle = idle]
    BY DEF WithScan, Parsers
  <2> QED
    BY <2>3, <2>4 DEF idle
<1> HIDE DEF q
<1>3. q \in Parsers
  <2> DEFINE idle == piece.why # "EINVAL"
                     /\ p.pos + piece.used < Len(p.raw)
             pos == p.pos + piece.used
  <2>1. r.line \in Seq(Chars) /\ r.quotes \in BOOLEAN
        /\ r.rows \in Seq(Seq(Seq(Chars)))
    BY <1>1 DEF Scans
  <2>2. pos \in Nat /\ idle \in BOOLEAN
    BY DEF Parsers, Pieces
  <2>3. q = [p EXCEPT !.line = r.line, !.quotes = r.quotes,
                      !.rows = r.rows, !.pos = pos, !.idle = idle]
    BY <1>2
  <2> HIDE DEF idle, pos
  <2> QED
    BY <2>1, <2>2, <2>3 DEF Parsers
<1>4. Finished(q) \in Parsers
  <2>1. FieldsOf(q.line) \in Seq(Seq(Chars))
    BY <1>3, FieldsOfTyped DEF Parsers
  <2>2. Append(q.rows, FieldsOf(q.line)) \in Seq(Seq(Seq(Chars)))
    BY <1>3, <2>1, AppendProperties DEF Parsers
  <2> QED
    BY <1>3, <2>2 DEF Finished, Parsers
<1> QED
  BY <1>1, <1>2, <1>3, <1>4 DEF q, r

(* A read does not go beyond the end of the file.                          *)
LEMMA EndTyped ==
  ASSUME NEW a \in Nat, NEW b \in Nat, NEW c \in Nat, a <= c
  PROVE  Min({a + b, c}) \in a .. c
<1>1. PICK x \in {a + b, c} : \A y \in {a + b, c} : x <= y
  OBVIOUS
<1>2. Min({a + b, c}) \in {a + b, c}
      /\ \A y \in {a + b, c} : Min({a + b, c}) <= y
  <2> DEFINE P(z) == \A y \in {a + b, c} : z <= y
  <2>1. Min({a + b, c}) = CHOOSE v \in {a + b, c} : P(v)
    BY DEF Min
  <2> QED
    BY <1>1, <2>1
<1> QED
  BY <1>2

(* The dialog that hears of a state of the parser stays well typed.        *)
LEMMA HearsOfTyped ==
  ASSUME NEW state, HearsOf(state),
         ready \in BOOLEAN,
         progress \in {"off", "waiting", "importing", "complete", "closed"},
         fate \in {"running", "hung", "aborted", "undefined"}
  PROVE  /\ ready' \in BOOLEAN
         /\ progress' \in {"off", "waiting", "importing", "complete", "closed"}
         /\ fate' \in {"running", "hung", "aborted", "undefined"}
BY DEF HearsOf, import

(* The first row decides how many columns there are.                       *)
LEMMA ScannedFirstTyped ==
  ASSUME NEW found \in Seq(Seq(Seq(Chars))), ScannedFirst(found),
         columns \in Nat, fields \in SUBSET Nat
  PROVE  /\ columns' \in Nat /\ fields' \in SUBSET Nat
         /\ found # <<>> => Len(found[1]) \in Nat
<1>1. found # <<>> => Len(found[1]) \in Nat
  <2> SUFFICES ASSUME found # <<>> PROVE Len(found[1]) \in Nat
    OBVIOUS
  <2>1. Len(found) \in Nat /\ Len(found) # 0
    BY EmptySeq, LenProperties
  <2>2. found[1] \in Seq(Seq(Chars))
    BY <2>1, ElementOfSeq
  <2> QED
    BY <2>2, LenProperties
<1> QED
  BY <1>1 DEF ScannedFirst

(* The invariant holds when the dialog has started the parser.             *)
LEMMA ImportInitTyped == ImportInit => ImportInv
<1> SUFFICES ASSUME ImportInit PROVE ImportInv
  OBVIOUS
<1> USE CsvImportAssumption
<1>1. file \in Seq(Bytes)
  <2>1. CASE \E t \in Tables : table = t /\ file = Exported(t)
    BY <2>1, ExportedTyped
  <2>2. CASE table = NoTable /\ file \in Foreign
    BY <2>2
  <2> QED
    BY <2>1, <2>2 DEF ImportInit
<1>2. parser = [NoParser EXCEPT !.state = "parsing", !.opening = 1]
  <2>1. parser = [NoParser EXCEPT !.state = "parsing",
                                  !.opening = NoParser.opening + 1]
    BY DEF ImportInit, Started
  <2>2. NoParser.opening + 1 = 1
    BY DEF NoParser
  <2> QED
    BY <2>1, <2>2
<1>3. parser \in Parsers
  <2>1. 0 \in 0 .. MaxStarts /\ 1 \in 0 .. MaxStarts
    OBVIOUS
  <2>2. <<>> \in Seq(Bytes) /\ <<>> \in Seq(Chars)
        /\ <<>> \in Seq(Seq(Seq(Chars))) /\ AutoDetect[1] \in Encodings
    BY EmptySeq, EncodingsAre
  <2> QED
    BY <1>2, <2>1, <2>2 DEF NoParser, Parsers
<1>4. Len(file) \in Nat
  BY <1>1, LenProperties
<1>5. /\ parser.encoding = AutoDetect[1] /\ parser.pos = 0 /\ parser.raw = <<>>
      /\ parser.buffer = 0 /\ parser.opening = 1 /\ parser.opened = 0
  BY <1>2 DEF NoParser
<1>6. 1 \in Streams /\ offset \in [Streams -> 0 .. Len(file)]
  BY <1>4 DEF ImportInit, Streams
<1>7. parser.pos <= Len(parser.raw)
  BY <1>5, EmptySeq
<1>8. /\ <<>> \in Seq([row : Seq(Seq(Chars)), fields : SUBSET Nat])
      /\ 1 \in 0 .. Len(AutoDetect) + 1 /\ {} \in SUBSET Nat
  BY EmptySeq, EncodingsAre
<1>9. parser.opening + parser.opened <= 1
  BY <1>5
<1> QED
  BY <1>1, <1>3, <1>5, <1>6, <1>7, <1>8, <1>9
  DEF ImportInit, ImportInv, ImportTypeOK

(* What it says of the types.                                              *)
LEMMA ImportInvTypes ==
  ASSUME ImportInv
  PROVE  /\ parser \in Parsers /\ Len(parser.raw) \in Nat
         /\ Len(file) \in Nat /\ Len(parser.rows) \in Nat
         /\ starts \in Nat /\ starts <= MaxStarts /\ MaxStarts \in Nat
         /\ Streams = 1 .. MaxStarts
         /\ parser.opening \in Nat /\ parser.opened \in Nat
<1>1. MaxStarts \in Nat
  BY CsvImportAssumption
<1>2. /\ parser \in Parsers /\ parser.raw \in Seq(Bytes)
      /\ parser.rows \in Seq(Seq(Seq(Chars)))
      /\ file \in Seq(Bytes) /\ starts \in 1 .. MaxStarts
      /\ parser.opening \in Nat /\ parser.opened \in Nat
  BY <1>1 DEF ImportInv, ImportTypeOK, Parsers, Streams
<1> QED
  BY <1>1, <1>2, LenProperties DEF Streams

(* clear() and what follows it.                                            *)
LEMMA ClearedTyped ==
  ASSUME NEW p \in Parsers, Len(p.raw) \in Nat
  PROVE  /\ Cleared(p) \in Parsers
         /\ Cleared(p).pos = 0 /\ Cleared(p).buffer = 0
         /\ Cleared(p).raw = p.raw /\ Cleared(p).encoding = p.encoding
         /\ Cleared(p).opening = p.opening /\ Cleared(p).opened = p.opened
<1>1. 0 \in 0 .. MaxStarts /\ 0 \in Nat
  BY CsvImportAssumption
<1>2. <<>> \in Seq(Seq(Seq(Chars)))
  BY EmptySeq
<1> QED
  BY <1>1, <1>2 DEF Cleared, Parsers

(* The parts of the state that a step has to keep well typed.              *)
LEMMA ParserOnly ==
  ASSUME ImportInv, parser' \in Parsers, parser'.pos <= Len(parser'.raw),
         parser'.buffer \in {0, parser'.stream},
         reading' \subseteq Streams, offset' \in [Streams -> 0 .. Len(file)],
         parser'.opening + parser'.opened <= starts',
         detect' # 0 =>
           detect' \in {1, 2} /\ parser'.encoding = AutoDetect[detect'],
         detect' \in 0 .. 3,
         button' \in BOOLEAN, ready' \in BOOLEAN,
         columns' \in Nat, fields' \in SUBSET Nat,
         progress' \in {"off", "waiting", "importing", "complete", "closed"},
         imported' \in Seq([row : Seq(Seq(Chars)), fields : SUBSET Nat]),
         fate' \in {"running", "hung", "aborted", "undefined"},
         starts' \in Streams, file' = file
  PROVE  ImportInv'
<1>1. Len(AutoDetect) + 1 = 3
  BY EncodingsAre
<1> QED
  BY <1>1 DEF ImportInv, ImportTypeOK, Streams, Parsers, Encodings, AutoDetect

(* Every step keeps the invariant.                                         *)
LEMMA ImportStepTyped == ImportInv /\ [ImportNext]_importVars => ImportInv'
<1> SUFFICES ASSUME ImportInv, [ImportNext]_importVars PROVE ImportInv'
  OBVIOUS
<1>1. /\ parser \in Parsers /\ Len(parser.raw) \in Nat
      /\ Len(file) \in Nat /\ Len(parser.rows) \in Nat
      /\ starts \in Nat /\ starts <= MaxStarts /\ MaxStarts \in Nat
      /\ Streams = 1 .. MaxStarts
      /\ parser.opening \in Nat /\ parser.opened \in Nat
  BY ImportInvTypes
<1>2. /\ parser.pos <= Len(parser.raw) /\ parser.buffer \in {0, parser.stream}
      /\ reading \subseteq Streams /\ offset \in [Streams -> 0 .. Len(file)]
      /\ parser.opening + parser.opened <= starts
      /\ detect # 0 => detect \in {1, 2} /\ parser.encoding = AutoDetect[detect]
      /\ detect \in 0 .. 3
      /\ button \in BOOLEAN /\ ready \in BOOLEAN
      /\ columns \in Nat /\ fields \in SUBSET Nat
      /\ progress \in {"off", "waiting", "importing", "complete", "closed"}
      /\ imported \in Seq([row : Seq(Seq(Chars)), fields : SUBSET Nat])
      /\ fate \in {"running", "hung", "aborted", "undefined"}
      /\ starts \in Streams
      /\ file \in Seq(Bytes)
  BY EncodingsAre DEF ImportInv, ImportTypeOK
<1>3. CASE UNCHANGED importVars
  BY <1>1, <1>2, <1>3, ParserOnly
  DEF importVars, source, load, dialog, import, history
<1>4. CASE Opened
  <2> DEFINE s == parser.opened + 1
  <2>1. /\ parser' = [parser EXCEPT !.opening = @ - 1, !.opened = s,
                         !.stream = s, !.buffer = s, !.idle = TRUE]
        /\ reading' = reading \cup {s} /\ parser.opening > 0
        /\ UNCHANGED <<source, offset, dialog, import, imported, fate, history>>
    BY <1>4 DEF Opened
  <2>2. s \in Streams /\ s \in 0 .. MaxStarts
        /\ parser.opening - 1 \in 0 .. MaxStarts
    <3>1. parser.opened + 1 <= starts /\ parser.opened + 1 >= 1
      BY <1>1, <1>2, <2>1
    <3>2. parser.opened + 1 \in 1 .. MaxStarts
      BY <1>1, <3>1
    <3>3. parser.opening <= MaxStarts
      BY <1>1, <1>2
    <3> QED
      BY <1>1, <2>1, <3>2, <3>3
  <2> HIDE DEF s
  <2>3. parser' \in Parsers
    BY <1>1, <2>1, <2>2 DEF Parsers
  <2>4. /\ parser'.pos = parser.pos /\ parser'.raw = parser.raw
        /\ parser'.buffer = s /\ parser'.stream = s
        /\ parser'.opening = parser.opening - 1 /\ parser'.opened = s
        /\ parser'.encoding = parser.encoding
    BY <1>1, <2>1 DEF Parsers
  <2>5. parser'.opening + parser'.opened <= starts
    BY <1>1, <1>2, <2>4 DEF s
  <2> QED
    BY <1>1, <1>2, <2>1, <2>2, <2>3, <2>4, <2>5, ParserOnly
    DEF source, dialog, import, history
<1>5. CASE NotOpened
  <2>1. /\ parser' = [Cleared(parser) EXCEPT !.opening = @ - 1]
        /\ parser.opening > 0
        /\ UNCHANGED <<source, load, dialog, imported, starts>>
    BY <1>5 DEF NotOpened
  <2>2. /\ ready' \in BOOLEAN
        /\ progress' \in {"off", "waiting", "importing", "complete", "closed"}
        /\ fate' \in {"running", "hung", "aborted", "undefined"}
    BY <1>2, <1>5, HearsOfTyped DEF NotOpened
  <2>3. /\ Cleared(parser) \in Parsers
        /\ Cleared(parser).pos = 0 /\ Cleared(parser).buffer = 0
        /\ Cleared(parser).raw = parser.raw
        /\ Cleared(parser).encoding = parser.encoding
        /\ Cleared(parser).opening = parser.opening
        /\ Cleared(parser).opened = parser.opened
    BY <1>1, ClearedTyped
  <2>4. parser.opening - 1 \in 0 .. MaxStarts
    <3>1. parser.opening <= MaxStarts
      BY <1>1, <1>2
    <3> QED
      BY <1>1, <2>1, <3>1
  <2>5. parser' \in Parsers
    BY <2>1, <2>3, <2>4 DEF Parsers
  <2>6. /\ parser'.pos = 0 /\ parser'.raw = parser.raw /\ parser'.buffer = 0
        /\ parser'.opening = parser.opening - 1
        /\ parser'.opened = parser.opened
        /\ parser'.encoding = parser.encoding
    BY <2>1, <2>3 DEF Parsers
  <2>7. parser'.opening + parser'.opened <= starts
    BY <1>1, <1>2, <2>6
  <2> QED
    BY <1>1, <1>2, <2>1, <2>2, <2>5, <2>6, <2>7, ParserOnly
    DEF source, load, dialog
<1>6. ASSUME NEW s \in Streams, BufferRead(s)
      PROVE  ImportInv'
  <2>1. /\ UNCHANGED <<source, reading, dialog, import, imported, history>>
        /\ s \in reading /\ offset[s] < Len(file)
    BY <1>6 DEF BufferRead
  <2>2. CASE parser.buffer = s
    <3> DEFINE end == Min({offset[s] + ReadSize, Len(file)})
               bytes == SubSeq(file, offset[s] + 1, end)
    <3>1. /\ parser' = EnsureIdle([parser EXCEPT !.raw = @ \o bytes])
          /\ offset' = [offset EXCEPT ![s] = end]
          /\ UNCHANGED fate
      BY <1>6, <2>2 DEF BufferRead
    <3>2. end \in offset[s] .. Len(file) /\ offset[s] \in 0 .. Len(file)
      <4>1. offset[s] \in 0 .. Len(file)
        BY <1>2
      <4>2. offset[s] \in Nat /\ offset[s] <= Len(file) /\ ReadSize \in Nat
        BY <1>1, <4>1, CsvImportAssumption
      <4> QED
        BY <1>1, <4>1, <4>2, EndTyped
    <3> HIDE DEF end
    <3>3. bytes \in Seq(Bytes)
      <4>1. \A i \in offset[s] + 1 .. end : file[i] \in Bytes
        BY <1>1, <1>2, <3>2, ElementOfSeq
      <4> QED
        BY <1>1, <3>2, <4>1, SubSeqProperties
    <3> HIDE DEF bytes
    <3>4. /\ parser.raw \o bytes \in Seq(Bytes)
          /\ Len(parser.raw \o bytes) = Len(parser.raw) + Len(bytes)
          /\ Len(bytes) \in Nat
      BY <1>1, <3>3, ConcatProperties, LenProperties DEF Parsers
    <3> DEFINE raw == parser.raw \o bytes
    <3>5. Len(raw) \in Nat /\ parser.pos <= Len(raw) /\ raw \in Seq(Bytes)
      <4>1. parser.pos \in Nat
        BY <1>1 DEF Parsers
      <4>2. Len(raw) = Len(parser.raw) + Len(bytes)
        BY <3>4
      <4> HIDE DEF raw
      <4>3. Len(raw) \in Nat /\ parser.pos <= Len(raw)
        BY <1>1, <1>2, <3>4, <4>1, <4>2
      <4> QED
        BY <3>4, <4>3 DEF raw
    <3>6. parser' = [parser EXCEPT !.raw = raw, !.idle = TRUE]
      BY <1>1, <3>1 DEF EnsureIdle, Parsers
    <3> HIDE DEF raw
    <3>7. parser' \in Parsers
      BY <1>1, <3>5, <3>6 DEF Parsers
    <3>8. /\ parser'.pos = parser.pos /\ parser'.raw = raw
          /\ parser'.buffer = parser.buffer /\ parser'.stream = parser.stream
          /\ parser'.opening = parser.opening
          /\ parser'.opened = parser.opened
          /\ parser'.encoding = parser.encoding
      BY <1>1, <3>6 DEF Parsers
    <3>9. offset' \in [Streams -> 0 .. Len(file)]
      BY <1>1, <1>2, <3>1, <3>2
    <3> QED
      BY <1>1, <1>2, <2>1, <3>1, <3>5, <3>7, <3>8, <3>9, ParserOnly
      DEF source, dialog, import, history
  <2>3. CASE parser.buffer # s
    <3>1. fate' = "undefined" /\ UNCHANGED <<parser, offset>>
      BY <1>6, <2>3 DEF BufferRead
    <3> QED
      BY <1>1, <1>2, <2>1, <3>1, ParserOnly
      DEF source, dialog, import, history
  <2> QED
    BY <2>2, <2>3
<1>7. ASSUME NEW s \in Streams, EndRead(s)
      PROVE  ImportInv'
  <2>1. /\ UNCHANGED <<source, offset, dialog, import, imported, history>>
        /\ reading' = reading \ {s}
    BY <1>7 DEF EndRead
  <2>2. CASE parser.stream = 0
    <3>1. fate' = "undefined" /\ UNCHANGED parser
      BY <1>7, <2>2 DEF EndRead
    <3> QED
      BY <1>1, <1>2, <2>1, <3>1, ParserOnly
      DEF source, dialog, import, history
  <2>3. CASE parser.stream # 0
    <3>1. /\ parser' = EnsureIdle([parser EXCEPT !.stream = 0, !.buffer = 0])
          /\ UNCHANGED fate
      BY <1>7, <2>3 DEF EndRead
    <3>2. parser' = [parser EXCEPT !.stream = 0, !.buffer = 0, !.idle = TRUE]
      BY <3>1 DEF EnsureIdle
    <3>3. parser' \in Parsers
      <4>1. 0 \in 0 .. MaxStarts
        BY <1>1
      <4> QED
        BY <1>1, <3>2, <4>1 DEF Parsers
    <3>4. /\ parser'.pos = parser.pos /\ parser'.raw = parser.raw
          /\ parser'.buffer = 0
          /\ parser'.opening = parser.opening
          /\ parser'.opened = parser.opened
          /\ parser'.encoding = parser.encoding
      BY <1>1, <3>2 DEF Parsers
    <3> QED
      BY <1>1, <1>2, <2>1, <3>1, <3>3, <3>4, ParserOnly
      DEF source, dialog, import, history
  <2> QED
    BY <2>2, <2>3
<1>8. ASSUME NEW s \in Streams, ReadFails(s)
      PROVE  ImportInv'
  <2>1. /\ parser' = Cleared(parser) /\ reading' = reading \ {s}
        /\ UNCHANGED <<source, offset, dialog, imported, starts>>
    BY <1>8 DEF ReadFails
  <2>2. /\ ready' \in BOOLEAN
        /\ progress' \in {"off", "waiting", "importing", "complete", "closed"}
        /\ fate' \in {"running", "hung", "aborted", "undefined"}
    BY <1>2, <1>8, HearsOfTyped DEF ReadFails
  <2>3. /\ Cleared(parser) \in Parsers
        /\ Cleared(parser).pos = 0 /\ Cleared(parser).buffer = 0
        /\ Cleared(parser).raw = parser.raw
        /\ Cleared(parser).encoding = parser.encoding
        /\ Cleared(parser).opening = parser.opening
        /\ Cleared(parser).opened = parser.opened
    BY <1>1, ClearedTyped
  <2> QED
    BY <1>1, <1>2, <2>1, <2>2, <2>3, ParserOnly DEF source, dialog
<1>9. CASE ParsePiece
  <2> DEFINE q == Finished(After(parser, Piece))
  <2>1. /\ parser' = q /\ HearsOf(q.state)
        /\ ScannedFirst(q.rows)
        /\ UNCHANGED <<source, load, detect, button, imported, history>>
    BY <1>9 DEF ParsePiece
  <2>2. Piece \in Pieces /\ parser.pos + Piece.used <= Len(parser.raw)
    BY PieceFits
  <2> DEFINE p == After(parser, Piece)
             r == Scan(ScanOf(parser), Piece.chars)
  <2>3. /\ p = [parser EXCEPT !.line = r.line, !.quotes = r.quotes,
                  !.rows = r.rows, !.pos = @ + Piece.used,
                  !.idle = Piece.why # "EINVAL"
                           /\ parser.pos + Piece.used < Len(parser.raw)]
        /\ p \in Parsers /\ Finished(p) \in Parsers
    BY <1>1, <2>2, AfterTyped
  <2> HIDE DEF p, r
  <2>4. /\ p.pos = parser.pos + Piece.used /\ p.raw = parser.raw
        /\ p.buffer = parser.buffer /\ p.stream = parser.stream
        /\ p.opening = parser.opening /\ p.opened = parser.opened
        /\ p.encoding = parser.encoding
    BY <1>1, <2>3 DEF Parsers
  <2>5. /\ Finished(p).pos = p.pos /\ Finished(p).raw = p.raw
        /\ Finished(p).buffer = p.buffer /\ Finished(p).stream = p.stream
        /\ Finished(p).opening = p.opening /\ Finished(p).opened = p.opened
        /\ Finished(p).encoding = p.encoding
    BY <2>3 DEF Finished, Parsers
  <2>6. q = Finished(p)
    BY DEF p
  <2> HIDE DEF q
  <2>7. /\ ready' \in BOOLEAN
        /\ progress' \in {"off", "waiting", "importing", "complete", "closed"}
        /\ fate' \in {"running", "hung", "aborted", "undefined"}
    BY <1>2, <2>1, HearsOfTyped
  <2>8. columns' \in Nat /\ fields' \in SUBSET Nat
    <3>1. q.rows \in Seq(Seq(Seq(Chars)))
      BY <2>3, <2>6 DEF Parsers
    <3> QED
      BY <1>2, <2>1, <3>1, ScannedFirstTyped
  <2> QED
    BY <1>1, <1>2, <2>1, <2>2, <2>3, <2>4, <2>5, <2>6, <2>7, <2>8, ParserOnly
    DEF source, load, history
<1>10. CASE EncodingError
  <2> DEFINE next == IF detect = 0 THEN 0 ELSE detect + 1
             e == IF next \in DOMAIN AutoDetect THEN AutoDetect[next]
                  ELSE Cleared(parser).encoding
  <2>1. /\ detect' = next /\ parser' = [Cleared(parser) EXCEPT !.encoding = e]
        /\ Invalid(Piece) /\ columns' = 0
        /\ button' = (parser'.state # "none")
        /\ UNCHANGED <<source, load, fields, imported, starts>>
    BY <1>10 DEF EncodingError, Validated
  <2>2. /\ ready' \in BOOLEAN
        /\ progress' \in {"off", "waiting", "importing", "complete", "closed"}
        /\ fate' \in {"running", "hung", "aborted", "undefined"}
    BY <1>2, <1>10, HearsOfTyped DEF EncodingError
  <2>3. /\ Cleared(parser) \in Parsers
        /\ Cleared(parser).pos = 0 /\ Cleared(parser).buffer = 0
        /\ Cleared(parser).raw = parser.raw
        /\ Cleared(parser).encoding = parser.encoding
        /\ Cleared(parser).opening = parser.opening
        /\ Cleared(parser).opened = parser.opened
    BY <1>1, ClearedTyped
  <2>4. detect \in {0, 1}
    <3>1. parser.encoding # "latin1"
      BY <2>1, PieceFits
    <3> QED
      BY <1>2, <3>1, EncodingsAre
  <2>5. /\ next \in {0, 2}
        /\ e = IF next = 2 THEN "latin1" ELSE parser.encoding
        /\ e \in Encodings
    BY <1>1, <2>3, <2>4, EncodingsAre, SMTT(20) DEF Parsers
  <2> HIDE DEF next, e
  <2>6. parser' \in Parsers
    BY <2>1, <2>3, <2>5 DEF Parsers
  <2>7. /\ parser'.pos = 0 /\ parser'.raw = parser.raw /\ parser'.buffer = 0
        /\ parser'.opening = parser.opening
        /\ parser'.opened = parser.opened
        /\ parser'.encoding = e
    BY <2>1, <2>3 DEF Parsers
  <2>8. /\ detect' \in 0 .. 3
        /\ detect' # 0 =>
             detect' \in {1, 2} /\ parser'.encoding = AutoDetect[detect']
    BY <2>1, <2>5, <2>7, EncodingsAre
  <2>9. button' \in BOOLEAN /\ columns' \in Nat /\ fields' \in SUBSET Nat
    BY <1>2, <2>1
  <2>10. parser'.pos <= Len(parser'.raw)
         /\ parser'.opening + parser'.opened <= starts
    BY <1>1, <1>2, <2>7
  <2> QED
    BY <1>1, <1>2, <2>1, <2>2, <2>6, <2>7, <2>8, <2>9, <2>10, ParserOnly
    DEF source, load
<1>11. ASSUME NEW e \in Encodings, NEW d \in {0, 1}, ChangeEncoding(d, e)
       PROVE  ImportInv'
  <2>1. /\ starts < MaxStarts /\ detect' = d /\ starts' = starts + 1
        /\ d = 1 => e = AutoDetect[1]
        /\ UNCHANGED <<source, load, button, columns, fields, import,
                       imported, fate>>
    BY <1>11 DEF ChangeEncoding
  <2>2. PICK p \in Parsers :
          /\ parser' = [p EXCEPT !.state = "parsing", !.opening = @ + 1]
          /\ p.opening = parser.opening /\ p.opened = parser.opened
          /\ p.encoding = e /\ p.raw = parser.raw /\ p.pos <= Len(p.raw)
          /\ p.buffer \in {0, p.stream}
    <3>1. CASE e = parser.encoding
      BY <1>1, <1>2, <1>11, <3>1 DEF ChangeEncoding, Started
    <3>2. CASE e # parser.encoding
      <4> DEFINE p == [Cleared(parser) EXCEPT !.encoding = e]
      <4>1. /\ Cleared(parser) \in Parsers
            /\ Cleared(parser).pos = 0 /\ Cleared(parser).buffer = 0
            /\ Cleared(parser).raw = parser.raw
            /\ Cleared(parser).opening = parser.opening
            /\ Cleared(parser).opened = parser.opened
        BY <1>1, ClearedTyped
      <4>2. parser' = [p EXCEPT !.state = "parsing", !.opening = @ + 1]
        BY <1>11, <3>2 DEF ChangeEncoding, Started
      <4>3. p \in Parsers /\ p.encoding = e /\ p.pos = 0 /\ p.buffer = 0
            /\ p.raw = parser.raw /\ p.opening = parser.opening
            /\ p.opened = parser.opened
        BY <4>1 DEF Parsers
      <4> HIDE DEF p
      <4>4. p.pos <= Len(p.raw) /\ p.buffer \in {0, p.stream}
        BY <1>1, <4>3
      <4> QED
        BY <4>2, <4>3, <4>4
    <3> QED
      BY <3>1, <3>2
  <2>3. parser.opening + 1 \in 0 .. MaxStarts /\ starts + 1 \in Streams
        /\ parser.opening + 1 + parser.opened <= starts + 1
    <3>1. starts + 1 \in 1 .. MaxStarts
      BY <1>1, <2>1
    <3>2. parser.opening <= starts
          /\ parser.opening + 1 + parser.opened <= starts + 1
      BY <1>1, <1>2, SMTT(20)
    <3>3. parser.opening + 1 \in 0 .. MaxStarts
      BY <1>1, <3>1, <3>2
    <3> QED
      BY <1>1, <3>1, <3>2, <3>3
  <2>4. parser' \in Parsers
    BY <2>2, <2>3 DEF Parsers
  <2>5. /\ parser'.pos = p.pos /\ parser'.raw = p.raw
        /\ parser'.buffer = p.buffer /\ parser'.stream = p.stream
        /\ parser'.opening = parser.opening + 1
        /\ parser'.opened = parser.opened /\ parser'.encoding = e
    BY <2>2 DEF Parsers
  <2> QED
    BY <1>1, <1>2, <2>1, <2>2, <2>3, <2>4, <2>5, ParserOnly
    DEF source, load, import
<1>12. ASSUME NEW k \in 1 .. columns, ChooseField(k)
       PROVE  ImportInv'
  <2>1. /\ button' = (parser.state # "none")
        /\ fields' \subseteq fields \cup {k}
        /\ UNCHANGED <<source, parser, load, detect, columns, import, imported,
                       fate, history>>
    BY <1>12 DEF ChooseField, Validated
  <2>2. fields' \in SUBSET Nat
    <3>1. k \in Nat
      BY <1>2
    <3> QED
      BY <1>2, <2>1, <3>1
  <2>3. columns' \in Nat /\ button' \in BOOLEAN
    BY <1>2, <2>1
  <2> QED
    BY <1>1, <1>2, <2>1, <2>2, <2>3, ParserOnly
    DEF source, load, import, history
<1>13. CASE PressImport
  BY <1>1, <1>2, <1>13, ParserOnly
  DEF PressImport, source, load, dialog, import, history
<1>14. CASE FetchRowForEver
  BY <1>1, <1>2, <1>14, ParserOnly
  DEF FetchRowForEver, source, load, dialog, import, history
<1>15. CASE ImportRow
  <2>1. CASE parser.next < Len(parser.rows)
    <3> DEFINE record ==
                 [row |-> parser.rows[parser.next + 1], fields |-> fields]
    <3>1. /\ imported' = Append(imported, record)
          /\ parser' = [parser EXCEPT !.next = @ + 1]
          /\ UNCHANGED <<source, load, dialog, ready, fate, history, progress>>
      BY <1>15, <2>1 DEF ImportRow
    <3>2. record \in [row : Seq(Seq(Chars)), fields : SUBSET Nat]
      <4>1. parser.rows[parser.next + 1] \in Seq(Seq(Chars))
        BY <1>1, <2>1, ElementOfSeq DEF Parsers
      <4> QED
        BY <1>2, <4>1
    <3> HIDE DEF record
    <3>3. imported' \in Seq([row : Seq(Seq(Chars)), fields : SUBSET Nat])
      BY <1>2, <3>1, <3>2, AppendProperties
    <3>4. parser' \in Parsers
      <4>1. parser.next + 1 \in Nat
        BY <1>1 DEF Parsers
      <4> QED
        BY <1>1, <3>1, <4>1 DEF Parsers
    <3>5. /\ parser'.pos = parser.pos /\ parser'.raw = parser.raw
          /\ parser'.buffer = parser.buffer /\ parser'.stream = parser.stream
          /\ parser'.opening = parser.opening
          /\ parser'.opened = parser.opened
          /\ parser'.encoding = parser.encoding
      BY <1>1, <3>1 DEF Parsers
    <3> QED
      BY <1>1, <1>2, <3>1, <3>3, <3>4, <3>5, ParserOnly
      DEF source, load, dialog, history
  <2>2. CASE ~(parser.next < Len(parser.rows))
    <3>1. /\ progress' = "complete"
          /\ UNCHANGED <<parser, imported>>
          /\ UNCHANGED <<source, load, dialog, ready, fate, history>>
      BY <1>15, <2>2 DEF ImportRow
    <3> QED
      BY <1>1, <1>2, <3>1, ParserOnly DEF source, load, dialog, history
  <2> QED
    BY <2>1, <2>2
<1>16. CASE CancelImport
  BY <1>1, <1>2, <1>16, ParserOnly
  DEF CancelImport, source, load, dialog, history
<1>17. CASE CancelWithinImport
  BY <1>1, <1>2, <1>17, ParserOnly
  DEF CancelWithinImport, source, load, dialog, import, history
<1>18. CASE CloseDialog
  BY <1>1, <1>2, <1>18, ParserOnly
  DEF CloseDialog, source, load, dialog, history
<1>19. CASE LateAnswer
  BY <1>1, <1>2, <1>19, ParserOnly
  DEF LateAnswer, source, load, dialog, import, history
<1> QED
  BY <1>3, <1>4, <1>5, <1>6, <1>7, <1>8, <1>9, <1>10, <1>11, <1>12, <1>13,
     <1>14, <1>15, <1>16, <1>17, <1>18, <1>19
  DEF ImportNext, Opening, Reading, Parsing

(* Every reachable parser, dialog and import is well typed.                *)
THEOREM ImportTypeCorrect == ImportSpec => []ImportTypeOK
<1>1. ImportInv => ImportTypeOK
  BY DEF ImportInv
<1> QED
  BY <1>1, ImportInitTyped, ImportStepTyped, PTL DEF ImportSpec

----------------------------------------------------------------------------
(* The parser that was started once *)

(* There is one stream, and what has been read is what it has delivered.   *)
OneStream ==
  /\ reading \subseteq {1}
  /\ parser.opening + parser.opened <= 1
  /\ parser.raw = SubSeq(file, 1, offset[1])
  /\ 1 \in reading => parser.stream = 1 /\ parser.opened = 1
  /\ parser.opened = 0 => ~parser.idle /\ parser.stream = 0
  /\ parser.opened = 1 /\ parser.stream = 0 => offset[1] = Len(file)

(* The conversion of the file up to m_input_position would go on between   *)
(* two characters, and the scan of what it gave is where the parser is.    *)
ParsedSoFar ==
  \E D \in Seq(Chars) :
    /\ Conversion(parser.encoding, SubSeq(file, 1, parser.pos), Len(file)) =
         Between(D, parser.pos)
    /\ ScanOf(parser) = Scan(Unscanned, D)

(* A parser that says so has all rows and stays as it is; until then the   *)
(* import has taken none.                                                  *)
ScannedSoFar ==
  IF parser.state = "parsed"
  THEN /\ parser.rows = AllRows
       /\ ~parser.idle /\ reading = {} /\ parser.opening = 0
  ELSE ParsedSoFar /\ parser.next = 0

(* The records are of the rows up to m_row_index.                          *)
ImportedSoFar ==
  /\ parser.next <= Len(parser.rows)
  /\ Taken = SubSeq(parser.rows, 1, parser.next)
  /\ progress \in {"importing", "complete"} => parser.state = "parsed"
  /\ progress = "complete" => parser.next = Len(parser.rows)

(* The rows that records were made of.                                     *)
LEMMA RowsOfRecords ==
  ASSUME NEW q \in Seq([row : Seq(Seq(Chars)), fields : SUBSET Nat]), NEW t,
         t = [i \in DOMAIN q |-> q[i].row]
  PROVE  /\ t \in Seq(Seq(Seq(Chars))) /\ Len(t) = Len(q)
         /\ Len(q) \in Nat /\ DOMAIN q = 1 .. Len(q)
         /\ \A i \in 1 .. Len(q) : t[i] = q[i].row
<1> DEFINE n == Len(q)
<1>1. /\ n \in Nat /\ DOMAIN q = 1 .. n
      /\ \A i \in 1 .. n :
           q[i] \in [row : Seq(Seq(Chars)), fields : SUBSET Nat]
  BY LenProperties, ElementOfSeq
<1> HIDE DEF n
<1>2. t = [i \in 1 .. n |-> q[i].row]
  BY <1>1
<1>3. \A i \in 1 .. n : q[i].row \in Seq(Seq(Chars))
  BY <1>1
<1>4. t \in Seq(Seq(Seq(Chars)))
  BY <1>1, <1>2, <1>3, IsASeq
<1>5. Len(t) = n
  BY <1>1, <1>2, <1>4, LenProperties
<1> QED
  BY <1>1, <1>2, <1>4, <1>5 DEF n

(* Of no records they are none.                                            *)
LEMMA TakenOfNone == imported = <<>> => Taken = <<>>
<1> SUFFICES ASSUME imported = <<>> PROVE Taken = <<>>
  OBVIOUS
<1>1. Len(<<>>) = 0 /\ <<>> \in Seq(Nat)
  BY EmptySeq
<1>2. DOMAIN <<>> = {}
  BY <1>1, LenProperties
<1>3. <<>> = [i \in {} |-> <<>>[i].row]
  BY <1>2
<1> QED
  BY <1>2, <1>3 DEF Taken

(* Another record is another row.                                          *)
LEMMA TakenAppended ==
  ASSUME ImportInv, NEW record, record.row \in Seq(Seq(Chars)),
         record \in [row : Seq(Seq(Chars)), fields : SUBSET Nat],
         imported' = Append(imported, record)
  PROVE  /\ Taken' = Append(Taken, record.row)
         /\ DOMAIN imported' = DOMAIN imported \cup {Len(imported) + 1}
         /\ imported'[Len(imported) + 1] = record
         /\ \A i \in DOMAIN imported : imported'[i] = imported[i]
<1> DEFINE n == Len(imported)
           a == Taken'
           b == Append(Taken, record.row)
<1>1. /\ imported \in Seq([row : Seq(Seq(Chars)), fields : SUBSET Nat])
      /\ n \in Nat /\ DOMAIN imported = 1 .. n
      /\ Taken \in Seq(Seq(Seq(Chars))) /\ Len(Taken) = n
      /\ \A i \in 1 .. n : Taken[i] = imported[i].row
  BY RowsOfRecords DEF Taken, ImportInv, ImportTypeOK
<1>2. /\ imported' \in Seq([row : Seq(Seq(Chars)), fields : SUBSET Nat])
      /\ Len(imported') = n + 1 /\ imported'[n + 1] = record
      /\ \A i \in 1 .. n : imported'[i] = imported[i]
  BY <1>1, AppendProperties
<1>3. /\ b \in Seq(Seq(Seq(Chars))) /\ Len(b) = n + 1 /\ b[n + 1] = record.row
      /\ \A i \in 1 .. n : b[i] = Taken[i]
  BY <1>1, AppendProperties
<1>4. /\ a \in Seq(Seq(Seq(Chars))) /\ Len(a) = n + 1
      /\ DOMAIN imported' = 1 .. n + 1
      /\ \A i \in 1 .. n + 1 : a[i] = imported'[i].row
  BY <1>2, RowsOfRecords DEF Taken
<1> HIDE DEF a, b, n
<1>5. \A i \in 1 .. n + 1 : a[i] = b[i]
  <2> SUFFICES ASSUME NEW i \in 1 .. n + 1 PROVE a[i] = b[i]
    OBVIOUS
  <2>1. CASE i \in 1 .. n
    <3>1. imported'[i] = imported[i] /\ b[i] = Taken[i]
      BY <1>2, <1>3, <2>1
    <3> QED
      BY <1>1, <1>4, <2>1, <3>1
  <2>2. CASE i = n + 1
    BY <1>2, <1>3, <1>4, <2>2
  <2> QED
    BY <1>1, <2>1, <2>2
<1>6. a = b
  <2>1. Len(a) = Len(b) /\ Len(a) = n + 1
    BY <1>3, <1>4
  <2>2. \A i \in 1 .. Len(a) : a[i] = b[i]
    BY <1>5, <2>1
  <2>3. a \in Seq(Seq(Seq(Chars))) /\ b \in Seq(Seq(Seq(Chars)))
    BY <1>3, <1>4
  <2> QED
    BY <2>1, <2>2, <2>3, SeqEqual
<1>7. 1 .. n + 1 = (1 .. n) \cup {n + 1}
  BY <1>1
<1> QED
  BY <1>1, <1>2, <1>4, <1>6, <1>7 DEF a, b, n

(* All of it: what holds while Fresh does.                                 *)
SoFar == OneStream /\ ScannedSoFar /\ ImportedSoFar

(* Nothing has been parsed.                                                *)
LEMMA NothingParsed ==
  ASSUME NEW encoding, NEW max, file \in Seq(Bytes)
  PROVE  /\ Conversion(encoding, SubSeq(file, 1, 0), max) = Between(<<>>, 0)
         /\ Scan(Unscanned, <<>>) = Unscanned
         /\ <<>> \in Seq(Chars) /\ <<>> \in Seq(Seq(Seq(Chars)))
         /\ SubSeq(<<>>, 1, 0) = <<>>
<1>1. <<>> \in Seq(Chars) /\ <<>> \in Seq(Seq(Seq(Chars))) /\ Len(<<>>) = 0
  BY EmptySeq
<1>2. SubSeq(<<>>, 1, 0) = <<>>
  BY <1>1, Beginnings
<1>3. Conversion(encoding, SubSeq(file, 1, 0), max) = Unconverted
  BY ConversionSteps
<1>4. Scan(Unscanned, SubSeq(<<>>, 1, 0)) = Unscanned
  BY <1>1, ScanSteps
<1> QED
  BY <1>1, <1>2, <1>3, <1>4 DEF Unconverted, Between

(* It holds when the dialog has started the parser.                        *)
LEMMA SoFarInit == ImportInit => SoFar
<1> SUFFICES ASSUME ImportInit PROVE SoFar
  OBVIOUS
<1>1. file \in Seq(Bytes) /\ parser \in Parsers
  BY ImportInitTyped DEF ImportInv, ImportTypeOK
<1>2. /\ parser.encoding = AutoDetect[1] /\ parser.state = "parsing"
      /\ parser.raw = <<>> /\ parser.pos = 0 /\ parser.line = <<>>
      /\ parser.quotes = FALSE /\ parser.idle = FALSE /\ parser.rows = <<>>
      /\ parser.next = 0 /\ parser.opening = 1 /\ parser.opened = 0
      /\ parser.stream = 0
  BY DEF ImportInit, Started, NoParser
<1>3. 1 \in Streams
  BY CsvImportAssumption DEF Streams
<1>4. offset[1] = 0 /\ reading = {} /\ imported = <<>> /\ progress = "off"
  BY <1>3 DEF ImportInit
<1>5. SubSeq(file, 1, 0) = <<>>
  BY <1>1, Beginnings
<1>6. OneStream
  BY <1>2, <1>4, <1>5 DEF OneStream
<1>7. ParsedSoFar
  BY <1>1, <1>2, NothingParsed DEF ParsedSoFar, ScanOf, Unscanned
<1>8. ImportedSoFar
  <2>1. Len(<<>>) = 0 /\ 1 .. 0 = {} /\ DOMAIN <<>> = 1 .. Len(<<>>)
    BY EmptySeq, LenProperties
  <2>2. Taken = <<>>
    BY <1>4, <2>1, TakenOfNone
  <2> QED
    BY <1>1, <1>2, <1>4, <2>2, NothingParsed, EmptySeq DEF ImportedSoFar
<1> QED
  BY <1>2, <1>6, <1>7, <1>8 DEF SoFar, ScannedSoFar

(* A step that leaves the rows and what they were made of alone.           *)
LEMMA ScanKept ==
  ASSUME ScannedSoFar, file' = file,
         parser'.encoding = parser.encoding, parser'.state = parser.state,
         parser'.pos = parser.pos, parser'.line = parser.line,
         parser'.quotes = parser.quotes, parser'.rows = parser.rows,
         parser.state # "parsed" => parser'.next = parser.next,
         parser.state = "parsed" =>
           ~parser'.idle /\ reading' = {} /\ parser'.opening = 0
  PROVE  ScannedSoFar'
<1>1. CASE parser.state = "parsed"
  BY <1>1 DEF ScannedSoFar, AllRows
<1>2. CASE parser.state # "parsed"
  <2>1. ParsedSoFar'
    BY <1>2 DEF ScannedSoFar, ParsedSoFar, ScanOf
  <2> QED
    BY <1>2, <2>1 DEF ScannedSoFar
<1> QED
  BY <1>1, <1>2

(* A step that leaves rows, index and records alone.                       *)
LEMMA RecordsKept ==
  ASSUME ImportedSoFar, parser'.next = parser.next,
         parser'.rows = parser.rows, parser'.state = parser.state,
         imported' = imported, progress' = progress
  PROVE  ImportedSoFar'
BY DEF ImportedSoFar, Taken

(* A step of the dialogs only.                                             *)
LEMMA DialogsOnly ==
  ASSUME SoFar, parser' = parser, load' = load, source' = source,
         imported' = imported,
         progress' \in {"importing", "complete"} => parser.state = "parsed",
         progress' = "complete" => parser.next = Len(parser.rows)
  PROVE  SoFar'
<1>1. OneStream'
  BY DEF SoFar, OneStream, load, source
<1>2. ScannedSoFar'
  BY ScanKept DEF SoFar, ScannedSoFar, load, source
<1>3. ImportedSoFar'
  BY DEF SoFar, ImportedSoFar, Taken
<1> QED
  BY <1>1, <1>2, <1>3 DEF SoFar

(* clear() of a parser that has not parsed its file, at the beginning of a *)
(* line.                                                                   *)
LEMMA ClearedSoFar ==
  ASSUME ImportInv, SoFar, parser.state # "parsed", Forgets, ~stale',
         file' = file, imported' = imported,
         parser'.state = "none", parser'.rows = <<>>, parser'.pos = 0,
         parser'.quotes = FALSE, parser'.line = parser.line,
         parser'.next = parser.next,
         progress' \notin {"importing", "complete"}
  PROVE  ScannedSoFar' /\ ImportedSoFar'
<1>1. file' \in Seq(Bytes) /\ parser.line = <<>> /\ parser.next = 0
  BY DEF ImportInv, SoFar, ScannedSoFar, Forgets
<1>2. ParsedSoFar'
  <2>1. Conversion(parser'.encoding, SubSeq(file', 1, 0), Len(file')) =
          Between(<<>>, 0)
    BY <1>1, NothingParsed
  <2>2. ScanOf(parser') = Unscanned
    BY <1>1 DEF ScanOf, Unscanned
  <2>3. ScanOf(parser') = Scan(Unscanned, <<>>) /\ <<>> \in Seq(Chars)
    BY <1>1, <2>2, NothingParsed
  <2> QED
    BY <2>1, <2>3 DEF ParsedSoFar
<1>3. ScannedSoFar'
  BY <1>1, <1>2 DEF ScannedSoFar
<1>4. Taken = SubSeq(parser.rows, 1, 0) /\ parser.rows \in Seq(Seq(Seq(Chars)))
  BY <1>1 DEF SoFar, ImportedSoFar, ImportInv, ImportTypeOK, Parsers
<1>5. Taken' = <<>>
  BY <1>4, Beginnings DEF Taken
<1>6. Len(<<>>) = 0 /\ SubSeq(<<>>, 1, 0) = <<>>
  BY EmptySeq, <1>1, NothingParsed
<1>7. ImportedSoFar'
  BY <1>1, <1>5, <1>6 DEF ImportedSoFar
<1> QED
  BY <1>3, <1>7

(* What the stream delivers comes after what it has delivered.             *)
LEMMA ReadOn ==
  ASSUME NEW C, NEW s \in Seq(C), NEW m \in 0 .. Len(s), NEW n \in m .. Len(s)
  PROVE  SubSeq(s, 1, m) \o SubSeq(s, m + 1, n) = SubSeq(s, 1, n)
<1>1. Len(s) \in Nat /\ \A i \in 1 .. Len(s) : s[i] \in C
  BY LenProperties, ElementOfSeq
<1> DEFINE a == SubSeq(s, 1, m)
           b == SubSeq(s, m + 1, n)
           c == SubSeq(s, 1, n)
<1>2. a \in Seq(C) /\ Len(a) = m /\ \A i \in 1 .. m : a[i] = s[i]
  BY <1>1, SubSeqProperties
<1>3. b \in Seq(C) /\ Len(b) = n - m /\ \A i \in 1 .. n - m : b[i] = s[m + i]
  BY <1>1, SubSeqProperties
<1>4. c \in Seq(C) /\ Len(c) = n /\ \A i \in 1 .. n : c[i] = s[i]
  BY <1>1, SubSeqProperties
<1> HIDE DEF a, b, c
<1>5. /\ a \o b \in Seq(C) /\ Len(a \o b) = n
      /\ \A i \in 1 .. n : (a \o b)[i] = IF i <= m THEN a[i] ELSE b[i - m]
  <2>1. /\ a \o b \in Seq(C) /\ Len(a \o b) = Len(a) + Len(b)
        /\ \A i \in 1 .. Len(a) + Len(b) :
             (a \o b)[i] = IF i <= Len(a) THEN a[i] ELSE b[i - Len(a)]
    BY <1>2, <1>3, ConcatProperties
  <2>2. Len(a) = m /\ Len(a) + Len(b) = n
    BY <1>1, <1>2, <1>3
  <2> QED
    BY <2>1, <2>2
<1>6. \A i \in 1 .. n : (a \o b)[i] = c[i]
  <2> SUFFICES ASSUME NEW i \in 1 .. n PROVE (a \o b)[i] = c[i]
    OBVIOUS
  <2>1. CASE i <= m
    BY <1>2, <1>4, <1>5, <2>1
  <2>2. CASE i > m
    <3> DEFINE j == i - m
    <3>1. j \in 1 .. n - m /\ m + j = i
      BY <2>2
    <3>2. b[j] = s[m + j]
      BY <1>3, <3>1
    <3>3. (a \o b)[i] = b[j]
      <4>1. ~(i <= m)
        <5>1. m \in Nat /\ n \in Nat
          BY <1>1
        <5> QED
          BY <2>2, <5>1
      <4> QED
        BY <1>5, <4>1
    <3> HIDE DEF j
    <3> QED
      BY <1>4, <3>1, <3>2, <3>3
  <2>3. i <= m \/ i > m
    <3>1. m \in Nat
      BY <1>1
    <3>2. n \in Nat
      BY <1>1, <3>1
    <3> QED
      BY <3>1, <3>2
  <2> QED
    BY <2>1, <2>2, <2>3
<1> QED
  BY <1>4, <1>5, <1>6, SeqEqual DEF a, b, c

(* What is left of a part of a sequence.                                   *)
LEMMA RestOfPart ==
  ASSUME NEW C, NEW s \in Seq(C), NEW m \in 0 .. Len(s), NEW pos \in 0 .. m
  PROVE  SubSeq(SubSeq(s, 1, m), pos + 1, m) = SubSeq(s, pos + 1, m)
<1> DEFINE a == SubSeq(s, 1, m)
           b == SubSeq(a, pos + 1, m)
           c == SubSeq(s, pos + 1, m)
<1>1. Len(s) \in Nat /\ \A i \in 1 .. Len(s) : s[i] \in C
  BY LenProperties, ElementOfSeq
<1>2. a \in Seq(C) /\ Len(a) = m /\ \A i \in 1 .. m : a[i] = s[i]
  BY <1>1, SubSeqProperties
<1>3. \A i \in 1 .. m : a[i] \in C
  BY <1>1, <1>2
<1>4. c \in Seq(C) /\ Len(c) = m - pos
      /\ \A i \in 1 .. m - pos : c[i] = s[pos + i]
  BY <1>1, SubSeqProperties
<1> HIDE DEF a
<1>5. b \in Seq(C) /\ Len(b) = m - pos
      /\ \A i \in 1 .. m - pos : b[i] = a[pos + i]
  BY <1>1, <1>2, <1>3, SubSeqProperties
<1> HIDE DEF b, c
<1>6. \A i \in 1 .. m - pos : b[i] = c[i]
  <2> SUFFICES ASSUME NEW i \in 1 .. m - pos PROVE b[i] = c[i]
    OBVIOUS
  <2> DEFINE j == pos + i
  <2>1. j \in 1 .. m
    BY <1>1
  <2>2. b[i] = a[j] /\ c[i] = s[j]
    BY <1>4, <1>5
  <2> HIDE DEF j
  <2> QED
    BY <1>2, <2>1, <2>2
<1> QED
  BY <1>4, <1>5, <1>6, SeqEqual DEF a, b, c

(* on_idle_parse() goes on where the last call of it was.                  *)
LEMMA PieceSoFar ==
  ASSUME ImportInv, OneStream, ParsedSoFar, 1 \in Streams, ~Invalid(Piece)
  PROVE  LET p == After(parser, Piece)
         IN  /\ p \in Parsers
             /\ p.encoding = parser.encoding /\ p.raw = parser.raw
             /\ p.state = parser.state /\ p.next = parser.next
             /\ p.opening = parser.opening /\ p.opened = parser.opened
             /\ p.stream = parser.stream
             /\ p.pos \in Nat /\ p.pos <= Len(parser.raw)
             /\ p.idle => p.pos < Len(parser.raw)
             /\ \E D \in Seq(Chars) :
                  /\ Conversion(p.encoding, SubSeq(file, 1, p.pos), Len(file))
                       = Between(D, p.pos)
                  /\ ScanOf(p) = Scan(Unscanned, D)
<1> DEFINE m == offset[1]
           left == SubSeq(parser.raw, parser.pos + 1, Len(parser.raw))
           c == Conversion(parser.encoding, left, ConvertSize)
           p == After(parser, Piece)
<1>1. /\ file \in Seq(Bytes) /\ Len(file) \in Nat /\ m \in 0 .. Len(file)
      /\ parser \in Parsers /\ parser.pos \in Nat
      /\ parser.pos <= Len(parser.raw)
  <2>1. file \in Seq(Bytes) /\ m \in 0 .. Len(file) /\ parser \in Parsers
        /\ parser.pos <= Len(parser.raw)
    BY DEF ImportInv, ImportTypeOK
  <2>2. Len(file) \in Nat
    BY <2>1, LenProperties
  <2>3. parser.pos \in Nat
    BY <2>1 DEF Parsers
  <2> QED
    BY <2>1, <2>2, <2>3
<1>2. /\ Len(parser.raw) = m /\ left = SubSeq(file, parser.pos + 1, m)
      /\ parser.pos \in 0 .. m
  <2>1. parser.raw = SubSeq(file, 1, m)
    BY DEF OneStream
  <2>2. Len(parser.raw) = m
    BY <1>1, <2>1, Beginnings
  <2>3. parser.pos \in 0 .. m
    BY <1>1, <2>2
  <2>4. left = SubSeq(file, parser.pos + 1, m)
    BY <1>1, <2>1, <2>2, <2>3, RestOfPart
  <2> QED
    BY <2>2, <2>3, <2>4
<1>3. PICK D \in Seq(Chars) :
        /\ Conversion(parser.encoding, SubSeq(file, 1, parser.pos), Len(file))
             = Between(D, parser.pos)
        /\ ScanOf(parser) = Scan(Unscanned, D)
  BY DEF ParsedSoFar
<1>4. /\ Conversion(parser.encoding, SubSeq(file, 1, parser.pos + c.used),
                    Len(file)) = Between(D \o c.chars, parser.pos + c.used)
      /\ c \in Conversions
      /\ Piece = IF c.why = "done" /\ c.half
                 THEN [c EXCEPT !.why = "EINVAL"] ELSE c
  <2>0. c = Conversion(parser.encoding, SubSeq(file, parser.pos + 1, m),
                       ConvertSize)
    BY <1>2
  <2> HIDE DEF m, c, left
  <2>1. /\ c.used <= m - parser.pos
        /\ Conversion(parser.encoding, SubSeq(file, 1, parser.pos + c.used),
                      Len(file)) = Between(D \o c.chars, parser.pos + c.used)
    BY <1>1, <1>2, <1>3, <2>0, PieceConverted
  <2> QED
    BY <2>1, PieceTyped DEF c, left
<1> HIDE DEF c
<1>5. Piece.chars = c.chars /\ Piece.used = c.used
  BY <1>4 DEF Conversions
<1>6. Piece \in Pieces /\ parser.pos + Piece.used <= Len(parser.raw)
  BY PieceFits
<1> DEFINE r == Scan(ScanOf(parser), Piece.chars)
<1>7. /\ p = [parser EXCEPT !.line = r.line, !.quotes = r.quotes,
                !.rows = r.rows, !.pos = @ + Piece.used,
                !.idle = Piece.why # "EINVAL"
                         /\ parser.pos + Piece.used < Len(parser.raw)]
      /\ p \in Parsers /\ r \in Scans
  BY <1>1, <1>6, AfterTyped
<1>8. r = Scan(Unscanned, D \o c.chars) /\ D \o c.chars \in Seq(Chars)
  <2>1. c.chars \in Seq(Chars)
    BY <1>4 DEF Conversions
  <2>2. Unscanned \in Scans
    BY EmptySeq DEF Unscanned, Scans
  <2>3. Scan(Unscanned, D \o c.chars) = Scan(Scan(Unscanned, D), c.chars)
    BY <2>1, <2>2, ScanStepTyped, RanConcat DEF Scan
  <2> QED
    BY <1>3, <1>5, <2>1, <2>3, ConcatProperties
<1> HIDE DEF p, r
<1>9. /\ p.encoding = parser.encoding /\ p.raw = parser.raw
      /\ p.state = parser.state /\ p.next = parser.next
      /\ p.opening = parser.opening /\ p.opened = parser.opened
      /\ p.stream = parser.stream /\ p.pos = parser.pos + Piece.used
      /\ p.idle = (Piece.why # "EINVAL"
                   /\ parser.pos + Piece.used < Len(parser.raw))
      /\ p.line = r.line /\ p.quotes = r.quotes /\ p.rows = r.rows
  BY <1>1, <1>7 DEF Parsers
<1>10. ScanOf(p) = r
  BY <1>7, <1>9 DEF ScanOf, Scans
<1>11. p.pos \in Nat
  BY <1>7 DEF Parsers
<1> HIDE DEF m, left
<1>12. /\ Conversion(p.encoding, SubSeq(file, 1, p.pos), Len(file))
            = Between(D \o c.chars, p.pos)
       /\ ScanOf(p) = Scan(Unscanned, D \o c.chars)
  BY <1>4, <1>5, <1>8, <1>9, <1>10
<1> QED
  BY <1>6, <1>7, <1>8, <1>9, <1>11, <1>12 DEF p

(* When all has been read and parsed, the rows are those of the file.      *)
LEMMA FinishedSoFar ==
  ASSUME file \in Seq(Bytes), NEW p \in Parsers, NEW D \in Seq(Chars),
         Conversion(p.encoding, file, Len(file)) = Between(D, p.pos),
         ScanOf(p) = Scan(Unscanned, D)
  PROVE  RowsOf(Converted(p.encoding, file, Len(file)).chars) =
           IF p.line = <<>> THEN p.rows ELSE Append(p.rows, FieldsOf(p.line))
<1>1. Converted(p.encoding, file, Len(file)).chars = D
  <2>1. Converted(p.encoding, file, Len(file)) =
          LET c == Conversion(p.encoding, file, Len(file))
          IN  IF c.why = "done" /\ c.half THEN [c EXCEPT !.why = "EINVAL"]
              ELSE c
    BY ConvertedIsConversion
  <2> QED
    BY <2>1 DEF Between
<1>2. p.line = Scan(Unscanned, D).line /\ p.rows = Scan(Unscanned, D).rows
  <2>1. p.line = ScanOf(p).line /\ p.rows = ScanOf(p).rows
    BY DEF ScanOf
  <2> QED
    BY <2>1
<1>3. RowsOf(D) = IF Scan(Unscanned, D).line = <<>> THEN Scan(Unscanned, D).rows
                  ELSE Append(Scan(Unscanned, D).rows,
                              FieldsOf(Scan(Unscanned, D).line))
  BY AllRowsFound
<1> QED
  BY <1>1, <1>2, <1>3

(* One step of a parser that was started once.                             *)
LEMMA SoFarStep ==
  ASSUME ImportInv, Fresh => SoFar, [ImportNext]_importVars, Fresh'
  PROVE  SoFar'
<1>1. /\ parser \in Parsers /\ Len(parser.raw) \in Nat
      /\ Len(file) \in Nat /\ Len(parser.rows) \in Nat
      /\ starts \in Nat /\ starts <= MaxStarts /\ MaxStarts \in Nat
      /\ Streams = 1 .. MaxStarts
      /\ parser.opening \in Nat /\ parser.opened \in Nat
  BY ImportInvTypes
<1>2. /\ file \in Seq(Bytes) /\ starts >= 1 /\ 1 \in Streams
      /\ offset \in [Streams -> 0 .. Len(file)] /\ parser.next \in Nat
      /\ parser.rows \in Seq(Seq(Seq(Chars)))
  <2>1. file \in Seq(Bytes) /\ starts \in Streams
        /\ offset \in [Streams -> 0 .. Len(file)]
    BY DEF ImportInv, ImportTypeOK
  <2>2. parser.next \in Nat /\ parser.rows \in Seq(Seq(Seq(Chars)))
    BY <1>1 DEF Parsers
  <2>3. starts >= 1 /\ 1 \in Streams
    BY <1>1, <2>1
  <2> QED
    BY <2>1, <2>2, <2>3
<1>3. CASE UNCHANGED importVars
  <2>1. SoFar
    BY <1>3 DEF importVars, Fresh, Running, history
  <2> QED
    BY <1>3, <2>1, DialogsOnly
    DEF importVars, import, SoFar, ImportedSoFar
<1>4. CASE Opened
  <2> DEFINE s == parser.opened + 1
  <2>1. /\ parser' = [parser EXCEPT !.opening = @ - 1, !.opened = s,
                         !.stream = s, !.buffer = s, !.idle = TRUE]
        /\ reading' = reading \cup {s} /\ parser.opening > 0
        /\ UNCHANGED <<file, offset, progress, imported, fate, starts, stale>>
        /\ Running
    BY <1>4 DEF Opened, source, import, history, Shown
  <2>2. OneStream /\ ScannedSoFar /\ ImportedSoFar
    BY <2>1 DEF Fresh, SoFar
  <2>3. parser.opened = 0 /\ parser.opening = 1 /\ s = 1
    BY <1>1, <2>1, <2>2 DEF OneStream
  <2> HIDE DEF s
  <2>4. /\ parser'.opening = 0 /\ parser'.opened = 1 /\ parser'.stream = 1
        /\ parser'.raw = parser.raw /\ parser'.encoding = parser.encoding
        /\ parser'.state = parser.state /\ parser'.pos = parser.pos
        /\ parser'.line = parser.line /\ parser'.quotes = parser.quotes
        /\ parser'.rows = parser.rows /\ parser'.next = parser.next
    BY <1>1, <2>1, <2>3 DEF Parsers
  <2>5. OneStream'
    BY <2>1, <2>2, <2>3, <2>4 DEF OneStream
  <2>6. ScannedSoFar'
    BY <2>1, <2>2, <2>3, <2>4, ScanKept DEF ScannedSoFar
  <2>7. ImportedSoFar'
    BY <2>1, <2>2, <2>4, RecordsKept
  <2> QED
    BY <2>5, <2>6, <2>7 DEF SoFar
<1>5. CASE NotOpened
  <2>1. /\ parser' = [Cleared(parser) EXCEPT !.opening = parser.opening - 1]
        /\ parser.opening > 0 /\ Forgets /\ HearsOf("none") /\ Running
        /\ UNCHANGED <<file, reading, offset, imported, starts>>
    BY <1>1, <1>5 DEF NotOpened, source, load, Shown, Cleared, Parsers
  <2>2. OneStream /\ ScannedSoFar /\ ImportedSoFar
    BY <2>1 DEF Fresh, SoFar, Forgets
  <2>3. parser.opened = 0 /\ parser.opening = 1 /\ parser.state # "parsed"
    BY <1>1, <2>1, <2>2 DEF OneStream, ScannedSoFar
  <2>4. /\ parser'.opening = 0 /\ parser'.opened = 0
        /\ parser'.stream = parser.stream /\ ~parser'.idle
        /\ parser'.raw = parser.raw /\ parser'.state = "none"
        /\ parser'.pos = 0 /\ parser'.line = parser.line
        /\ parser'.quotes = FALSE
        /\ parser'.rows = <<>> /\ parser'.next = parser.next
    BY <1>1, <2>1, <2>3 DEF Cleared, Parsers
  <2>5. OneStream'
    BY <2>1, <2>2, <2>3, <2>4 DEF OneStream
  <2>6. progress' \notin {"importing", "complete"}
    BY <2>1, <2>2, <2>3 DEF HearsOf, import, ImportedSoFar
  <2> QED
    BY <2>1, <2>2, <2>3, <2>4, <2>5, <2>6, ClearedSoFar DEF SoFar, Fresh
<1>6. ASSUME NEW s \in Streams, BufferRead(s)
      PROVE  SoFar'
  <2>1. /\ UNCHANGED <<file, reading, progress, imported, starts, stale>>
        /\ s \in reading /\ offset[s] < Len(file) /\ Running
    BY <1>6 DEF BufferRead, source, import, history, Shown
  <2>2. OneStream /\ ScannedSoFar /\ ImportedSoFar
    BY <2>1 DEF Fresh, SoFar
  <2>3. s = 1 /\ parser.stream = 1 /\ parser.opened = 1
        /\ parser.state # "parsed"
    BY <2>1, <2>2 DEF OneStream, ScannedSoFar
  <2>4. parser.buffer = s
    BY <1>6 DEF BufferRead, Fresh, Running
  <2> DEFINE end == Min({offset[s] + ReadSize, Len(file)})
             bytes == SubSeq(file, offset[s] + 1, end)
  <2>5. /\ parser' = [parser EXCEPT !.raw = parser.raw \o bytes, !.idle = TRUE]
        /\ offset' = [offset EXCEPT ![s] = end]
    BY <1>1, <1>6, <2>4 DEF BufferRead, EnsureIdle, Parsers
  <2>6. end \in offset[s] .. Len(file) /\ offset[s] \in 0 .. Len(file)
    <3>1. offset[s] \in 0 .. Len(file)
      BY <1>2
    <3>2. offset[s] \in Nat /\ offset[s] <= Len(file) /\ ReadSize \in Nat
      BY <1>1, <3>1, CsvImportAssumption
    <3> QED
      BY <1>1, <3>1, <3>2, EndTyped
  <2> HIDE DEF end
  <2>7. SubSeq(file, 1, offset[s]) \o bytes = SubSeq(file, 1, end)
    BY <1>2, <2>6, ReadOn
  <2> HIDE DEF bytes
  <2>8. /\ parser'.raw = SubSeq(file, 1, end) /\ offset'[1] = end
        /\ parser'.opening = parser.opening /\ parser'.opened = parser.opened
        /\ parser'.stream = parser.stream
        /\ parser'.encoding = parser.encoding
        /\ parser'.state = parser.state /\ parser'.pos = parser.pos
        /\ parser'.line = parser.line /\ parser'.quotes = parser.quotes
        /\ parser'.rows = parser.rows /\ parser'.next = parser.next
    <3>1. parser.raw = SubSeq(file, 1, offset[s])
      BY <2>2, <2>3 DEF OneStream
    <3>2. offset'[1] = end
      BY <1>2, <2>3, <2>5
    <3> QED
      BY <1>1, <2>5, <2>7, <3>1, <3>2 DEF Parsers
  <2>9. OneStream'
    BY <2>1, <2>2, <2>3, <2>8 DEF OneStream
  <2>10. ScannedSoFar'
    BY <2>1, <2>2, <2>3, <2>8, ScanKept
  <2>11. ImportedSoFar'
    BY <2>1, <2>2, <2>8, RecordsKept
  <2> QED
    BY <2>9, <2>10, <2>11 DEF SoFar
<1>7. ASSUME NEW s \in Streams, EndRead(s)
      PROVE  SoFar'
  <2>1. /\ UNCHANGED <<file, offset, progress, imported, starts, stale>>
        /\ s \in reading /\ reading' = reading \ {s} /\ Running
        /\ offset[s] = Len(file) \/ parser.stream # s
    BY <1>7 DEF EndRead, source, import, history, Shown
  <2>2. OneStream /\ ScannedSoFar /\ ImportedSoFar
    BY <2>1 DEF Fresh, SoFar
  <2>3. s = 1 /\ parser.stream = 1 /\ parser.opened = 1
        /\ parser.state # "parsed" /\ offset[1] = Len(file)
    BY <2>1, <2>2 DEF OneStream, ScannedSoFar
  <2>4. parser' = [parser EXCEPT !.stream = 0, !.buffer = 0, !.idle = TRUE]
    BY <1>7, <2>3 DEF EndRead, EnsureIdle
  <2>5. /\ parser'.opening = parser.opening /\ parser'.opened = parser.opened
        /\ parser'.stream = 0 /\ parser'.raw = parser.raw
        /\ parser'.encoding = parser.encoding
        /\ parser'.state = parser.state /\ parser'.pos = parser.pos
        /\ parser'.line = parser.line /\ parser'.quotes = parser.quotes
        /\ parser'.rows = parser.rows /\ parser'.next = parser.next
    BY <1>1, <2>4 DEF Parsers
  <2>6. OneStream'
    BY <2>1, <2>2, <2>3, <2>5 DEF OneStream
  <2>7. ScannedSoFar'
    BY <2>1, <2>2, <2>3, <2>5, ScanKept
  <2>8. ImportedSoFar'
    BY <2>1, <2>2, <2>5, RecordsKept
  <2> QED
    BY <2>6, <2>7, <2>8 DEF SoFar
<1>8. ASSUME NEW s \in Streams, ReadFails(s)
      PROVE  SoFar'
  <2>1. /\ parser' = Cleared(parser) /\ reading' = reading \ {s}
        /\ s \in reading /\ Forgets /\ HearsOf("none") /\ Running
        /\ UNCHANGED <<file, offset, imported, starts>>
    BY <1>8 DEF ReadFails, source, Shown
  <2>2. OneStream /\ ScannedSoFar /\ ImportedSoFar
    BY <2>1 DEF Fresh, SoFar, Forgets
  <2>3. parser.state # "parsed"
    BY <2>1, <2>2 DEF ScannedSoFar
  <2>4. /\ parser'.opening = parser.opening /\ parser'.opened = parser.opened
        /\ parser'.stream = parser.stream /\ ~parser'.idle
        /\ parser'.raw = parser.raw /\ parser'.state = "none"
        /\ parser'.pos = 0 /\ parser'.line = parser.line
        /\ parser'.quotes = FALSE
        /\ parser'.rows = <<>> /\ parser'.next = parser.next
    BY <1>1, <2>1 DEF Cleared, Parsers
  <2>5. OneStream'
    BY <2>1, <2>2, <2>4 DEF OneStream
  <2>6. progress' \notin {"importing", "complete"}
    BY <2>1, <2>2, <2>3 DEF HearsOf, import, ImportedSoFar
  <2> QED
    BY <2>1, <2>2, <2>3, <2>4, <2>5, <2>6, ClearedSoFar DEF SoFar, Fresh
<1>9. CASE ParsePiece
  <2> DEFINE p == After(parser, Piece)
             q == Finished(p)
  <2>1. /\ parser' = q /\ HearsOf(q.state) /\ ~Invalid(Piece)
        /\ parser.idle /\ Running
        /\ UNCHANGED <<file, reading, offset, imported, starts, stale>>
    BY <1>9 DEF ParsePiece, source, load, history, Shown
  <2>2. OneStream /\ ScannedSoFar /\ ImportedSoFar
    BY <2>1 DEF Fresh, SoFar
  <2>3. /\ parser.state # "parsed" /\ ParsedSoFar /\ parser.next = 0
        /\ parser.opened = 1 /\ parser.opening = 0
        /\ progress \notin {"importing", "complete"} /\ Taken' = <<>>
    <3>1. parser.state # "parsed" /\ ParsedSoFar /\ parser.next = 0
      BY <2>1, <2>2 DEF ScannedSoFar
    <3>2. parser.opened = 1 /\ parser.opening = 0
      BY <1>1, <2>1, <2>2 DEF OneStream
    <3>3. Taken' = SubSeq(parser.rows, 1, 0)
      BY <2>1, <2>2, <3>1 DEF ImportedSoFar, Taken
    <3> QED
      BY <1>2, <2>2, <3>1, <3>2, <3>3, Beginnings DEF ImportedSoFar
  <2>4. /\ p \in Parsers
        /\ p.encoding = parser.encoding /\ p.raw = parser.raw
        /\ p.state = parser.state /\ p.next = parser.next
        /\ p.opening = parser.opening /\ p.opened = parser.opened
        /\ p.stream = parser.stream
        /\ p.pos \in Nat /\ p.pos <= Len(parser.raw)
        /\ p.idle => p.pos < Len(parser.raw)
    BY <1>2, <2>1, <2>2, <2>3, PieceSoFar
  <2>5. PICK D \in Seq(Chars) :
          /\ Conversion(p.encoding, SubSeq(file, 1, p.pos), Len(file))
               = Between(D, p.pos)
          /\ ScanOf(p) = Scan(Unscanned, D)
    BY <1>2, <2>1, <2>2, <2>3, PieceSoFar
  <2> HIDE DEF p
  <2>6. /\ q.encoding = p.encoding /\ q.raw = p.raw /\ q.next = p.next
        /\ q.opening = p.opening /\ q.opened = p.opened
        /\ q.stream = p.stream /\ q.pos = p.pos /\ q.idle = p.idle
        /\ q.rows \in Seq(Seq(Seq(Chars)))
    <3>1. q \in {p, [p EXCEPT !.state = "parsed", !.rows = p.rows],
                 [p EXCEPT !.state = "parsed",
                           !.rows = Append(p.rows, FieldsOf(p.line))]}
      BY DEF Finished
    <3>2. Append(p.rows, FieldsOf(p.line)) \in Seq(Seq(Seq(Chars)))
      BY <2>4, FieldsOfTyped, AppendProperties DEF Parsers
    <3> HIDE DEF q
    <3> QED
      BY <2>4, <3>1, <3>2 DEF Parsers
  <2>7. OneStream'
    BY <2>1, <2>2, <2>3, <2>4, <2>6 DEF OneStream
  <2>8. CASE p.stream # 0 \/ p.pos < Len(p.raw)
    <3>1. q = p
      BY <2>8 DEF Finished
    <3> HIDE DEF q
    <3>2. ParsedSoFar'
      BY <2>1, <2>5, <3>1 DEF ParsedSoFar
    <3>3. ScannedSoFar'
      BY <2>1, <2>3, <2>4, <3>1, <3>2 DEF ScannedSoFar
    <3>4. progress' \notin {"importing", "complete"}
      BY <2>1, <2>3, <2>4, <3>1 DEF HearsOf, import
    <3>5. ImportedSoFar'
      BY <2>1, <2>3, <2>4, <2>6, <3>4, Beginnings, LenProperties
      DEF ImportedSoFar
    <3> QED
      BY <2>7, <3>3, <3>5 DEF SoFar
  <2>9. CASE ~(p.stream # 0 \/ p.pos < Len(p.raw))
    <3>1. /\ q = [p EXCEPT !.state = "parsed",
                    !.rows = IF p.line = <<>> THEN p.rows
                             ELSE Append(p.rows, FieldsOf(p.line))]
          /\ p.stream = 0
      BY <2>4, <2>9 DEF Finished
    <3>2. q.state = "parsed"
          /\ q.rows = IF p.line = <<>> THEN p.rows
                      ELSE Append(p.rows, FieldsOf(p.line))
      BY <2>4, <3>1 DEF Parsers
    <3>3. offset[1] = Len(file) /\ 1 \notin reading /\ reading = {}
      BY <2>2, <2>3, <2>4, <3>1 DEF OneStream
    <3>4. parser.raw = file
      BY <1>2, <2>2, <3>3, Beginnings DEF OneStream
    <3>5. p.pos = Len(file) /\ ~p.idle
      BY <1>1, <2>4, <2>9, <3>4
    <3>6. Conversion(p.encoding, file, Len(file)) = Between(D, p.pos)
      BY <1>2, <2>5, <3>5, Beginnings
    <3>7. q.rows = RowsOf(Converted(q.encoding, file, Len(file)).chars)
      BY <1>2, <2>4, <2>5, <2>6, <3>2, <3>6, FinishedSoFar
    <3> HIDE DEF q
    <3>8. ScannedSoFar'
      BY <2>1, <2>3, <2>4, <2>6, <3>2, <3>3, <3>5, <3>7
      DEF ScannedSoFar, AllRows
    <3>9. progress' # "complete"
      BY <2>1, <2>3, <3>2 DEF HearsOf, import
    <3>10. ImportedSoFar'
      BY <2>1, <2>3, <2>4, <2>6, <3>2, <3>9, Beginnings, LenProperties
      DEF ImportedSoFar
    <3> QED
      BY <2>7, <3>8, <3>10 DEF SoFar
  <2> QED
    BY <2>8, <2>9
<1>10. CASE EncodingError
  <2> DEFINE next == IF detect = 0 THEN 0 ELSE detect + 1
             e == IF next \in DOMAIN AutoDetect THEN AutoDetect[next]
                  ELSE Cleared(parser).encoding
  <2>1. /\ parser' = [Cleared(parser) EXCEPT !.encoding = e]
        /\ parser.idle /\ Forgets /\ HearsOf("encoding_error") /\ Running
        /\ UNCHANGED <<file, reading, offset, imported, starts>>
    BY <1>10 DEF EncodingError, source, load, Shown
  <2> HIDE DEF e
  <2>2. OneStream /\ ScannedSoFar /\ ImportedSoFar
    BY <2>1 DEF Fresh, SoFar, Forgets
  <2>3. parser.state # "parsed"
    BY <2>1, <2>2 DEF ScannedSoFar
  <2>4. /\ parser'.opening = parser.opening /\ parser'.opened = parser.opened
        /\ parser'.stream = parser.stream /\ ~parser'.idle
        /\ parser'.raw = parser.raw /\ parser'.state = "none"
        /\ parser'.pos = 0 /\ parser'.line = parser.line
        /\ parser'.quotes = FALSE
        /\ parser'.rows = <<>> /\ parser'.next = parser.next
    BY <1>1, <2>1 DEF Cleared, Parsers
  <2>5. OneStream'
    BY <2>1, <2>2, <2>4 DEF OneStream
  <2>6. progress' \notin {"importing", "complete"}
    BY <2>1, <2>2, <2>3 DEF HearsOf, import, ImportedSoFar
  <2> QED
    BY <2>1, <2>2, <2>3, <2>4, <2>5, <2>6, ClearedSoFar DEF SoFar, Fresh
<1>11. ASSUME NEW e \in Encodings, NEW d \in {0, 1}, ChangeEncoding(d, e)
       PROVE  SoFar'
  BY <1>1, <1>2, <1>11 DEF ChangeEncoding, Fresh
<1>12. ASSUME NEW k \in 1 .. columns, ChooseField(k)
       PROVE  SoFar'
  BY <1>12, DialogsOnly
  DEF ChooseField, import, history, Fresh, SoFar, ImportedSoFar
<1>13. CASE PressImport
  BY <1>13, DialogsOnly
  DEF PressImport, import, history, Fresh, Running, SoFar, ImportedSoFar
<1>14. CASE FetchRowForEver
  BY <1>14 DEF FetchRowForEver, Fresh, Running
<1>15. CASE ImportRow
  <2>1. /\ progress = "importing" /\ Running
        /\ UNCHANGED <<source, load, fate, starts, stale>>
    BY <1>15 DEF ImportRow, history
  <2>2. OneStream /\ ScannedSoFar /\ ImportedSoFar /\ parser.state = "parsed"
    BY <2>1 DEF Fresh, SoFar, ImportedSoFar
  <2>3. CASE parser.next < Len(parser.rows)
    <3> DEFINE n == parser.next + 1
    <3>1. /\ imported' =
               Append(imported, [row |-> parser.rows[n], fields |-> fields])
          /\ parser' = [parser EXCEPT !.next = n] /\ progress' = progress
      BY <1>15, <2>3 DEF ImportRow
    <3>2. n \in 1 .. Len(parser.rows) /\ n \in Nat /\ n - 1 = parser.next
      <4>1. Len(parser.rows) \in Nat /\ parser.next \in Nat
        BY <1>1, <1>2
      <4> QED
        BY <2>3, <4>1
    <3> HIDE DEF n
    <3>3. SubSeq(parser.rows, 1, n) =
            Append(SubSeq(parser.rows, 1, n - 1), parser.rows[n])
      BY <1>2, <3>2, Beginnings
    <3>4. Taken' = SubSeq(parser.rows, 1, n)
      <4> DEFINE record == [row |-> parser.rows[n], fields |-> fields]
      <4>1. parser.rows[n] \in Seq(Seq(Chars)) /\ fields \in SUBSET Nat
        BY <1>2, <3>2, ElementOfSeq DEF ImportInv, ImportTypeOK
      <4>2. /\ record \in [row : Seq(Seq(Chars)), fields : SUBSET Nat]
            /\ record.row = parser.rows[n]
        BY <4>1
      <4>3. imported' = Append(imported, record)
        BY <3>1
      <4> HIDE DEF record
      <4>4. Taken' = Append(Taken, record.row)
        BY <4>1, <4>2, <4>3, TakenAppended
      <4> QED
        BY <2>2, <3>2, <3>3, <4>2, <4>4 DEF ImportedSoFar
    <3>5. /\ parser'.opening = parser.opening
          /\ parser'.opened = parser.opened
          /\ parser'.stream = parser.stream /\ parser'.raw = parser.raw
          /\ parser'.encoding = parser.encoding /\ parser'.idle = parser.idle
          /\ parser'.state = parser.state /\ parser'.pos = parser.pos
          /\ parser'.line = parser.line /\ parser'.quotes = parser.quotes
          /\ parser'.rows = parser.rows /\ parser'.next = n
      BY <1>1, <3>1 DEF Parsers
    <3>6. OneStream'
      BY <2>1, <2>2, <3>5 DEF OneStream, source, load
    <3>7. ScannedSoFar'
      BY <2>1, <2>2, <3>5, ScanKept DEF ScannedSoFar, source, load
    <3>8. ImportedSoFar'
      <4>1. n <= Len(parser.rows)
        BY <1>1, <3>2
      <4>2. progress' = "importing" /\ parser'.state = "parsed"
        BY <2>1, <2>2, <3>1, <3>5
      <4>3. /\ parser'.next = n /\ parser'.rows = parser.rows
            /\ Taken' = SubSeq(parser.rows, 1, n)
        BY <3>4, <3>5
      <4> QED
        BY <4>1, <4>2, <4>3 DEF ImportedSoFar
    <3> QED
      BY <3>6, <3>7, <3>8 DEF SoFar
  <2>4. CASE ~(parser.next < Len(parser.rows))
    <3>1. UNCHANGED <<parser, imported>>
      BY <1>15, <2>4 DEF ImportRow
    <3>2. parser.next = Len(parser.rows)
      BY <1>1, <1>2, <2>2, <2>4 DEF ImportedSoFar
    <3> QED
      BY <2>1, <2>2, <3>1, <3>2, DialogsOnly DEF SoFar
  <2> QED
    BY <2>3, <2>4
<1>16. CASE CancelImport
  BY <1>16, DialogsOnly
  DEF CancelImport, history, Fresh, Running
<1>17. CASE CancelWithinImport
  BY <1>17 DEF CancelWithinImport, Fresh, Running
<1>18. CASE CloseDialog
  BY <1>18, DialogsOnly DEF CloseDialog, history, Fresh, Running
<1>19. CASE LateAnswer
  BY <1>19 DEF LateAnswer, Fresh, Running
<1> QED
  BY <1>3, <1>4, <1>5, <1>6, <1>7, <1>8, <1>9, <1>10, <1>11, <1>12, <1>13,
     <1>14, <1>15, <1>16, <1>17, <1>18, <1>19
  DEF ImportNext, Opening, Reading, Parsing

(* It holds in every reachable state.                                      *)
LEMMA SoFarAlways == ImportSpec => [](ImportInv /\ (Fresh => SoFar))
<1>1. ImportInit => ImportInv /\ (Fresh => SoFar)
  BY ImportInitTyped, SoFarInit
<1>2. ImportInv /\ (Fresh => SoFar) /\ [ImportNext]_importVars
        => (ImportInv /\ (Fresh => SoFar))'
  BY ImportStepTyped, SoFarStep
<1> QED
  BY <1>1, <1>2, PTL DEF ImportSpec

(* A parser that was started once and kept nothing was so before.          *)
LEMMA FreshBefore ==
  ASSUME ImportInv, [ImportNext]_importVars, Fresh'
  PROVE  Fresh
<1>1. starts \in Nat /\ starts >= 1
  <2>1. starts \in Streams /\ MaxStarts \in Nat
    BY CsvImportAssumption DEF ImportInv, ImportTypeOK
  <2> QED
    BY <2>1 DEF Streams
<1>2. fate' = "running" /\ starts' = 1 /\ ~stale'
  BY DEF Fresh, Running
<1>3. CASE UNCHANGED importVars
  BY <1>2, <1>3 DEF importVars, Fresh, Running, history
<1>4. CASE Opening \/ Reading \/ Parsing
  <2>1. Running
    BY <1>4 DEF Opening, Opened, NotOpened, Reading, BufferRead, EndRead,
                ReadFails, Parsing, ParsePiece, EncodingError, Shown
  <2>2. starts' = starts
    BY <1>4 DEF Opening, Opened, NotOpened, Reading, BufferRead, EndRead,
                ReadFails, Parsing, ParsePiece, EncodingError, history
  <2>3. UNCHANGED stale \/ Forgets
    BY <1>4 DEF Opening, Opened, NotOpened, Reading, BufferRead, EndRead,
                ReadFails, Parsing, ParsePiece, EncodingError, history
  <2>4. ~stale
    BY <1>2, <2>3 DEF Forgets
  <2> QED
    BY <1>2, <2>1, <2>2, <2>4 DEF Fresh
<1>5. ASSUME NEW e \in Encodings, ChangeEncoding(0, e) \/ ChangeEncoding(1, e)
      PROVE  Fresh
  BY <1>1, <1>2, <1>5 DEF ChangeEncoding
<1>6. CASE \/ \E k \in 1 .. columns : ChooseField(k)
           \/ PressImport \/ FetchRowForEver \/ ImportRow
           \/ CancelImport \/ CancelWithinImport \/ CloseDialog \/ LateAnswer
  <2>1. Running /\ starts' = starts /\ stale' = stale
    BY <1>6 DEF ChooseField, PressImport, FetchRowForEver, ImportRow,
                CancelImport, CancelWithinImport, CloseDialog, LateAnswer,
                history
  <2> QED
    BY <1>2, <2>1 DEF Fresh
<1> QED
  BY <1>3, <1>4, <1>5, <1>6 DEF ImportNext

(* Only an invalid piece and the user change the encoding.                 *)
LEMMA EncodingKept ==
  ASSUME ImportInv, [ImportNext]_importVars, Fresh'
  PROVE  \/ parser'.encoding = parser.encoding
         \/ EncodingError
<1>1. parser \in Parsers /\ Len(parser.raw) \in Nat
      /\ starts \in Nat /\ starts >= 1
  <2>1. starts \in Streams /\ MaxStarts \in Nat
    BY CsvImportAssumption DEF ImportInv, ImportTypeOK
  <2> QED
    BY <2>1, ImportInvTypes DEF Streams
<1>2. Cleared(parser) \in Parsers /\ Cleared(parser).encoding = parser.encoding
  BY <1>1, ClearedTyped
<1>3. CASE UNCHANGED importVars
  BY <1>3 DEF importVars
<1>4. CASE Opening
  <2>1. CASE Opened
    BY <1>1, <2>1 DEF Opened, Parsers
  <2>2. CASE NotOpened
    BY <1>2, <2>2 DEF NotOpened, Parsers
  <2> QED
    BY <1>4, <2>1, <2>2 DEF Opening
<1>5. ASSUME NEW s \in Streams, BufferRead(s) \/ EndRead(s) \/ ReadFails(s)
      PROVE  parser'.encoding = parser.encoding
  <2>1. CASE BufferRead(s)
    BY <1>1, <2>1 DEF BufferRead, EnsureIdle, Parsers
  <2>2. CASE EndRead(s)
    BY <1>1, <2>2 DEF EndRead, EnsureIdle, Parsers
  <2>3. CASE ReadFails(s)
    BY <1>2, <2>3 DEF ReadFails
  <2> QED
    BY <1>5, <2>1, <2>2, <2>3
<1>6. CASE ParsePiece
  <2> DEFINE q == After(parser, Piece)
             r == Scan(ScanOf(parser), Piece.chars)
  <2>1. parser' = Finished(q)
    BY <1>6 DEF ParsePiece
  <2>2. /\ q = [parser EXCEPT !.line = r.line, !.quotes = r.quotes,
                  !.rows = r.rows, !.pos = @ + Piece.used,
                  !.idle = Piece.why # "EINVAL"
                           /\ parser.pos + Piece.used < Len(parser.raw)]
        /\ q \in Parsers
    BY <1>1, PieceFits, AfterTyped
  <2> HIDE DEF q, r
  <2>3. q.encoding = parser.encoding
    BY <1>1, <2>2 DEF Parsers
  <2>4. Finished(q).encoding = q.encoding
    BY <2>2 DEF Finished, Parsers
  <2> QED
    BY <2>1, <2>3, <2>4
<1>7. ASSUME NEW e \in Encodings, ChangeEncoding(0, e) \/ ChangeEncoding(1, e)
      PROVE  FALSE
  BY <1>1, <1>7 DEF ChangeEncoding, Fresh
<1>8. CASE ImportRow
  BY <1>1, <1>8 DEF ImportRow, Parsers
<1>9. CASE \/ \E k \in 1 .. columns : ChooseField(k)
           \/ PressImport \/ FetchRowForEver
           \/ CancelImport \/ CancelWithinImport \/ CloseDialog \/ LateAnswer
  BY <1>9 DEF ChooseField, PressImport, FetchRowForEver,
              CancelImport, CancelWithinImport, CloseDialog, LateAnswer
<1> QED
  BY <1>3, <1>4, <1>5, <1>6, <1>7, <1>8, <1>9
  DEF ImportNext, Reading, Parsing

(* The rows of a file are texts.                                           *)
LEMMA AllRowsTyped ==
  ASSUME NEW encoding, NEW bytes \in Seq(Bytes), NEW all,
         all = RowsOf(Converted(encoding, bytes, Len(bytes)).chars)
  PROVE  all \in Seq(Seq(Seq(Chars))) /\ Len(all) \in Nat
<1> DEFINE text == Converted(encoding, bytes, Len(bytes)).chars
<1>1. text \in Seq(Chars)
  <2> DEFINE d == Conversion(encoding, bytes, Len(bytes))
  <2>1. /\ d \in Conversions
        /\ Converted(encoding, bytes, Len(bytes)) =
             IF d.why = "done" /\ d.half THEN [d EXCEPT !.why = "EINVAL"] ELSE d
    BY ConvertedIsConversion
  <2> HIDE DEF d
  <2> QED
    BY <2>1 DEF Conversions
<1>2. all = RowsOf(text)
  OBVIOUS
<1> HIDE DEF text
<1> QED
  BY <1>1, <1>2, RowsOfTyped, LenProperties

(* Wherever the reads and the pieces end, the parser has found rows of the *)
(* file, in their order, and all of them when it says it has parsed it.    *)
THEOREM RowsAreTheFiles == ImportSpec => []RowsFollowTheFile
<1>1. ImportInv /\ (Fresh => SoFar) => RowsFollowTheFile
  <2> SUFFICES ASSUME ImportInv, Fresh, SoFar
               PROVE  /\ IsPrefix(parser.rows, AllRows)
                      /\ parser.state = "parsed" => parser.rows = AllRows
    BY DEF RowsFollowTheFile
  <2>1. CASE parser.state = "parsed"
    <3>1. parser.rows = AllRows
      BY <2>1 DEF SoFar, ScannedSoFar
    <3>2. parser.rows \in Seq(Seq(Seq(Chars)))
      BY DEF ImportInv, ImportTypeOK, Parsers
    <3>3. Len(parser.rows) \in Nat
      BY <3>2, LenProperties
    <3>4. IsPrefix(parser.rows, parser.rows)
      BY <3>2, <3>3, PrefixByElements
    <3> QED
      BY <3>1, <3>4
  <2>2. CASE parser.state # "parsed"
    <3> DEFINE n == Len(file)
               d == Conversion(parser.encoding, file, n)
    <3>1. PICK D \in Seq(Chars) :
            /\ Conversion(parser.encoding, SubSeq(file, 1, parser.pos), n) =
                 Between(D, parser.pos)
            /\ ScanOf(parser) = Scan(Unscanned, D)
      BY <2>2 DEF SoFar, ScannedSoFar, ParsedSoFar
    <3>2. file \in Seq(Bytes) /\ parser.pos \in 0 .. Len(file)
      <4>1. /\ file \in Seq(Bytes) /\ parser.pos \in Nat
            /\ parser.pos <= Len(parser.raw)
            /\ offset \in [Streams -> 0 .. Len(file)] /\ 1 \in Streams
        <5>1. /\ file \in Seq(Bytes) /\ parser \in Parsers
              /\ parser.pos <= Len(parser.raw)
              /\ offset \in [Streams -> 0 .. Len(file)]
          BY DEF ImportInv, ImportTypeOK
        <5>2. parser.pos \in Nat
          BY <5>1 DEF Parsers
        <5>3. 1 \in Streams
          BY CsvImportAssumption DEF Streams
        <5> QED
          BY <5>1, <5>2, <5>3
      <4>2. offset[1] \in 0 .. Len(file) /\ Len(file) \in Nat
        BY <4>1, LenProperties
      <4>3. Len(parser.raw) = offset[1]
        BY <4>1, <4>2, Beginnings DEF SoFar, OneStream
      <4> QED
        BY <4>1, <4>2, <4>3
    <3>3. d \in Conversions /\ AllRows = RowsOf(d.chars)
      <4>1. /\ d \in Conversions
            /\ Converted(parser.encoding, file, n) =
                 IF d.why = "done" /\ d.half THEN [d EXCEPT !.why = "EINVAL"]
                 ELSE d
        BY <3>2, ConvertedIsConversion
      <4> HIDE DEF d
      <4> QED
        BY <4>1 DEF AllRows, Conversions
    <3>4. /\ Between(D, parser.pos).chars = D
          /\ Len(D) <= Len(d.chars) /\ D = SubSeq(d.chars, 1, Len(D))
      <4>1. Between(D, parser.pos).chars = D
        BY DEF Between
      <4> QED
        BY <3>1, <3>2, <4>1, ConversionGrows
    <3> HIDE DEF d
    <3>5. d.chars \in Seq(Chars) /\ Len(D) \in 0 .. Len(d.chars)
      <4>1. d.chars \in Seq(Chars)
        BY <3>3 DEF Conversions
      <4> QED
        BY <3>4, <4>1, LenProperties
    <3>6. IsPrefix(Scan(Unscanned, SubSeq(d.chars, 1, Len(D))).rows,
                   RowsOf(d.chars))
      BY <3>5, FoundRowsAreAPrefix
    <3>7. parser.rows = Scan(Unscanned, D).rows
      <4>1. parser.rows = ScanOf(parser).rows
        BY DEF ScanOf
      <4> QED
        BY <3>1, <4>1
    <3>8. IsPrefix(parser.rows, AllRows)
      BY <3>3, <3>4, <3>6, <3>7
    <3> QED
      BY <2>2, <3>8
  <2> QED
    BY <2>1, <2>2
<1> QED
  BY <1>1, SoFarAlways, PTL

(* A prefix that is not empty has the first element.                       *)
LEMMA FirstOfPrefix ==
  ASSUME NEW C, NEW s \in Seq(C), NEW t \in Seq(C), IsPrefix(s, t), s # <<>>
  PROVE  t # <<>> /\ t[1] = s[1]
<1>1. Len(s) \in Nat /\ Len(t) \in Nat /\ Len(s) # 0
  BY LenProperties, EmptySeq
<1>2. Len(s) <= Len(t) /\ SubSeq(s, 1, Len(s)) = SubSeq(t, 1, Len(s))
  BY DEF IsPrefix
<1>3. \A i \in 1 .. Len(t) : t[i] \in C
  BY ElementOfSeq
<1>4. /\ 1 \in 1 .. Len(s) /\ Len(s) \in 0 .. Len(t)
      /\ \A i \in 1 .. Len(s) : t[i] \in C
  BY <1>1, <1>2, <1>3
<1>5. SubSeq(t, 1, Len(s))[1] = t[1]
  BY <1>1, <1>2, <1>4, SubSeqProperties
<1>6. SubSeq(s, 1, Len(s)) = s
  BY SubSeqFull
<1>7. t # <<>>
  BY <1>1, <1>2, EmptySeq
<1> QED
  BY <1>2, <1>5, <1>6, <1>7

(* The first row decides how many columns there are, and only these are    *)
(* given fields.                                                           *)
FirstRowDecides ==
  /\ columns # 0 \/ parser.rows # <<>> =>
       AllRows # <<>> /\ columns = Len(AllRows[1]) /\ fields \subseteq 1..columns
  /\ \A i \in DOMAIN imported : imported[i].fields \subseteq 1..Len(AllRows[1])

(* A step that leaves the columns and their fields alone.                  *)
LEMMA FirstRowKept ==
  ASSUME FirstRowDecides, AllRows' = AllRows, columns' = columns,
         fields' = fields, imported' = imported,
         parser'.rows \in {parser.rows, <<>>}
  PROVE  FirstRowDecides'
BY DEF FirstRowDecides

(* One step of a parser that was started once.                             *)
LEMMA FirstRowStep ==
  ASSUME ImportInv, Fresh => SoFar, Fresh => FirstRowDecides,
         [ImportNext]_importVars, ImportInv', RowsFollowTheFile', Fresh'
  PROVE  FirstRowDecides'
<1>1. SoFar /\ FirstRowDecides
  BY FreshBefore
<1>2. /\ parser \in Parsers /\ parser.rows \in Seq(Seq(Seq(Chars)))
      /\ parser'.rows \in Seq(Seq(Seq(Chars)))
      /\ file \in Seq(Bytes) /\ file' \in Seq(Bytes)
      /\ columns \in Nat /\ fields \in SUBSET Nat
      /\ parser.opening \in Nat
  BY DEF ImportInv, ImportTypeOK, Parsers
<1>3. file' = file
  BY DEF ImportNext, Opening, Opened, NotOpened, Reading, BufferRead, EndRead,
         ReadFails, Parsing, ParsePiece, EncodingError, ChangeEncoding,
         ChooseField, PressImport, FetchRowForEver, ImportRow, CancelImport,
         CancelWithinImport, CloseDialog, LateAnswer, importVars, source
<1>4. CASE EncodingError
  <2>1. /\ columns' = 0 /\ imported' = imported /\ parser.idle
        /\ \E e : parser' = [Cleared(parser) EXCEPT !.encoding = e]
    BY <1>4 DEF EncodingError
  <2>2. parser'.rows = <<>>
    BY <2>1 DEF Cleared
  <2>3. parser.next = 0 /\ Taken = SubSeq(parser.rows, 1, parser.next)
    BY <1>1, <2>1 DEF SoFar, ScannedSoFar, ImportedSoFar
  <2>4. Taken = <<>>
    BY <1>2, <2>3, Beginnings
  <2>5. DOMAIN imported = 1 .. Len(imported) /\ Len(Taken) = Len(imported)
    BY RowsOfRecords DEF ImportInv, ImportTypeOK, Taken
  <2>6. Len(<<>>) = 0
    BY EmptySeq
  <2>7. DOMAIN imported = {}
    BY <2>4, <2>5, <2>6
  <2> QED
    BY <2>1, <2>2, <2>7 DEF FirstRowDecides
<1>5. AllRows' = AllRows \/ EncodingError
  BY <1>3, EncodingKept DEF AllRows
<1>6. CASE ParsePiece /\ ~EncodingError
  <2>1. /\ imported' = imported /\ ScannedFirst(parser'.rows)
        /\ AllRows' = AllRows
    BY <1>5, <1>6 DEF ParsePiece
  <2>2. CASE columns = 0 /\ parser'.rows # <<>>
    <3>1. /\ columns' = Len(parser'.rows[1]) /\ fields' \subseteq 1 .. columns'
      BY <2>1, <2>2 DEF ScannedFirst
    <3>2. IsPrefix(parser'.rows, AllRows)
      BY <2>1 DEF RowsFollowTheFile
    <3>3. AllRows \in Seq(Seq(Seq(Chars))) /\ Len(AllRows) \in Nat
      BY <1>2, AllRowsTyped DEF AllRows
    <3>4. AllRows # <<>> /\ AllRows[1] = parser'.rows[1]
      BY <1>2, <2>2, <3>2, <3>3, FirstOfPrefix
    <3> QED
      BY <1>1, <2>1, <3>1, <3>4 DEF FirstRowDecides
  <2>3. CASE ~(columns = 0 /\ parser'.rows # <<>>)
    <3>1. UNCHANGED <<columns, fields>>
      BY <2>1, <2>3 DEF ScannedFirst
    <3> QED
      BY <1>1, <2>1, <2>3, <3>1 DEF FirstRowDecides
  <2> QED
    BY <2>2, <2>3
<1>7. ASSUME NEW k \in 1 .. columns, ChooseField(k), ~EncodingError
      PROVE  FirstRowDecides'
  <2>1. /\ fields' \subseteq fields \cup {k}
        /\ UNCHANGED <<parser, columns, imported>>
    BY <1>7 DEF ChooseField
  <2>2. columns # 0
    BY <1>2
  <2> QED
    BY <1>1, <1>5, <1>7, <2>1, <2>2 DEF FirstRowDecides
<1>8. CASE ImportRow /\ ~EncodingError
  <2>1. UNCHANGED <<columns, fields>> /\ AllRows' = AllRows
    BY <1>5, <1>8 DEF ImportRow, dialog
  <2>2. CASE parser.next < Len(parser.rows)
    <3> DEFINE record ==
                 [row |-> parser.rows[parser.next + 1], fields |-> fields]
    <3>1. /\ imported' = Append(imported, record)
          /\ parser' = [parser EXCEPT !.next = @ + 1]
      BY <1>8, <2>2 DEF ImportRow
    <3>2. /\ Len(parser.rows) \in Nat /\ parser.next \in Nat
          /\ parser.next + 1 \in 1 .. Len(parser.rows)
      <4>1. Len(parser.rows) \in Nat /\ parser.next \in Nat
        BY <1>2, LenProperties DEF Parsers
      <4> QED
        BY <2>2, <4>1
    <3>3. record \in [row : Seq(Seq(Chars)), fields : SUBSET Nat]
          /\ record.row \in Seq(Seq(Chars)) /\ record.fields = fields
      BY <1>2, <3>2, ElementOfSeq
    <3> HIDE DEF record
    <3>4. /\ DOMAIN imported' = DOMAIN imported \cup {Len(imported) + 1}
          /\ imported'[Len(imported) + 1] = record
          /\ \A i \in DOMAIN imported : imported'[i] = imported[i]
      BY <3>1, <3>3, TakenAppended
    <3>5. parser.rows # <<>> /\ parser'.rows = parser.rows
      <4>1. Len(parser.rows) # 0
        BY <3>2
      <4> QED
        BY <1>2, <3>1, <4>1, EmptySeq DEF Parsers
    <3>6. columns = Len(AllRows[1]) /\ fields \subseteq 1 .. Len(AllRows[1])
      BY <1>1, <3>5 DEF FirstRowDecides
    <3> QED
      BY <1>1, <2>1, <3>3, <3>4, <3>5, <3>6 DEF FirstRowDecides
  <2>3. CASE ~(parser.next < Len(parser.rows))
    <3>1. UNCHANGED <<parser, imported>>
      BY <1>8, <2>3 DEF ImportRow
    <3> QED
      BY <1>1, <2>1, <3>1, FirstRowKept
  <2> QED
    BY <2>2, <2>3
<1>9. CASE UNCHANGED importVars /\ ~EncodingError
  BY <1>1, <1>5, <1>9, FirstRowKept DEF importVars, dialog
<1>10. CASE Opening /\ ~EncodingError
  <2>1. UNCHANGED <<columns, fields, imported>>
    BY <1>10 DEF Opening, Opened, NotOpened, dialog
  <2>2. parser'.rows \in {parser.rows, <<>>}
    <3>1. CASE Opened
      BY <1>2, <3>1 DEF Opened, Parsers
    <3>2. CASE NotOpened
      BY <3>2 DEF NotOpened, Cleared
    <3> QED
      BY <1>10, <3>1, <3>2 DEF Opening
  <2> QED
    BY <1>1, <1>5, <1>10, <2>1, <2>2, FirstRowKept
<1>11. ASSUME NEW r \in Streams, BufferRead(r) \/ EndRead(r) \/ ReadFails(r),
              ~EncodingError
       PROVE  FirstRowDecides'
  <2>1. UNCHANGED <<columns, fields, imported>>
    BY <1>11 DEF BufferRead, EndRead, ReadFails, dialog
  <2>2. parser'.rows \in {parser.rows, <<>>}
    <3>1. CASE BufferRead(r)
      BY <1>2, <3>1 DEF BufferRead, EnsureIdle, Parsers
    <3>2. CASE EndRead(r)
      BY <1>2, <3>2 DEF EndRead, EnsureIdle, Parsers
    <3>3. CASE ReadFails(r)
      BY <3>3 DEF ReadFails, Cleared
    <3> QED
      BY <1>11, <3>1, <3>2, <3>3
  <2> QED
    BY <1>1, <1>5, <1>11, <2>1, <2>2, FirstRowKept
<1>12. ASSUME NEW e \in Encodings, ChangeEncoding(0, e) \/ ChangeEncoding(1, e)
       PROVE  FALSE
  <2>1. starts' = starts + 1 /\ starts' = 1 /\ starts \in Streams
    BY <1>12 DEF ChangeEncoding, Fresh, ImportInv, ImportTypeOK
  <2> QED
    BY <2>1, CsvImportAssumption DEF Streams
<1>13. CASE /\ ~EncodingError
            /\ PressImport \/ FetchRowForEver \/ CancelImport
                 \/ CancelWithinImport \/ CloseDialog \/ LateAnswer
  <2>1. UNCHANGED <<parser, columns, fields, imported>>
    BY <1>13 DEF PressImport, FetchRowForEver, CancelImport,
                 CancelWithinImport, CloseDialog, LateAnswer, dialog
  <2> QED
    BY <1>1, <1>5, <1>13, <2>1, FirstRowKept
<1> QED
  BY <1>4, <1>6, <1>7, <1>8, <1>9, <1>10, <1>11, <1>12, <1>13
  DEF ImportNext, Reading, Parsing

(* It holds in every reachable state.                                      *)
LEMMA FirstRowAlways == ImportSpec => [](Fresh => FirstRowDecides)
<1>1. ImportInit => (Fresh => FirstRowDecides)
  <2> SUFFICES ASSUME ImportInit PROVE FirstRowDecides
    OBVIOUS
  <2>1. columns = 0 /\ imported = <<>> /\ parser.rows = <<>>
    BY DEF ImportInit, Started, NoParser
  <2>2. DOMAIN imported = {}
    <3>1. Len(<<>>) = 0 /\ <<>> \in Seq(Nat)
      BY EmptySeq
    <3> QED
      BY <2>1, <3>1, LenProperties
  <2> QED
    BY <2>1, <2>2 DEF FirstRowDecides
<1>2. /\ ImportInv /\ (Fresh => SoFar) /\ (Fresh => FirstRowDecides)
      /\ [ImportNext]_importVars /\ ImportInv' /\ RowsFollowTheFile'
      => (Fresh => FirstRowDecides)'
  BY FirstRowStep
<1> QED
  BY <1>1, <1>2, SoFarAlways, RowsAreTheFiles, PTL DEF ImportSpec

(* Each row of the file becomes one record, in the order of the file,      *)
(* whether the import is cancelled and begun again or not, and the records *)
(* have no columns but those of the first row.                             *)
THEOREM RecordsAreTheRows == ImportSpec => []ImportsEachRowOnce
<1>1. ImportInv /\ (Fresh => SoFar) /\ (Fresh => FirstRowDecides)
        => ImportsEachRowOnce
  <2> SUFFICES ASSUME ImportInv, Fresh, SoFar, FirstRowDecides
               PROVE  /\ IsPrefix(Taken, AllRows)
                      /\ progress = "complete" => Taken = AllRows
    BY DEF ImportsEachRowOnce, FirstRowDecides
  <2>1. /\ parser.rows \in Seq(Seq(Seq(Chars))) /\ Len(parser.rows) \in Nat
        /\ parser.next \in 0 .. Len(parser.rows)
        /\ Taken = SubSeq(parser.rows, 1, parser.next)
    <3>1. parser.rows \in Seq(Seq(Seq(Chars))) /\ parser.next \in Nat
      BY DEF ImportInv, ImportTypeOK, Parsers
    <3> QED
      BY <3>1, LenProperties DEF SoFar, ImportedSoFar
  <2>2. CASE parser.state = "parsed"
    <3>1. parser.rows = AllRows
      BY <2>2 DEF SoFar, ScannedSoFar
    <3>2. /\ Taken \in Seq(Seq(Seq(Chars)))
          /\ Len(Taken) = parser.next
      BY <2>1, Beginnings
    <3>3. \A k \in 1 .. Len(Taken) : Taken[k] = parser.rows[k]
      <4>1. \A i \in 1 .. Len(parser.rows) :
              parser.rows[i] \in Seq(Seq(Chars))
        BY <2>1, ElementOfSeq
      <4> QED
        BY <2>1, <3>2, <4>1, SubSeqProperties
    <3>4. IsPrefix(Taken, parser.rows)
      <4>1. Len(Taken) <= Len(parser.rows)
        BY <2>1, <3>2
      <4> QED
        BY <2>1, <3>2, <3>3, <4>1, PrefixByElements
    <3>5. progress = "complete" => Taken = parser.rows
      BY <2>1, Beginnings DEF SoFar, ImportedSoFar
    <3> QED
      BY <3>1, <3>4, <3>5
  <2>3. CASE parser.state # "parsed"
    <3>1. parser.next = 0 /\ progress # "complete"
      BY <2>3 DEF SoFar, ScannedSoFar, ImportedSoFar
    <3>2. Taken = <<>>
      BY <2>1, <3>1, Beginnings
    <3>3. AllRows \in Seq(Seq(Seq(Chars))) /\ Len(AllRows) \in Nat
      BY AllRowsTyped DEF AllRows, ImportInv
    <3>4. <<>> \in Seq(Seq(Seq(Chars))) /\ Len(<<>>) = 0
      BY EmptySeq
    <3>5. 1 .. Len(<<>>) = {}
      BY <3>4
    <3>6. IsPrefix(<<>>, AllRows)
      <4> DEFINE e == <<>>
      <4>1. /\ e \in Seq(Seq(Seq(Chars))) /\ Len(e) <= Len(AllRows)
            /\ \A k \in 1 .. Len(e) : e[k] = AllRows[k]
        BY <3>3, <3>4, <3>5
      <4> HIDE DEF e
      <4>2. IsPrefix(e, AllRows)
        BY <3>3, <4>1, PrefixByElements
      <4> QED
        BY <4>2 DEF e
    <3> QED
      BY <3>1, <3>2, <3>6
  <2> QED
    BY <2>2, <2>3
<1> QED
  BY <1>1, SoFarAlways, FirstRowAlways, PTL


----------------------------------------------------------------------------
(* What comes back *)

(* One more element is a sequence of one more.                             *)
LEMMA OneMore ==
  ASSUME NEW C, NEW s \in Seq(C), NEW c \in C, NEW d \in C
  PROVE  /\ s \o <<c>> = Append(s, c)
         /\ s \o <<c, d>> = Append(Append(s, c), d)
<1>1. Len(s) \in Nat
  BY LenProperties
<1>2. /\ Append(s, c) \in Seq(C) /\ Len(Append(s, c)) = Len(s) + 1
      /\ Append(s, c)[Len(s) + 1] = c
      /\ \A i \in 1 .. Len(s) : Append(s, c)[i] = s[i]
  BY AppendProperties
<1>3. s \o <<c>> = Append(s, c)
  <2>1. <<c>> \in Seq(C) /\ Len(<<c>>) = 1 /\ <<c>>[1] = c
    OBVIOUS
  <2>2. /\ s \o <<c>> \in Seq(C) /\ Len(s \o <<c>>) = Len(s) + 1
        /\ \A i \in 1 .. Len(s) + 1 :
             (s \o <<c>>)[i] = IF i <= Len(s) THEN s[i] ELSE <<c>>[i - Len(s)]
    BY <2>1, ConcatProperties
  <2>3. \A i \in 1 .. Len(s) + 1 : (s \o <<c>>)[i] = Append(s, c)[i]
    BY <1>1, <1>2, <2>1, <2>2
  <2> QED
    BY <1>2, <2>2, <2>3, SeqEqual
<1>4. <<c, d>> = Append(<<c>>, d) /\ <<c>> \in Seq(C)
  OBVIOUS
<1>5. s \o <<c, d>> = Append(s \o <<c>>, d)
  BY <1>4, ConcatAppend
<1> QED
  BY <1>3, <1>5

(* No step, and one.                                                       *)
LEMMA RanOne ==
  ASSUME NEW V, NEW C, NEW step \in StepsOf(V, C), NEW base \in V,
         NEW c \in C
  PROVE  /\ Ran(V, C, step, base, <<>>) = base
         /\ Ran(V, C, step, base, <<c>>) = step[<<base, c>>]
<1> DEFINE s == <<c>>
           ran(i) == Ran(V, C, step, base, SubSeq(s, 1, i))
<1>1. s \in Seq(C) /\ Len(s) = 1 /\ s[1] = c
  OBVIOUS
<1> HIDE DEF s
<1>2. SubSeq(s, 1, 0) = <<>> /\ SubSeq(s, 1, 1) = s
  BY <1>1, Beginnings
<1>3. /\ ran(0) = base
      /\ \A i \in 1 .. Len(s) : ran(i) = step[<<ran(i - 1), s[i]>>]
  BY <1>1, RanSteps
<1>4. ran(1) = step[<<ran(0), c>>]
  <2>1. 1 \in 1 .. Len(s) /\ 1 - 1 = 0
    BY <1>1
  <2> HIDE DEF ran
  <2> QED
    BY <1>1, <1>3, <2>1
<1> QED
  BY <1>2, <1>3, <1>4 DEF s

(* Two steps.                                                              *)
LEMMA RanTwo ==
  ASSUME NEW V, NEW C, NEW step \in StepsOf(V, C), NEW base \in V,
         NEW c \in C, NEW d \in C
  PROVE  Ran(V, C, step, base, <<c, d>>) = step[<<step[<<base, c>>], d>>]
<1> DEFINE s == <<c, d>>
           ran(i) == Ran(V, C, step, base, SubSeq(s, 1, i))
<1>1. s \in Seq(C) /\ Len(s) = 2 /\ s[1] = c /\ s[2] = d
  OBVIOUS
<1>2. SubSeq(s, 1, 0) = <<>> /\ SubSeq(s, 1, 1) = <<c>> /\ SubSeq(s, 1, 2) = s
  <2>1. SubSeq(s, 1, 0) = <<>> /\ SubSeq(s, 1, Len(s)) = s
    BY <1>1, Beginnings
  <2>2. SubSeq(s, 1, 1) = Append(SubSeq(s, 1, 0), s[1])
    <3>1. 1 \in 1 .. Len(s) /\ 1 - 1 = 0
      BY <1>1
    <3>2. SubSeq(s, 1, 1) = Append(SubSeq(s, 1, 1 - 1), s[1])
      BY <1>1, <3>1, Beginnings
    <3> HIDE DEF s
    <3> QED
      BY <3>1, <3>2
  <2>3. Append(<<>>, c) = <<c>>
    OBVIOUS
  <2> HIDE DEF s
  <2> QED
    BY <1>1, <2>1, <2>2, <2>3
<1> HIDE DEF s
<1>3. /\ ran(0) = base
      /\ \A i \in 1 .. Len(s) : ran(i) = step[<<ran(i - 1), s[i]>>]
  BY <1>1, RanSteps
<1>4. ran(1) = step[<<ran(0), c>>] /\ ran(2) = step[<<ran(1), d>>]
  <2>1. 1 \in 1 .. Len(s) /\ 2 \in 1 .. Len(s) /\ 1 - 1 = 0 /\ 2 - 1 = 1
    BY <1>1
  <2> HIDE DEF ran
  <2> QED
    BY <1>1, <1>3, <2>1
<1> QED
  BY <1>2, <1>3, <1>4 DEF s

(* What each step keeps, of sets that go along with the steps.             *)
LEMMA RanKeeps ==
  ASSUME NEW V, NEW C, NEW step \in StepsOf(V, C), NEW base \in V,
         NEW s \in Seq(C), NEW R, base \in R[0],
         \A i \in 1 .. Len(s) : \A v \in V :
           v \in R[i - 1] => step[<<v, s[i]>>] \in R[i]
  PROVE  Ran(V, C, step, base, s) \in R[Len(s)]
<1> DEFINE n == Len(s)
           ran(i) == Ran(V, C, step, base, SubSeq(s, 1, i))
           S == {i \in 0 .. n : ran(i) \in R[i]}
<1>1. n \in Nat
  BY LenProperties
<1>2. /\ ran(0) = base
      /\ \A i \in 0 .. n : ran(i) \in V
      /\ \A i \in 1 .. n : ran(i) = step[<<ran(i - 1), s[i]>>]
  BY RanSteps
<1>3. ran(n) = Ran(V, C, step, base, s)
  BY Beginnings
<1> HIDE DEF ran
<1>4. 0 \in S
  BY <1>1, <1>2
<1>5. ASSUME NEW i \in 0 .. n - 1, i \in S
      PROVE  i + 1 \in S
  <2>1. i + 1 \in 1 .. n /\ i + 1 - 1 = i /\ i \in 0 .. n /\ ran(i) \in R[i]
    BY <1>1, <1>5
  <2>2. ran(i + 1) = step[<<ran(i), s[i + 1]>>] /\ ran(i) \in V
    BY <1>2, <2>1
  <2>3. ran(i + 1) \in R[i + 1]
    BY <2>1, <2>2
  <2> QED
    BY <1>1, <2>1, <2>3
<1>6. n \in S
  <2> HIDE DEF S
  <2>1. \A i \in 0 .. n : i \in S
    BY <1>1, <1>4, <1>5, UpTo
  <2> QED
    BY <1>1, <2>1
<1> QED
  BY <1>3, <1>6

(* What each of them keeps, of sets that go along with them.               *)
LEMMA FlattenKeeps ==
  ASSUME NEW C, NEW s \in Seq(Seq(C)), NEW R, <<>> \in R[0],
         \A i \in 1 .. Len(s) : \A g \in Seq(C) :
           g \in R[i - 1] => g \o s[i] \in R[i]
  PROVE  FlattenSeq(s) \in Seq(C) /\ FlattenSeq(s) \in R[Len(s)]
<1> DEFINE n == Len(s)
<1>1. n \in Nat
  BY LenProperties
<1>2. PICK t \in [0 .. n -> Seq(C)] :
        /\ t[0] = <<>> /\ t[n] = FlattenSeq(s)
        /\ \A i \in 1 .. n : t[i] = t[i - 1] \o s[i]
  BY FlattenIs
<1> DEFINE S == {i \in 0 .. n : t[i] \in R[i]}
<1>3. 0 \in S
  BY <1>1, <1>2
<1>4. ASSUME NEW i \in 0 .. n - 1, i \in S
      PROVE  i + 1 \in S
  <2>1. i + 1 \in 1 .. n /\ i + 1 - 1 = i /\ i \in 0 .. n /\ t[i] \in R[i]
    BY <1>1, <1>4
  <2>2. t[i + 1] = t[i] \o s[i + 1] /\ t[i] \in Seq(C)
    <3> DEFINE j == i + 1
    <3>0. j \in 1 .. n /\ j - 1 = i /\ j = i + 1
      BY <2>1
    <3> HIDE DEF j, n
    <3>1. t[j] = t[j - 1] \o s[j] /\ t[i] \in Seq(C)
      BY <1>2, <2>1, <3>0
    <3> QED
      BY <3>0, <3>1
  <2>3. t[i + 1] \in R[i + 1]
    BY <2>1, <2>2
  <2> QED
    BY <1>1, <2>1, <2>3
<1>5. n \in S
  <2> HIDE DEF S
  <2>1. \A i \in 0 .. n : i \in S
    BY <1>1, <1>3, <1>4, UpTo
  <2> QED
    BY <1>1, <2>1
<1> QED
  BY <1>1, <1>2, <1>5

(* What Unescaped() works on.                                              *)
Outputs == [out : Seq(Chars), one : BOOLEAN]

(* Where from_file_format() begins.                                        *)
NoOutput == [out |-> <<>>, one |-> FALSE]

(* A character, as a step.                                                 *)
UnescapeStep == [p \in Outputs \X Chars |-> Unescaped(p[1], p[2])]

(* It makes an output of an output.                                        *)
LEMMA UnescapeStepTyped ==
  NoOutput \in Outputs /\ UnescapeStep \in StepsOf(Outputs, Chars)
<1>1. NoOutput \in Outputs
  BY EmptySeq DEF NoOutput, Outputs
<1>2. ASSUME NEW t \in Outputs, NEW c \in Chars
      PROVE  Unescaped(t, c) \in Outputs
  <2>1. Append(t.out, c) \in Seq(Chars)
    BY AppendProperties DEF Outputs
  <2> QED
    BY <2>1 DEF Outputs, Unescaped
<1> QED
  BY <1>1, <1>2 DEF UnescapeStep, StepsOf

(* The text is where the steps lead to.                                    *)
LEMMA FromFileFormatIs ==
  ASSUME NEW text \in Seq(Chars)
  PROVE  FromFileFormat(text) =
           Ran(Outputs, Chars, UnescapeStep, NoOutput, text).out
<1> DEFINE step == UnescapeStep
           base == NoOutput
           n == Len(text)
           Fn(f) == [i \in 0 .. Len(text) |->
                       IF i = 0 THEN NoOutput
                       ELSE CHOOSE r \in {Unescaped(v, text[i]) :
                                            v \in {f[i - 1]}} : TRUE]
           F == CHOOSE f : f = Fn(f)
<1>1. base \in Outputs /\ step \in StepsOf(Outputs, Chars)
  BY UnescapeStepTyped
<1>2. n \in Nat /\ \A i \in 1 .. n : text[i] \in Chars
  BY ElementOfSeq, LenProperties
<1>3. PICK t : IsTrace(Outputs, Chars, step, base, text, t)
  <2> HIDE DEF step, base
  <2> QED
    BY <1>1, TraceExists
<1>4. Ran(Outputs, Chars, step, base, text) = t[n] /\ t[n] \in Outputs
  <2> HIDE DEF step, base
  <2> QED
    BY <1>3, RanTrace
<1>5. /\ t \in [0 .. n -> Outputs] /\ t[0] = base
      /\ \A i \in 1 .. n : t[i] = Unescaped(t[i - 1], text[i])
  BY <1>2, <1>3 DEF IsTrace, UnescapeStep
<1>a. ASSUME NEW f, NEW i \in 1 .. n
      PROVE  Fn(f)[i] = Unescaped(f[i - 1], text[i])
  <2>1. {Unescaped(v, text[i]) : v \in {f[i - 1]}} =
          {Unescaped(f[i - 1], text[i])}
    OBVIOUS
  <2> QED
    BY <1>2, <2>1
<1>b. Fn(t) = [i \in 0 .. n |-> Fn(t)[i]] /\ Fn(t)[0] = base
  BY <1>2
<1>6. t = Fn(t)
  <2> HIDE DEF Fn
  <2>1. \A i \in 0 .. n : i # 0 => i \in 1 .. n
    BY <1>2
  <2>2. \A i \in 0 .. n : t[i] = Fn(t)[i]
    BY <1>5, <1>a, <1>b, <2>1
  <2> QED
    BY <1>5, <1>b, <2>2
<1>7. F = Fn(F)
  BY <1>6
<1> DEFINE S == {i \in 0 .. n : F[i] = t[i]}
<1> HIDE DEF F
<1>8. 0 \in S
  BY <1>2, <1>5, <1>7
<1>9. ASSUME NEW i \in 0 .. n - 1, i \in S
      PROVE  i + 1 \in S
  <2> HIDE DEF Fn
  <2>1. i + 1 \in 1 .. n /\ i + 1 - 1 = i
    BY <1>2
  <2>2. F[i + 1] = Unescaped(F[i], text[i + 1])
    BY <2>1, <1>7, <1>a
  <2>3. t[i + 1] = Unescaped(t[i + 1 - 1], text[i + 1])
    BY <2>1, <1>5
  <2>4. F[i] = t[i]
    BY <1>9
  <2>5. F[i + 1] = t[i + 1]
    BY <2>1, <2>2, <2>3, <2>4
  <2> QED
    BY <1>2, <2>1, <2>5
<1>10. n \in S
  <2> HIDE DEF S
  <2>1. \A i \in 0 .. n : i \in S
    BY <1>2, <1>8, <1>9, UpTo
  <2> QED
    BY <1>2, <2>1
<1>11. FromFileFormat(text) = F[n].out
  BY DEF FromFileFormat, Folded, F, NoOutput
<1> QED
  BY <1>4, <1>10, <1>11

(* A text without two quotes next to each other stays as it is.            *)
LEMMA PlainTextStays ==
  ASSUME NEW text \in Seq(Chars),
         \A i \in 1 .. Len(text) - 1 : text[i] # "q" \/ text[i + 1] # "q"
  PROVE  FromFileFormat(text) = text
<1> DEFINE n == Len(text)
           R == [i \in 0 .. n |->
                   {t \in Outputs :
                      /\ t.out = SubSeq(text, 1, i)
                      /\ t.one = (i # 0 /\ text[i] = "q")}]
<1>1. n \in Nat /\ \A i \in 1 .. n : text[i] \in Chars
  BY ElementOfSeq, LenProperties
<1>2. /\ SubSeq(text, 1, 0) = <<>> /\ SubSeq(text, 1, n) = text
      /\ \A i \in 1 .. n :
           SubSeq(text, 1, i) = Append(SubSeq(text, 1, i - 1), text[i])
  BY Beginnings
<1>3. NoOutput \in R[0]
  <2>1. NoOutput \in Outputs /\ 0 \in 0 .. n
    BY <1>1, UnescapeStepTyped
  <2> QED
    BY <1>2, <2>1 DEF NoOutput
<1>4. ASSUME NEW i \in 1 .. n, NEW t \in Outputs, t \in R[i - 1]
      PROVE  UnescapeStep[<<t, text[i]>>] \in R[i]
  <2> DEFINE u == UnescapeStep[<<t, text[i]>>]
             old == SubSeq(text, 1, i - 1)
             new == SubSeq(text, 1, i)
  <2>1. i - 1 \in 0 .. n /\ i \in 0 .. n /\ text[i] \in Chars
    BY <1>1
  <2>2. u = Unescaped(t, text[i]) /\ u \in Outputs
    BY <2>1, UnescapeStepTyped DEF UnescapeStep, StepsOf
  <2>3. t.out = old /\ t.one = (i - 1 # 0 /\ text[i - 1] = "q")
    BY <1>4, <2>1
  <2>4. new = Append(old, text[i])
    BY <1>2
  <2> HIDE DEF u, old, new
  <2>5. ~(t.one /\ text[i] = "q")
    <3>1. CASE i - 1 # 0
      <4>1. i - 1 \in 1 .. n - 1 /\ i - 1 + 1 = i
        BY <1>1, <3>1
      <4> HIDE DEF n
      <4>2. text[i - 1] # "q" \/ text[i - 1 + 1] # "q"
        BY <4>1 DEF n
      <4> QED
        BY <2>3, <4>1, <4>2
    <3> QED
      BY <2>3, <3>1
  <2>6. u.out = new /\ u.one = (text[i] = "q")
    BY <2>2, <2>3, <2>4, <2>5 DEF Unescaped
  <2>7. u \in {x \in Outputs :
                x.out = new /\ x.one = (i # 0 /\ text[i] = "q")}
    <3>1. i # 0
      BY <1>1
    <3> QED
      BY <2>2, <2>6, <3>1
  <2> QED
    BY <2>1, <2>7 DEF u, new
<1>5. n \in 0 .. n
  BY <1>1
<1>6. Ran(Outputs, Chars, UnescapeStep, NoOutput, text) \in R[n]
  <2> HIDE DEF R
  <2> QED
    BY <1>3, <1>4, UnescapeStepTyped, RanKeeps
<1>7. Ran(Outputs, Chars, UnescapeStep, NoOutput, text).out = text
  BY <1>2, <1>5, <1>6
<1> QED
  BY <1>7, FromFileFormatIs

(* The first character of a scan.                                          *)
LEMMA ScanChar ==
  ASSUME NEW p \in Scans, NEW c \in Chars
  PROVE  /\ ScanStep[<<p, c>>] = ScannedChar(p, c) /\ ScannedChar(p, c) \in Scans
         /\ Scan(p, <<>>) = p
         /\ Scan(p, <<c>>) = ScannedChar(p, c)
<1>1. ScanStep[<<p, c>>] = ScannedChar(p, c) /\ ScannedChar(p, c) \in Scans
  BY ScanStepTyped DEF ScanStep, StepsOf
<1>2. Scan(p, <<>>) = p /\ Scan(p, <<c>>) = ScanStep[<<p, c>>]
  BY ScanStepTyped, RanOne DEF Scan
<1> QED
  BY <1>1, <1>2

(* Two characters.                                                         *)
LEMMA ScanTwo ==
  ASSUME NEW p \in Scans, NEW c \in Chars, NEW d \in Chars
  PROVE  Scan(p, <<c, d>>) = ScannedChar(ScannedChar(p, c), d)
<1>1. Scan(p, <<c, d>>) = ScanStep[<<ScanStep[<<p, c>>], d>>]
  BY ScanStepTyped, RanTwo DEF Scan
<1> QED
  BY <1>1, ScanChar

(* Two texts after one another.                                            *)
LEMMA ScanBoth ==
  ASSUME NEW p \in Scans, NEW s \in Seq(Chars), NEW t \in Seq(Chars)
  PROVE  /\ s \o t \in Seq(Chars)
         /\ Scan(p, s) \in Scans
         /\ Scan(p, s \o t) = Scan(Scan(p, s), t)
<1>1. s \o t \in Seq(Chars)
  BY ConcatProperties
<1>2. Scan(p, s) \in Scans
  BY ScanStepTyped, RanSteps DEF Scan
<1>3. Scan(p, s \o t) = Scan(Scan(p, s), t)
  BY ScanStepTyped, RanConcat DEF Scan
<1> QED
  BY <1>1, <1>2, <1>3

(* One more character.                                                     *)
LEMMA ScanNext ==
  ASSUME NEW p \in Scans, NEW s \in Seq(Chars), NEW q \in Scans, Scan(p, s) = q,
         NEW c \in Chars
  PROVE  Scan(p, s \o <<c>>) = ScannedChar(q, c)
<1>1. <<c>> \in Seq(Chars)
  OBVIOUS
<1>2. Scan(p, s \o <<c>>) = Scan(q, <<c>>)
  BY <1>1, ScanBoth
<1> QED
  BY <1>2, ScanChar

(* The same of the fields of a line.                                       *)
LEMMA AdvanceChar ==
  ASSUME NEW p \in Fields, NEW c \in Chars
  PROVE  /\ AdvanceStep[<<p, c>>] = Advanced(p, c) /\ Advanced(p, c) \in Fields
         /\ Advance(p, <<>>) = p
         /\ Advance(p, <<c>>) = Advanced(p, c)
<1>1. AdvanceStep[<<p, c>>] = Advanced(p, c) /\ Advanced(p, c) \in Fields
  BY AdvanceStepTyped, AdvancedTyped DEF AdvanceStep, StepsOf
<1>2. Advance(p, <<>>) = p /\ Advance(p, <<c>>) = AdvanceStep[<<p, c>>]
  BY AdvanceStepTyped, AdvancedTyped, RanOne DEF Advance
<1> QED
  BY <1>1, <1>2

(* Two characters.                                                         *)
LEMMA AdvanceTwo ==
  ASSUME NEW p \in Fields, NEW c \in Chars, NEW d \in Chars
  PROVE  Advance(p, <<c, d>>) = Advanced(Advanced(p, c), d)
<1>1. Advance(p, <<c, d>>) = AdvanceStep[<<AdvanceStep[<<p, c>>], d>>]
  BY AdvanceStepTyped, AdvancedTyped, RanTwo DEF Advance
<1> QED
  BY <1>1, AdvanceChar

(* Two texts after one another.                                            *)
LEMMA AdvanceBoth ==
  ASSUME NEW p \in Fields, NEW s \in Seq(Chars), NEW t \in Seq(Chars)
  PROVE  /\ s \o t \in Seq(Chars)
         /\ Advance(p, s) \in Fields
         /\ Advance(p, s \o t) = Advance(Advance(p, s), t)
<1>1. s \o t \in Seq(Chars)
  BY ConcatProperties
<1>2. Advance(p, s) \in Fields
  BY AdvanceStepTyped, AdvancedTyped, RanSteps DEF Advance
<1>3. Advance(p, s \o t) = Advance(Advance(p, s), t)
  BY AdvanceStepTyped, AdvancedTyped, RanConcat DEF Advance
<1> QED
  BY <1>1, <1>2, <1>3

(* One more character.                                                     *)
LEMMA AdvanceNext ==
  ASSUME NEW p \in Fields, NEW s \in Seq(Chars), NEW q \in Fields, Advance(p, s) = q,
         NEW c \in Chars
  PROVE  Advance(p, s \o <<c>>) = Advanced(q, c)
<1>1. <<c>> \in Seq(Chars)
  OBVIOUS
<1>2. Advance(p, s \o <<c>>) = Advance(q, <<c>>)
  BY <1>1, AdvanceBoth
<1> QED
  BY <1>2, AdvanceChar

(* The beginnings of two sequences after one another.                      *)
LEMMA ConcatBeginnings ==
  ASSUME NEW C, NEW s \in Seq(C), NEW t \in Seq(C)
  PROVE  /\ s \o <<>> = s /\ <<>> \o s = s /\ s \o t \in Seq(C)
         /\ \A i \in 1 .. Len(t) :
              s \o SubSeq(t, 1, i) = Append(s \o SubSeq(t, 1, i - 1), t[i])
<1>1. \A i \in 1 .. Len(t) :
        /\ t[i] \in C /\ SubSeq(t, 1, i - 1) \in Seq(C)
        /\ SubSeq(t, 1, i) = Append(SubSeq(t, 1, i - 1), t[i])
  <2> SUFFICES ASSUME NEW i \in 1 .. Len(t)
               PROVE  /\ t[i] \in C /\ SubSeq(t, 1, i - 1) \in Seq(C)
                      /\ SubSeq(t, 1, i) = Append(SubSeq(t, 1, i - 1), t[i])
    OBVIOUS
  <2>1. t[i] \in C /\ i - 1 \in 0 .. Len(t)
    BY ElementOfSeq, LenProperties
  <2> QED
    BY <2>1, Beginnings
<1>2. \A i \in 1 .. Len(t) :
        s \o SubSeq(t, 1, i) = Append(s \o SubSeq(t, 1, i - 1), t[i])
  BY <1>1, ConcatAppend
<1> QED
  BY <1>2, ConcatEmptySeq, ConcatProperties

(* Digits add to a line.                                                   *)
LEMMA NumberScanned ==
  ASSUME NEW number \in Numbers, NEW p \in Scans
  PROVE  Scan(p, number) = [p EXCEPT !.line = @ \o number]
<1> DEFINE n == Len(number)
           lineAt(i) == p.line \o SubSeq(number, 1, i)
           R == [i \in 0 .. n |-> {[p EXCEPT !.line = lineAt(i)]}]
<1>1. number \in Seq(Chars) /\ n \in Nat /\ \A i \in 1 .. n : number[i] = "a"
  <2>1. number \in Seq({"a"}) /\ {"a"} \subseteq Chars
    BY DEF Numbers, Chars
  <2> QED
    BY <2>1, ElementOfSeq, LenProperties, SeqMonotonic
<1>2. /\ p.line \in Seq(Chars) /\ lineAt(0) = p.line
      /\ lineAt(n) = p.line \o number
      /\ \A i \in 1 .. n : lineAt(i) = Append(lineAt(i - 1), number[i])
  <2>1. p.line \in Seq(Chars)
    BY DEF Scans
  <2>2. SubSeq(number, 1, 0) = <<>> /\ SubSeq(number, 1, n) = number
    BY <1>1, Beginnings
  <2>3. /\ p.line \o <<>> = p.line
        /\ \A i \in 1 .. n : lineAt(i) = Append(lineAt(i - 1), number[i])
    <3> DEFINE l == p.line
    <3>1. l \in Seq(Chars)
      BY <2>1
    <3> HIDE DEF l
    <3>2. /\ l \o <<>> = l
          /\ \A i \in 1 .. Len(number) :
               l \o SubSeq(number, 1, i) =
                 Append(l \o SubSeq(number, 1, i - 1), number[i])
      BY <1>1, <3>1, ConcatBeginnings
    <3> QED
      BY <3>2 DEF l
  <2>4. lineAt(0) = p.line /\ lineAt(n) = p.line \o number
    BY <2>2, <2>3
  <2> QED
    BY <2>1, <2>3, <2>4
<1> HIDE DEF lineAt
<1>3. p \in R[0]
  <2>1. [p EXCEPT !.line = lineAt(0)] = p /\ 0 \in 0 .. n
    BY <1>1, <1>2 DEF Scans
  <2> QED
    BY <2>1
<1>4. ASSUME NEW i \in 1 .. n, NEW v \in Scans, v \in R[i - 1]
      PROVE  ScanStep[<<v, number[i]>>] \in R[i]
  <2>1. i - 1 \in 0 .. n /\ i \in 0 .. n /\ number[i] = "a"
    BY <1>1
  <2>2. v = [p EXCEPT !.line = lineAt(i - 1)]
    BY <1>4, <2>1
  <2>3. ScanStep[<<v, "a">>] = ScannedChar(v, "a")
    BY DEF ScanStep, Chars
  <2>4. ScannedChar(v, "a") = [p EXCEPT !.line = Append(lineAt(i - 1), "a")]
    BY <2>2 DEF ScannedChar, Scans
  <2>5. ScanStep[<<v, number[i]>>] = [p EXCEPT !.line = lineAt(i)]
    BY <1>2, <2>1, <2>3, <2>4
  <2> QED
    BY <2>1, <2>5
<1>5. Scan(p, number) \in R[n]
  <2> HIDE DEF R
  <2> QED
    BY <1>1, <1>3, <1>4, ScanStepTyped, RanKeeps DEF Scan
<1> QED
  BY <1>1, <1>2, <1>5

(* They become the field.                                                  *)
LEMMA NumberAdvanced ==
  ASSUME NEW number \in Numbers, NEW f \in Fields, f.field = <<>>, ~f.ended
  PROVE  Advance(f, number) = [f EXCEPT !.field = number]
<1> DEFINE n == Len(number)
           at(i) == SubSeq(number, 1, i)
           R == [i \in 0 .. n |-> {[f EXCEPT !.field = at(i)]}]
<1>1. number \in Seq(Chars) /\ n \in Nat /\ \A i \in 1 .. n : number[i] = "a"
  <2>1. number \in Seq({"a"}) /\ {"a"} \subseteq Chars
    BY DEF Numbers, Chars
  <2> QED
    BY <2>1, ElementOfSeq, LenProperties, SeqMonotonic
<1>2. /\ at(0) = <<>> /\ at(n) = number
      /\ \A i \in 1 .. n : at(i) = Append(at(i - 1), number[i])
  BY <1>1, Beginnings
<1> HIDE DEF at
<1>3. f \in R[0]
  <2>1. [f EXCEPT !.field = at(0)] = f /\ 0 \in 0 .. n
    BY <1>1, <1>2 DEF Fields
  <2> QED
    BY <2>1
<1>4. ASSUME NEW i \in 1 .. n, NEW v \in Fields, v \in R[i - 1]
      PROVE  AdvanceStep[<<v, number[i]>>] \in R[i]
  <2>1. i - 1 \in 0 .. n /\ i \in 0 .. n /\ number[i] = "a"
    BY <1>1
  <2>2. v = [f EXCEPT !.field = at(i - 1)]
    BY <1>4, <2>1
  <2>3. AdvanceStep[<<v, "a">>] = Advanced(v, "a")
    BY DEF AdvanceStep, Chars
  <2>4. Advanced(v, "a") = [f EXCEPT !.field = Append(at(i - 1), "a")]
    BY <2>2 DEF Advanced, Fields
  <2>5. AdvanceStep[<<v, number[i]>>] = [f EXCEPT !.field = at(i)]
    BY <1>2, <2>1, <2>3, <2>4
  <2> QED
    BY <2>1, <2>5
<1>5. Advance(f, number) \in R[n]
  <2> HIDE DEF R
  <2> QED
    BY <1>1, <1>3, <1>4, AdvanceStepTyped, RanKeeps DEF Advance
<1> QED
  BY <1>1, <1>2, <1>5

(* What Twice() puts after one another.                                    *)
LEMMA TwicePieces ==
  ASSUME NEW text \in Texts
  PROVE  LET s == [i \in DOMAIN text |->
                     IF text[i] = "q" THEN <<"q", "q">> ELSE <<text[i]>>]
         IN  /\ text \in Seq(Chars) /\ Len(text) \in Nat
             /\ \A i \in 1 .. Len(text) : text[i] \in Chars \ {"l", "t"}
             /\ s \in Seq(Seq(Chars)) /\ Len(s) = Len(text)
             /\ \A i \in 1 .. Len(text) :
                  s[i] = IF text[i] = "q" THEN <<"q", "q">> ELSE <<text[i]>>
             /\ Twice(text) = FlattenSeq(s)
<1> DEFINE C == Chars \ {"l", "t"}
           s == [i \in DOMAIN text |->
                   IF text[i] = "q" THEN <<"q", "q">> ELSE <<text[i]>>]
<1>1. /\ text \in Seq(Chars) /\ Len(text) \in Nat
      /\ DOMAIN text = 1 .. Len(text)
      /\ \A i \in 1 .. Len(text) : text[i] \in C
  <2>1. text \in Seq(C) /\ C \subseteq Chars
    BY DEF Texts
  <2> HIDE DEF C
  <2> QED
    BY <2>1, ElementOfSeq, LenProperties, SeqMonotonic
<1>2. s \in [1 .. Len(text) -> Seq(Chars)]
  <2>1. ASSUME NEW c \in C
        PROVE  <<c>> \in Seq(Chars) /\ <<"q", "q">> \in Seq(Chars)
    <3>1. c \in Chars /\ "q" \in Chars
      BY DEF Chars
    <3> QED
      BY <3>1
  <2> HIDE DEF C
  <2> QED
    BY <1>1, <2>1
<1>3. s \in Seq(Seq(Chars)) /\ Len(s) = Len(text)
  <2> HIDE DEF s
  <2>1. s \in Seq(Seq(Chars))
    BY <1>1, <1>2, IsASeq
  <2>2. DOMAIN s = 1 .. Len(text)
    BY <1>2
  <2> QED
    BY <1>1, <2>1, <2>2, LenProperties
<1>4. Twice(text) = FlattenSeq(s)
  BY DEF Twice
<1>5. \A i \in 1 .. Len(text) :
        s[i] = IF text[i] = "q" THEN <<"q", "q">> ELSE <<text[i]>>
  BY <1>1
<1> QED
  BY <1>1, <1>3, <1>4, <1>5

(* Inside quotes an escaped text adds to a line, and leaves it inside.     *)
LEMMA TextScanned ==
  ASSUME NEW text \in Texts, NEW p \in Scans, p.quotes
  PROVE  /\ Twice(text) \in Seq(Chars)
         /\ Scan(p, Twice(text)) = [p EXCEPT !.line = @ \o Twice(text)]
<1> DEFINE s == [i \in DOMAIN text |->
                   IF text[i] = "q" THEN <<"q", "q">> ELSE <<text[i]>>]
           n == Len(text)
           with(g) == [p EXCEPT !.line = p.line \o g]
           R == [i \in 0 .. n |->
                   {g \in Seq(Chars) : Scan(p, g) = with(g)}]
<1>1. /\ n \in Nat /\ \A i \in 1 .. n : text[i] \in Chars
      /\ s \in Seq(Seq(Chars)) /\ Len(s) = n
      /\ \A i \in 1 .. n :
           s[i] = IF text[i] = "q" THEN <<"q", "q">> ELSE <<text[i]>>
      /\ Twice(text) = FlattenSeq(s)
  BY TwicePieces
<1> HIDE DEF s, n
<1>2. p.line \in Seq(Chars) /\ p.line \o <<>> = p.line /\ <<>> \in Seq(Chars)
  <2>1. p.line \in Seq(Chars)
    BY DEF Scans
  <2> QED
    BY <2>1, ConcatEmptySeq, EmptySeq
<1>3. <<>> \in R[0]
  <2>1. with(<<>>) = p
    BY <1>2 DEF Scans
  <2>2. Scan(p, <<>>) = p
    <3>1. "a" \in Chars
      BY DEF Chars
    <3> QED
      BY <1>2, <3>1, ScanChar
  <2>3. 0 \in 0 .. n
    BY <1>1
  <2> HIDE DEF with
  <2> QED
    BY <1>2, <2>1, <2>2, <2>3
<1>4. ASSUME NEW i \in 1 .. n, NEW g \in Seq(Chars), g \in R[i - 1]
      PROVE  g \o s[i] \in R[i]
  <2> DEFINE c == text[i]
  <2>1. i - 1 \in 0 .. n /\ i \in 0 .. n /\ c \in Chars /\ "q" \in Chars
    BY <1>1 DEF Chars
  <2>2. Scan(p, g) = with(g)
    BY <1>4, <2>1
  <2>3. s[i] = IF c = "q" THEN <<"q", "q">> ELSE <<c>>
    BY <1>1
  <2> HIDE DEF c
  <2>4. p.line \o g \in Seq(Chars) /\ with(g) \in Scans
    <3>1. p.line \o g \in Seq(Chars)
      BY <1>2, ConcatProperties
    <3> QED
      BY <3>1 DEF Scans
  <2>5. /\ g \o s[i] \in Seq(Chars)
        /\ p.line \o (g \o s[i]) =
             IF c = "q" THEN Append(Append(p.line \o g, "q"), "q")
             ELSE Append(p.line \o g, c)
    <3> DEFINE l == p.line
    <3>0. l \in Seq(Chars)
      BY <1>2
    <3> HIDE DEF l
    <3>1. CASE c = "q"
      <4>1. g \o s[i] = Append(Append(g, "q"), "q")
        BY <2>1, <2>3, <3>1, OneMore
      <4>2. Append(g, "q") \in Seq(Chars)
            /\ Append(Append(g, "q"), "q") \in Seq(Chars)
        BY <2>1, AppendProperties
      <4>3. /\ l \o Append(Append(g, "q"), "q") = Append(l \o Append(g, "q"), "q")
            /\ l \o Append(g, "q") = Append(l \o g, "q")
        BY <2>1, <3>0, <4>2, ConcatAppend
      <4> QED
        BY <3>1, <4>1, <4>2, <4>3 DEF l
    <3>2. CASE c # "q"
      <4>1. g \o s[i] = Append(g, c)
        BY <2>1, <2>3, <3>2, OneMore
      <4>2. Append(g, c) \in Seq(Chars)
        BY <2>1, AppendProperties
      <4>3. l \o Append(g, c) = Append(l \o g, c)
        BY <2>1, <3>0, <4>2, ConcatAppend
      <4> QED
        BY <3>2, <4>1, <4>2, <4>3 DEF l
    <3> QED
      BY <3>1, <3>2
  <2>6. Scan(p, g \o s[i]) = Scan(with(g), s[i])
    <3>1. s[i] \in Seq(Chars)
      BY <1>1, ElementOfSeq
    <3> HIDE DEF with
    <3>2. Scan(p, g \o s[i]) = Scan(Scan(p, g), s[i])
      BY <3>1, ScanBoth
    <3> QED
      BY <2>2, <3>2
  <2>7. Scan(with(g), s[i]) = with(g \o s[i])
    <3> DEFINE l == p.line \o g
               m == p.line \o (g \o s[i])
    <3>1. CASE c = "q"
      <4>1. Scan(with(g), s[i]) =
              ScannedChar(ScannedChar(with(g), "q"), "q")
        BY <2>1, <2>3, <2>4, <3>1, ScanTwo
      <4>2. m = Append(Append(l, "q"), "q")
        BY <2>5, <3>1
      <4> HIDE DEF l, m
      <4>3. ScannedChar([p EXCEPT !.line = l], "q") =
              [p EXCEPT !.line = Append(l, "q"), !.quotes = FALSE]
        BY DEF ScannedChar, Scans
      <4>4. ScannedChar([p EXCEPT !.line = Append(l, "q"), !.quotes = FALSE], "q")
              = [p EXCEPT !.line = Append(Append(l, "q"), "q")]
        BY DEF ScannedChar, Scans
      <4> QED
        BY <4>1, <4>2, <4>3, <4>4 DEF l, m
    <3>2. CASE c # "q"
      <4>1. Scan(with(g), s[i]) = ScannedChar(with(g), c)
        BY <2>1, <2>3, <2>4, <3>2, ScanChar
      <4>2. m = Append(l, c)
        BY <2>5, <3>2
      <4> HIDE DEF l, m
      <4>3. ScannedChar([p EXCEPT !.line = l], c) =
              [p EXCEPT !.line = Append(l, c)]
        BY <3>2 DEF ScannedChar, Scans
      <4> QED
        BY <4>1, <4>2, <4>3 DEF l, m
    <3> QED
      BY <3>1, <3>2
  <2> HIDE DEF with
  <2> QED
    BY <2>1, <2>5, <2>6, <2>7
<1>5. FlattenSeq(s) \in R[n] /\ n \in 0 .. n
  <2> HIDE DEF R
  <2>1. \A i \in 1 .. Len(s) : \A g \in Seq(Chars) :
          g \in R[i - 1] => g \o s[i] \in R[i]
    BY <1>1, <1>4
  <2>2. FlattenSeq(s) \in R[Len(s)]
    BY <1>1, <1>3, <2>1, FlattenKeeps
  <2> QED
    BY <1>1, <2>2
<1> QED
  BY <1>1, <1>5

(* Inside quotes an escaped text adds to a field as it was.                *)
LEMMA TextAdvanced ==
  ASSUME NEW text \in Texts, NEW f \in Fields,
         f.field = <<>>, f.inside, ~f.ended
  PROVE  Advance(f, Twice(text)) = [f EXCEPT !.field = text]
<1> DEFINE s == [i \in DOMAIN text |->
                   IF text[i] = "q" THEN <<"q", "q">> ELSE <<text[i]>>]
           n == Len(text)
           at(i) == SubSeq(text, 1, i)
           with(i) == [f EXCEPT !.field = at(i)]
           R == [i \in 0 .. n |->
                   {g \in Seq(Chars) : Advance(f, g) = with(i)}]
<1>1. /\ text \in Seq(Chars)
      /\ n \in Nat /\ \A i \in 1 .. n : text[i] \in Chars
      /\ s \in Seq(Seq(Chars)) /\ Len(s) = n
      /\ \A i \in 1 .. n :
           s[i] = IF text[i] = "q" THEN <<"q", "q">> ELSE <<text[i]>>
      /\ Twice(text) = FlattenSeq(s)
  BY TwicePieces
<1>2. /\ at(0) = <<>> /\ at(n) = text
      /\ \A i \in 1 .. n : at(i) = Append(at(i - 1), text[i])
      /\ \A i \in 0 .. n : at(i) \in Seq(Chars)
  BY <1>1, Beginnings
<1> HIDE DEF s, n, at
<1>3. <<>> \in R[0]
  <2>1. with(0) = f
    BY <1>2 DEF Fields
  <2>2. Advance(f, <<>>) = f /\ <<>> \in Seq(Chars)
    <3>1. "a" \in Chars /\ <<>> \in Seq(Chars)
      BY EmptySeq DEF Chars
    <3> QED
      BY <3>1, AdvanceChar
  <2>3. 0 \in 0 .. n
    BY <1>1
  <2> HIDE DEF with
  <2> QED
    BY <2>1, <2>2, <2>3
<1>4. ASSUME NEW i \in 1 .. n, NEW g \in Seq(Chars), g \in R[i - 1]
      PROVE  g \o s[i] \in R[i]
  <2> DEFINE c == text[i]
             w == at(i - 1)
  <2>1. i - 1 \in 0 .. n /\ i \in 0 .. n /\ c \in Chars /\ "q" \in Chars
    BY <1>1 DEF Chars
  <2>2. Advance(f, g) = with(i - 1)
    BY <1>4, <2>1
  <2>3. s[i] = IF c = "q" THEN <<"q", "q">> ELSE <<c>>
    BY <1>1
  <2>4. w \in Seq(Chars) /\ at(i) = Append(w, c)
    BY <1>2, <2>1
  <2> HIDE DEF c, w
  <2>5. with(i - 1) \in Fields /\ with(i - 1) = [f EXCEPT !.field = w]
    BY <2>4 DEF Fields, w
  <2>6. g \o s[i] \in Seq(Chars)
        /\ Advance(f, g \o s[i]) = Advance(with(i - 1), s[i])
    <3>1. s[i] \in Seq(Chars)
      BY <1>1, ElementOfSeq
    <3> HIDE DEF with
    <3> QED
      BY <2>1, <2>2, <3>1, AdvanceBoth
  <2>7. Advance(with(i - 1), s[i]) = with(i)
    <3>1. CASE c = "q"
      <4>1. Advance(with(i - 1), s[i]) =
              Advanced(Advanced(with(i - 1), "q"), "q")
        <5> HIDE DEF with
        <5> QED
          BY <2>1, <2>3, <2>5, <2>6, <3>1, AdvanceTwo
      <4>2. Advanced([f EXCEPT !.field = w], "q") =
              [f EXCEPT !.field = w, !.inside = FALSE, !.ended = TRUE]
        BY DEF Advanced, Fields
      <4>3. Advanced([f EXCEPT !.field = w, !.inside = FALSE, !.ended = TRUE],
                     "q")
              = [f EXCEPT !.field = Append(w, "q")]
        BY DEF Advanced, Fields
      <4> QED
        BY <2>4, <2>5, <3>1, <4>1, <4>2, <4>3
    <3>2. CASE c # "q"
      <4>1. Advance(with(i - 1), s[i]) = Advanced(with(i - 1), c)
        <5> HIDE DEF with
        <5> QED
          BY <2>1, <2>3, <2>5, <2>6, <3>2, AdvanceChar
      <4>2. Advanced([f EXCEPT !.field = w], c) = [f EXCEPT !.field = Append(w, c)]
        BY <3>2 DEF Advanced, Fields
      <4> QED
        BY <2>4, <2>5, <3>2, <4>1, <4>2
    <3> QED
      BY <3>1, <3>2
  <2> HIDE DEF with
  <2> QED
    BY <2>1, <2>6, <2>7
<1>5. FlattenSeq(s) \in R[n] /\ n \in 0 .. n
  <2> HIDE DEF R
  <2>1. \A i \in 1 .. Len(s) : \A g \in Seq(Chars) :
          g \in R[i - 1] => g \o s[i] \in R[i]
    BY <1>1, <1>4
  <2>2. FlattenSeq(s) \in R[Len(s)]
    BY <1>1, <1>3, <2>1, FlattenKeeps
  <2> QED
    BY <1>1, <2>2
<1> QED
  BY <1>1, <1>2, <1>5

(* A row as it is written: up to the comma, to the first quote, to the end *)
(* of the text, and without the newline.                                   *)
Begun(row) == row[1] \o (IF row[1] = <<>> THEN <<>> ELSE <<"c">>)
Quoted(row) == Begun(row) \o <<"q">>
Written(row) == Quoted(row) \o Twice(row[2])
LineOf(row) == Written(row) \o <<"q">>

(* The row is that line, which is never empty, and the newline.            *)
LEMMA RowIsALine ==
  ASSUME NEW row \in Numbers \X Texts
  PROVE  /\ row[1] \in Seq(Chars)
         /\ Begun(row) \in Seq(Chars)
         /\ Quoted(row) \in Seq(Chars) /\ Quoted(row) = Append(Begun(row), "q")
         /\ Twice(row[2]) \in Seq(Chars) /\ Written(row) \in Seq(Chars)
         /\ LineOf(row) \in Seq(Chars) /\ LineOf(row) = Append(Written(row), "q")
         /\ LineOf(row) # <<>>
         /\ ExportedRow(row) = LineOf(row) \o <<"n">>
<1> DEFINE comma == IF row[1] = <<>> THEN <<>> ELSE <<"c">>
<1>1. row[1] \in Seq(Chars) /\ row[2] \in Texts
  <2>1. row[1] \in Seq({"a"}) /\ {"a"} \subseteq Chars /\ row[2] \in Texts
    BY DEF Numbers, Chars
  <2> QED
    BY <2>1, SeqMonotonic
<1>2. "q" \in Chars /\ "n" \in Chars /\ "c" \in Chars
  BY DEF Chars
<1>3. comma \in Seq(Chars) /\ <<"q">> \in Seq(Chars)
  BY <1>2, EmptySeq
<1>4. Begun(row) \in Seq(Chars)
  <2> HIDE DEF comma
  <2>1. row[1] \o comma \in Seq(Chars)
    BY <1>1, <1>3, ConcatProperties
  <2> QED
    BY <2>1 DEF Begun, comma
<1>5. Quoted(row) \in Seq(Chars) /\ Quoted(row) = Append(Begun(row), "q")
  BY <1>2, <1>3, <1>4, ConcatProperties, OneMore DEF Quoted
<1>6. Twice(row[2]) \in Seq(Chars)
  <2>1. [line |-> <<>>, quotes |-> TRUE, rows |-> <<>>] \in Scans
    BY EmptySeq DEF Scans
  <2> QED
    BY <1>1, <2>1, TextScanned
<1>7. Written(row) \in Seq(Chars)
  BY <1>5, <1>6, ConcatProperties DEF Written
<1>8. LineOf(row) \in Seq(Chars) /\ LineOf(row) = Append(Written(row), "q")
  BY <1>2, <1>3, <1>7, ConcatProperties, OneMore DEF LineOf
<1>9. LineOf(row) # <<>>
  <2>1. Len(LineOf(row)) = Len(Written(row)) + 1 /\ Len(Written(row)) \in Nat
    BY <1>2, <1>7, <1>8, AppendProperties, LenProperties
  <2> QED
    BY <2>1, EmptySeq
<1>10. ExportedRow(row) = LineOf(row) \o <<"n">>
  <2>1. ExportedRow(row) = Written(row) \o <<"q", "n">>
    BY DEF ExportedRow, ToFileFormat, Written, Quoted, Begun
  <2>2. Written(row) \o <<"q", "n">> = Append(Append(Written(row), "q"), "n")
    BY <1>2, <1>7, OneMore
  <2>3. LineOf(row) \o <<"n">> = Append(LineOf(row), "n")
    BY <1>2, <1>8, OneMore
  <2> QED
    BY <1>8, <2>1, <2>2, <2>3
<1> QED
  BY <1>1, <1>4, <1>5, <1>6, <1>7, <1>8, <1>9, <1>10

(* Between two lines it makes a row of the line.                           *)
LEMMA RowScanned ==
  ASSUME NEW row \in Numbers \X Texts, NEW p \in Scans,
         p.line = <<>>, ~p.quotes
  PROVE  /\ ExportedRow(row) \in Seq(Chars)
         /\ Scan(p, ExportedRow(row)) =
              [p EXCEPT !.rows = Append(@, FieldsOf(LineOf(row)))]
<1> DEFINE at(l) == [p EXCEPT !.line = l]
           in(l) == [p EXCEPT !.line = l, !.quotes = TRUE]
           comma == IF row[1] = <<>> THEN <<>> ELSE <<"c">>
<1>1. /\ row[1] \in Seq(Chars)
      /\ Begun(row) \in Seq(Chars)
      /\ Quoted(row) \in Seq(Chars) /\ Quoted(row) = Append(Begun(row), "q")
      /\ Twice(row[2]) \in Seq(Chars) /\ Written(row) \in Seq(Chars)
      /\ LineOf(row) \in Seq(Chars) /\ LineOf(row) = Append(Written(row), "q")
      /\ LineOf(row) # <<>>
      /\ ExportedRow(row) = LineOf(row) \o <<"n">>
  BY RowIsALine
<1>2. /\ "q" \in Chars /\ "n" \in Chars /\ "c" \in Chars
      /\ <<"q">> \in Seq(Chars) /\ <<"n">> \in Seq(Chars)
      /\ <<"c">> \in Seq(Chars) /\ <<>> \in Seq(Chars)
  <2>1. "q" \in Chars /\ "n" \in Chars /\ "c" \in Chars
    BY DEF Chars
  <2> QED
    BY <2>1, EmptySeq
<1>3. \A l \in Seq(Chars) : at(l) \in Scans /\ in(l) \in Scans
  BY DEF Scans
<1>4. Scan(p, row[1]) = at(row[1])
  <2>1. Scan(p, row[1]) = [p EXCEPT !.line = p.line \o row[1]]
    <3>1. row[1] \in Numbers
      OBVIOUS
    <3> QED
      BY <3>1, NumberScanned
  <2>2. <<>> \o row[1] = row[1]
    BY <1>1, ConcatEmptySeq
  <2> QED
    BY <2>1, <2>2
<1>5. Scan(p, Begun(row)) = at(Begun(row))
  <2>1. Begun(row) = row[1] \o comma
    BY DEF Begun
  <2>2. comma \in Seq(Chars)
    BY <1>2
  <2>3. Scan(p, Begun(row)) = Scan(at(row[1]), comma)
    <3> HIDE DEF comma, at
    <3>1. Scan(p, row[1] \o comma) = Scan(Scan(p, row[1]), comma)
      BY <1>1, <2>2, ScanBoth
    <3> QED
      BY <1>4, <2>1, <3>1
  <2>4. CASE row[1] = <<>>
    <3>1. comma = <<>> /\ Begun(row) = row[1]
      BY <1>1, <2>1, <2>4, ConcatEmptySeq
    <3>2. Scan(at(row[1]), <<>>) = at(row[1])
      <4> HIDE DEF at
      <4> QED
        BY <1>1, <1>2, <1>3, ScanChar
    <3> QED
      BY <2>3, <3>1, <3>2
  <2>5. CASE row[1] # <<>>
    <3>1. comma = <<"c">> /\ Begun(row) = Append(row[1], "c")
      BY <1>1, <1>2, <2>1, <2>5, OneMore
    <3>2. Scan(at(row[1]), <<"c">>) = ScannedChar(at(row[1]), "c")
      <4> HIDE DEF at
      <4> QED
        BY <1>1, <1>2, <1>3, ScanChar
    <3>3. ScannedChar(at(row[1]), "c") = at(Append(row[1], "c"))
      BY DEF ScannedChar, Scans
    <3> QED
      BY <2>3, <3>1, <3>2, <3>3
  <2> QED
    BY <2>4, <2>5
<1>6. Scan(p, Quoted(row)) = in(Quoted(row))
  <2>1. Scan(p, Quoted(row)) = ScannedChar(at(Begun(row)), "q")
    <3> DEFINE q == at(Begun(row))
               l == Begun(row)
    <3>1. q \in Scans /\ Scan(p, l) = q /\ l \in Seq(Chars)
      BY <1>1, <1>3, <1>5
    <3>2. Quoted(row) = l \o <<"q">>
      BY DEF Quoted
    <3> HIDE DEF q, l
    <3>3. Scan(p, l \o <<"q">>) = ScannedChar(q, "q")
      BY <1>2, <3>1, ScanNext
    <3> QED
      BY <3>2, <3>3 DEF q
  <2>3. ScannedChar(at(Begun(row)), "q") = in(Append(Begun(row), "q"))
    BY DEF ScannedChar, Scans
  <2> QED
    BY <1>1, <2>1, <2>3
<1>7. Scan(p, Written(row)) = in(Written(row))
  <2> DEFINE l == Quoted(row)
             w == Twice(row[2])
  <2>1. Scan(p, l \o w) = Scan(Scan(p, l), w)
    BY <1>1, ScanBoth
  <2>2. Scan(in(l), w) = [in(l) EXCEPT !.line = in(l).line \o w]
    <3>1. in(l) \in Scans /\ in(l).quotes
      BY <1>1, <1>3 DEF Scans
    <3> HIDE DEF in, l
    <3> QED
      BY <3>1, TextScanned
  <2>3. [in(l) EXCEPT !.line = in(l).line \o w] = in(l \o w)
    <3> HIDE DEF l, w
    <3> QED
      BY DEF Scans
  <2> QED
    BY <1>6, <2>1, <2>2, <2>3 DEF Written
<1>8. Scan(p, LineOf(row)) = at(LineOf(row))
  <2>1. Scan(p, LineOf(row)) = ScannedChar(in(Written(row)), "q")
    <3> DEFINE q == in(Written(row))
               l == Written(row)
    <3>1. q \in Scans /\ Scan(p, l) = q /\ l \in Seq(Chars)
      BY <1>1, <1>3, <1>7
    <3>2. LineOf(row) = l \o <<"q">>
      BY DEF LineOf
    <3> HIDE DEF q, l
    <3>3. Scan(p, l \o <<"q">>) = ScannedChar(q, "q")
      BY <1>2, <3>1, ScanNext
    <3> QED
      BY <3>2, <3>3 DEF q
  <2>3. ScannedChar(in(Written(row)), "q") = at(Append(Written(row), "q"))
    BY DEF ScannedChar, Scans
  <2> QED
    BY <1>1, <2>1, <2>3
<1>9. Scan(p, ExportedRow(row)) = ScannedChar(at(LineOf(row)), "n")
  <2> DEFINE q == at(LineOf(row))
             l == LineOf(row)
  <2>1. q \in Scans /\ Scan(p, l) = q /\ l \in Seq(Chars)
    BY <1>1, <1>3, <1>8
  <2>2. ExportedRow(row) = l \o <<"n">>
    BY <1>1
  <2> HIDE DEF q, l
  <2>3. Scan(p, l \o <<"n">>) = ScannedChar(q, "n")
    BY <1>2, <2>1, ScanNext
  <2> QED
    BY <2>2, <2>3 DEF q
<1>10. ScannedChar(at(LineOf(row)), "n") =
         [p EXCEPT !.rows = Append(@, FieldsOf(LineOf(row)))]
  <2> DEFINE l == LineOf(row)
  <2>1. l # <<>>
    BY <1>1
  <2> HIDE DEF l
  <2>2. ScannedChar(at(l), "n") = [p EXCEPT !.rows = Append(@, FieldsOf(l))]
    BY <2>1 DEF ScannedChar, Scans
  <2> QED
    BY <2>2 DEF l
<1>11. ExportedRow(row) \in Seq(Chars)
  BY <1>1, <1>2, ConcatProperties
<1> QED
  BY <1>9, <1>10, <1>11

(* A field is the only thing that changes.                                 *)
LEMMA FieldChanged ==
  ASSUME NEW f \in Fields, NEW g \in Fields, NEW field \in Seq(Chars),
         g.done = f.done, g.inside = f.inside, g.ended = f.ended,
         g.field = field
  PROVE  [f EXCEPT !.field = field] = g
BY DEF Fields

(* After the comma, or at once, the rest of the line is read as the text.  *)
LEMMA TextRead ==
  ASSUME NEW row \in Numbers \X Texts, NEW one \in Seq(Seq(Chars)),
         Advance(NoFields, Begun(row)) =
           [done |-> one, field |-> <<>>, inside |-> FALSE, ended |-> FALSE]
  PROVE  FieldsOf(LineOf(row)) = Append(one, row[2])
<1> DEFINE f2 == [done |-> one, field |-> <<>>, inside |-> FALSE,
                  ended |-> FALSE]
           f3 == [done |-> one, field |-> <<>>, inside |-> TRUE,
                  ended |-> FALSE]
           f4 == [done |-> one, field |-> row[2], inside |-> TRUE,
                  ended |-> FALSE]
           f5 == [done |-> one, field |-> row[2], inside |-> FALSE,
                  ended |-> TRUE]
<1>1. /\ Begun(row) \in Seq(Chars)
      /\ Quoted(row) \in Seq(Chars)
      /\ Twice(row[2]) \in Seq(Chars) /\ Written(row) \in Seq(Chars)
      /\ LineOf(row) \in Seq(Chars)
  BY RowIsALine
<1>2. "q" \in Chars /\ <<"q">> \in Seq(Chars)
  <2>1. "q" \in Chars
    BY DEF Chars
  <2> QED
    BY <2>1
<1>3. row[2] \in Seq(Chars) /\ row[2] \in Texts
  BY TwicePieces
<1>4. /\ NoFields \in Fields /\ f2 \in Fields /\ f3 \in Fields /\ f4 \in Fields
  <2>1. <<>> \in Seq(Chars) /\ <<>> \in Seq(Seq(Chars))
    BY EmptySeq
  <2> DEFINE b == row[2]
  <2>2. b \in Seq(Chars)
    BY <1>3
  <2> HIDE DEF b
  <2>3. \A d \in Seq(Seq(Chars)), g \in Seq(Chars), i, e \in BOOLEAN :
          [done |-> d, field |-> g, inside |-> i, ended |-> e] \in Fields
    BY DEF Fields
  <2> QED
    BY <2>1, <2>2, <2>3 DEF NoFields, b
<1>6. Advance(NoFields, Begun(row)) = f2
  OBVIOUS
<1>7. Advance(NoFields, Quoted(row)) = f3
  <2>1. Advance(NoFields, Quoted(row)) = Advanced(f2, "q")
    <3> HIDE DEF f2
    <3> QED
      BY <1>1, <1>2, <1>4, <1>6, AdvanceNext DEF Quoted
  <2>2. Advanced(f2, "q") = f3
    BY DEF Advanced
  <2> QED
    BY <2>1, <2>2
<1>8. Advance(NoFields, Written(row)) = f4
  <2>1. Advance(NoFields, Written(row)) = Advance(f3, Twice(row[2]))
    <3> HIDE DEF f3
    <3> QED
      BY <1>1, <1>4, <1>7, AdvanceBoth DEF Written
  <2>2. Advance(f3, Twice(row[2])) = [f3 EXCEPT !.field = row[2]]
    <3>1. f3.field = <<>> /\ f3.inside /\ ~f3.ended
      BY DEF NoFields
    <3> HIDE DEF f3
    <3> QED
      BY <1>3, <1>4, <3>1, TextAdvanced
  <2>3. [f3 EXCEPT !.field = row[2]] = f4
    <3>1. /\ f4.done = f3.done /\ f4.inside = f3.inside
          /\ f4.ended = f3.ended /\ f4.field = row[2]
      OBVIOUS
    <3> HIDE DEF f3, f4
    <3> QED
      BY <1>3, <1>4, <3>1, FieldChanged
  <2> QED
    BY <2>1, <2>2, <2>3
<1>9. Advance(NoFields, LineOf(row)) = f5
  <2>1. Advance(NoFields, LineOf(row)) = Advanced(f4, "q")
    <3> HIDE DEF f4
    <3> QED
      BY <1>1, <1>2, <1>4, <1>8, AdvanceNext DEF LineOf
  <2>2. Advanced(f4, "q") = f5
    BY DEF Advanced
  <2> QED
    BY <2>1, <2>2
<1>10. FieldsOf(LineOf(row)) = Append(f5.done, f5.field)
  <2> HIDE DEF f5
  <2> QED
    BY <1>1, <1>9, FieldsOfAre
<1> QED
  BY <1>10

(* The fields of the line are the number, if there is one, and the text.   *)
LEMMA RowRead ==
  ASSUME NEW row \in Numbers \X Texts
  PROVE  /\ Len(FieldsOf(LineOf(row))) = IF row[1] = <<>> THEN 1 ELSE 2
         /\ row[1] # <<>> => /\ FieldsOf(LineOf(row))[1] = row[1]
                            /\ FieldsOf(LineOf(row))[2] = row[2]
<1>1. /\ row[1] \in Seq(Chars) /\ row[1] \in Numbers
      /\ row[2] \in Seq(Chars)
  BY RowIsALine, TwicePieces
<1>2. CASE row[1] = <<>>
  <2>1. Begun(row) = <<>> \o <<>>
    BY <1>2 DEF Begun
  <2>2. <<>> \o <<>> = <<>> /\ <<>> \in Seq(Seq(Chars)) /\ <<>> \in Seq(Chars)
        /\ Len(<<>>) = 0
    BY EmptySeq, ConcatProperties
  <2>3. NoFields \in Fields
    BY <2>2 DEF NoFields, Fields
  <2>4. Advance(NoFields, <<>>) = NoFields
    <3>1. NoFields.field = <<>> /\ ~NoFields.ended /\ <<>> \in Numbers
      BY <1>1, <1>2 DEF NoFields
    <3>2. Advance(NoFields, <<>>) = [NoFields EXCEPT !.field = <<>>]
      BY <2>3, <3>1, NumberAdvanced
    <3> QED
      BY <2>2, <2>3, <3>1, <3>2, FieldChanged
  <2>5. FieldsOf(LineOf(row)) = Append(<<>>, row[2])
    <3>1. Advance(NoFields, Begun(row)) =
            [done |-> <<>>, field |-> <<>>, inside |-> FALSE, ended |-> FALSE]
      BY <2>1, <2>2, <2>4 DEF NoFields
    <3> QED
      BY <2>2, <3>1, TextRead
  <2>6. Len(Append(<<>>, row[2])) = 1
    BY <1>1, <2>2, AppendProperties
  <2> QED
    BY <1>2, <2>5, <2>6
<1>3. CASE row[1] # <<>>
  <2> DEFINE one == <<row[1]>>
             f1 == [done |-> <<>>, field |-> row[1], inside |-> FALSE,
                    ended |-> FALSE]
             f2 == [done |-> one, field |-> <<>>, inside |-> FALSE,
                    ended |-> FALSE]
  <2>1. /\ "c" \in Chars /\ <<"c">> \in Seq(Chars)
        /\ one \in Seq(Seq(Chars)) /\ Len(one) = 1 /\ one[1] = row[1]
    <3>1. "c" \in Chars
      BY DEF Chars
    <3>2. \A a \in Seq(Chars) : <<a>> \in Seq(Seq(Chars))
      OBVIOUS
    <3> QED
      BY <1>1, <3>1, <3>2
  <2>2. NoFields \in Fields /\ f1 \in Fields
    <3> DEFINE a == row[1]
    <3>1. a \in Seq(Chars) /\ <<>> \in Seq(Chars) /\ <<>> \in Seq(Seq(Chars))
      BY <1>1, EmptySeq
    <3> HIDE DEF a
    <3>2. \A d \in Seq(Seq(Chars)), g \in Seq(Chars), i, e \in BOOLEAN :
            [done |-> d, field |-> g, inside |-> i, ended |-> e] \in Fields
      BY DEF Fields
    <3> QED
      BY <3>1, <3>2 DEF NoFields, a
  <2>3. Advance(NoFields, row[1]) = f1
    <3>1. /\ NoFields.field = <<>> /\ NoFields.ended = FALSE
          /\ NoFields.done = <<>> /\ NoFields.inside = FALSE
      BY DEF NoFields
    <3>2. [NoFields EXCEPT !.field = row[1]] = f1
      <4>1. /\ f1.done = <<>> /\ f1.inside = FALSE /\ f1.ended = FALSE
            /\ f1.field = row[1]
        OBVIOUS
      <4> HIDE DEF f1
      <4> QED
        BY <1>1, <2>2, <3>1, <4>1, FieldChanged
    <3> HIDE DEF f1
    <3> QED
      BY <1>1, <1>3, <2>2, <3>1, <3>2, NumberAdvanced
  <2>4. Advance(NoFields, Begun(row)) = f2
    <3>1. Begun(row) = row[1] \o <<"c">>
      BY <1>3 DEF Begun
    <3>2. Advance(NoFields, row[1] \o <<"c">>) = Advanced(f1, "c")
      <4> HIDE DEF f1
      <4> QED
        BY <1>1, <2>1, <2>2, <2>3, AdvanceNext
    <3>3. Advanced(f1, "c") = f2
      <4>1. Append(<<>>, row[1]) = one
        OBVIOUS
      <4> HIDE DEF one
      <4> QED
        BY <4>1 DEF Advanced
    <3> QED
      BY <3>1, <3>2, <3>3
  <2> HIDE DEF one
  <2>5. FieldsOf(LineOf(row)) = Append(one, row[2])
    BY <2>1, <2>4, TextRead
  <2> DEFINE D == Seq(Chars)
             b == row[2]
  <2>6. one \in Seq(D) /\ b \in D
    BY <1>1, <2>1
  <2> HIDE DEF D, b
  <2>7. /\ \A i \in 1 .. Len(one) : Append(one, b)[i] = one[i]
        /\ Append(one, b)[Len(one) + 1] = b
        /\ Len(Append(one, b)) = Len(one) + 1
    BY <2>6, AppendProperties
  <2>8. /\ Append(one, b)[1] = row[1] /\ Append(one, b)[2] = b
        /\ Len(Append(one, b)) = 2
    BY <2>1, <2>7
  <2> QED
    BY <1>3, <2>5, <2>8 DEF b
<1> QED
  BY <1>2, <1>3

(* What the rows of a file of a table are.                                 *)
LinesOf(t) == [k \in 1 .. Len(t) |-> FieldsOf(LineOf(t[k]))]

(* The file of a table has a row for each row of the table.                *)
LEMMA TableScanned ==
  ASSUME NEW t \in Seq(Numbers \X Texts)
  PROVE  /\ TextOf(t) \in Seq(Chars)
         /\ Scan(Unscanned, TextOf(t)) = [Unscanned EXCEPT !.rows = LinesOf(t)]
<1> DEFINE s == [i \in DOMAIN t |-> ExportedRow(t[i])]
           n == Len(t)
           z == LinesOf(t)
           at(i) == SubSeq(z, 1, i)
           with(i) == [Unscanned EXCEPT !.rows = at(i)]
           R == [i \in 0 .. n |->
                   {g \in Seq(Chars) : Scan(Unscanned, g) = with(i)}]
<1>1. /\ n \in Nat /\ DOMAIN t = 1 .. n
      /\ \A i \in 1 .. n : t[i] \in Numbers \X Texts
  BY ElementOfSeq, LenProperties
<1>2. \A i \in 1 .. n : s[i] = ExportedRow(t[i]) /\ s[i] \in Seq(Chars)
  <2>1. \A row \in Numbers \X Texts : ExportedRow(row) \in Seq(Chars)
    <3>1. Unscanned \in Scans /\ Unscanned.line = <<>> /\ ~Unscanned.quotes
      BY EmptySeq DEF Unscanned, Scans
    <3> QED
      BY <3>1, RowScanned
  <2> QED
    BY <1>1, <2>1
<1>3. s \in Seq(Seq(Chars)) /\ Len(s) = n
  <2>1. s \in [1 .. n -> Seq(Chars)]
    BY <1>1, <1>2
  <2> HIDE DEF s
  <2>2. s \in Seq(Seq(Chars))
    BY <1>1, <2>1, IsASeq
  <2>3. DOMAIN s = 1 .. n
    BY <2>1
  <2> QED
    BY <1>1, <2>2, <2>3, LenProperties
<1>4. /\ z \in Seq(Seq(Seq(Chars))) /\ Len(z) = n
      /\ \A i \in 1 .. n : z[i] = FieldsOf(LineOf(t[i]))
  <2>1. \A row \in Numbers \X Texts :
          FieldsOf(LineOf(row)) \in Seq(Seq(Chars))
    <3>1. \A row \in Numbers \X Texts : LineOf(row) \in Seq(Chars)
      BY RowIsALine
    <3> QED
      BY <3>1, FieldsOfTyped
  <2>2. z \in [1 .. n -> Seq(Seq(Chars))]
        /\ \A i \in 1 .. n : z[i] = FieldsOf(LineOf(t[i]))
    BY <1>1, <2>1 DEF LinesOf
  <2> DEFINE D == Seq(Seq(Chars))
  <2>3. z \in [1 .. n -> D] /\ DOMAIN z = 1 .. n
    BY <2>2
  <2> HIDE DEF z, D
  <2>4. z \in Seq(D)
    BY <1>1, <2>3, IsASeq
  <2>5. Len(z) = n
    BY <1>1, <2>3, <2>4, LenProperties
  <2> QED
    BY <2>2, <2>4, <2>5 DEF D
<1> HIDE DEF s, n, z
<1>5. /\ at(0) = <<>> /\ at(n) = z
      /\ \A i \in 1 .. n : at(i) = Append(at(i - 1), z[i])
      /\ \A i \in 0 .. n : at(i) \in Seq(Seq(Seq(Chars)))
  <2> DEFINE D == Seq(Seq(Chars))
  <2>1. z \in Seq(D)
    BY <1>4
  <2> HIDE DEF D
  <2>2. /\ SubSeq(z, 1, 0) = <<>> /\ SubSeq(z, 1, Len(z)) = z
        /\ \A i \in 0 .. Len(z) : SubSeq(z, 1, i) \in Seq(D)
        /\ \A i \in 1 .. Len(z) :
             SubSeq(z, 1, i) = Append(SubSeq(z, 1, i - 1), z[i])
    BY <2>1, Beginnings
  <2> QED
    BY <1>4, <2>2 DEF D
<1> HIDE DEF at
<1>6. \A i \in 0 .. n :
        /\ with(i) \in Scans /\ with(i).line = <<>> /\ ~with(i).quotes
        /\ with(i).rows = at(i)
  BY <1>5, EmptySeq DEF Unscanned, Scans
<1>7. <<>> \in R[0]
  <2>1. with(0) = Unscanned
    BY <1>5 DEF Unscanned
  <2>2. Unscanned \in Scans /\ <<>> \in Seq(Chars) /\ "a" \in Chars
    BY EmptySeq DEF Unscanned, Scans, Chars
  <2>3. Scan(Unscanned, <<>>) = Unscanned
    BY <2>2, ScanChar
  <2>4. 0 \in 0 .. n
    BY <1>1
  <2> HIDE DEF with
  <2> QED
    BY <2>1, <2>2, <2>3, <2>4
<1>8. ASSUME NEW i \in 1 .. n, NEW g \in Seq(Chars), g \in R[i - 1]
      PROVE  g \o s[i] \in R[i]
  <2> DEFINE p == with(i - 1)
             row == t[i]
             found == z[i]
  <2>1. i - 1 \in 0 .. n /\ i \in 0 .. n
    BY <1>1
  <2>2. Scan(Unscanned, g) = p
    BY <1>8, <2>1
  <2>3. p \in Scans /\ p.line = <<>> /\ ~p.quotes /\ p.rows = at(i - 1)
    BY <1>6, <2>1
  <2>4. row \in Numbers \X Texts /\ s[i] = ExportedRow(row)
        /\ s[i] \in Seq(Chars) /\ found = FieldsOf(LineOf(row))
        /\ at(i) = Append(at(i - 1), found)
    BY <1>1, <1>2, <1>4, <1>5
  <2>5. Unscanned \in Scans
    BY EmptySeq DEF Unscanned, Scans
  <2>6. [p EXCEPT !.rows = Append(at(i - 1), found)] = with(i)
    <3> DEFINE old == at(i - 1)
               new == at(i)
    <3>1. new = Append(old, found)
      BY <2>4
    <3> HIDE DEF old, new, found
    <3>2. [[Unscanned EXCEPT !.rows = old] EXCEPT !.rows = new] =
            [Unscanned EXCEPT !.rows = new]
      BY DEF Unscanned
    <3> QED
      BY <3>1, <3>2 DEF old, new
  <2> HIDE DEF with, p, row, found
  <2>7. Scan(p, s[i]) = [p EXCEPT !.rows = Append(p.rows, found)]
    BY <2>3, <2>4, RowScanned
  <2>8. g \o s[i] \in Seq(Chars) /\ Scan(Unscanned, g \o s[i]) = Scan(p, s[i])
    BY <2>2, <2>4, <2>5, ScanBoth
  <2>9. Scan(Unscanned, g \o s[i]) = with(i)
    BY <2>3, <2>6, <2>7, <2>8
  <2> QED
    BY <2>1, <2>8, <2>9
<1>9. FlattenSeq(s) \in R[n] /\ n \in 0 .. n
  <2> HIDE DEF R
  <2>1. \A i \in 1 .. Len(s) : \A g \in Seq(Chars) :
          g \in R[i - 1] => g \o s[i] \in R[i]
    BY <1>3, <1>8
  <2>2. FlattenSeq(s) \in R[Len(s)]
    BY <1>3, <1>7, <2>1, FlattenKeeps
  <2> QED
    BY <1>1, <1>3, <2>2
<1>10. TextOf(t) = FlattenSeq(s)
  BY DEF TextOf, s
<1> QED
  BY <1>5, <1>9, <1>10 DEF z

(* They are the rows that its text has as the CSV RFC sees them.           *)
LEMMA RowsOfTable ==
  ASSUME NEW t \in Seq(Numbers \X Texts)
  PROVE  RowsOf(TextOf(t)) = LinesOf(t)
<1>1. /\ TextOf(t) \in Seq(Chars)
      /\ Scan(Unscanned, TextOf(t)) = [Unscanned EXCEPT !.rows = LinesOf(t)]
  BY TableScanned
<1> DEFINE p == [Unscanned EXCEPT !.rows = LinesOf(t)]
<1>2. p.line = <<>> /\ p.rows = LinesOf(t)
  BY DEF Unscanned
<1> HIDE DEF p
<1>3. RowsOf(TextOf(t)) = IF p.line = <<>> THEN p.rows
                          ELSE Append(p.rows, FieldsOf(p.line))
  BY <1>1, AllRowsFound DEF p
<1> QED
  BY <1>2, <1>3

(* What Encoded() puts after one another.                                  *)
LEMMA EncodedPieces ==
  ASSUME NEW text \in Texts
  PROVE  LET s == [i \in DOMAIN text |->
                     IF text[i] = "u" THEN <<"l", "t">> ELSE <<text[i]>>]
         IN  /\ text \in Seq(Chars) /\ Len(text) \in Nat
             /\ \A i \in 1 .. Len(text) : text[i] \in Chars \ {"l", "t"}
             /\ s \in Seq(Seq(Bytes)) /\ Len(s) = Len(text)
             /\ \A i \in 1 .. Len(text) :
                  s[i] = IF text[i] = "u" THEN <<"l", "t">> ELSE <<text[i]>>
             /\ Encoded(text) = FlattenSeq(s)
<1> DEFINE C == Chars \ {"l", "t"}
           s == [i \in DOMAIN text |->
                   IF text[i] = "u" THEN <<"l", "t">> ELSE <<text[i]>>]
<1>1. /\ text \in Seq(Chars) /\ Len(text) \in Nat
      /\ DOMAIN text = 1 .. Len(text)
      /\ \A i \in 1 .. Len(text) : text[i] \in C
  <2>1. text \in Seq(C) /\ C \subseteq Chars
    BY DEF Texts
  <2> HIDE DEF C
  <2> QED
    BY <2>1, ElementOfSeq, LenProperties, SeqMonotonic
<1>2. s \in [1 .. Len(text) -> Seq(Bytes)]
  <2>1. ASSUME NEW c \in C
        PROVE  (IF c = "u" THEN <<"l", "t">> ELSE <<c>>) \in Seq(Bytes)
    <3>1. "l" \in Bytes /\ "t" \in Bytes /\ (c # "u" => c \in Bytes)
      BY DEF Bytes, Chars
    <3> QED
      BY <3>1
  <2> HIDE DEF C
  <2> QED
    BY <1>1, <2>1
<1>3. s \in Seq(Seq(Bytes)) /\ Len(s) = Len(text)
  <2> HIDE DEF s
  <2>1. s \in Seq(Seq(Bytes))
    BY <1>1, <1>2, IsASeq
  <2>2. DOMAIN s = 1 .. Len(text)
    BY <1>2
  <2> QED
    BY <1>1, <2>1, <2>2, LenProperties
<1>4. Encoded(text) = FlattenSeq(s)
  BY DEF Encoded
<1>5. \A i \in 1 .. Len(text) :
        s[i] = IF text[i] = "u" THEN <<"l", "t">> ELSE <<text[i]>>
  BY <1>1
<1> QED
  BY <1>1, <1>3, <1>4, <1>5

(* One more byte.                                                          *)
LEMMA ConversionNext ==
  ASSUME NEW encoding, NEW max, NEW s \in Seq(Bytes), NEW b \in Bytes
  PROVE  /\ Conversion(encoding, s, max) \in Conversions
         /\ ConvertedByte(encoding, max, Conversion(encoding, s, max), b)
              \in Conversions
         /\ Conversion(encoding, s \o <<b>>, max) =
              ConvertedByte(encoding, max, Conversion(encoding, s, max), b)
<1> DEFINE step == ConvertStep(encoding, max)
           c == Conversion(encoding, s, max)
           one == <<b>>
<1>1. step \in StepsOf(Conversions, Bytes)
  BY ConvertStepTyped
<1>2. Unconverted \in Conversions
  BY EmptySeq DEF Unconverted, Conversions
<1>3. one \in Seq(Bytes)
  OBVIOUS
<1>4. \A v \in Conversions :
        step[<<v, b>>] = ConvertedByte(encoding, max, v, b)
        /\ step[<<v, b>>] \in Conversions
  BY <1>1 DEF ConvertStep, StepsOf
<1>5. /\ c = Ran(Conversions, Bytes, step, Unconverted, s)
      /\ Conversion(encoding, s \o one, max) =
           Ran(Conversions, Bytes, step, Unconverted, s \o one)
  BY DEF Conversion
<1>6. Ran(Conversions, Bytes, step, c, one) = step[<<c, b>>] /\ c \in Conversions
  <2> HIDE DEF step, c
  <2>1. c \in Conversions
    BY <1>1, <1>2, <1>5, RanSteps
  <2> QED
    BY <1>1, <2>1, RanOne
<1> HIDE DEF step, c, one
<1>7. Ran(Conversions, Bytes, step, Unconverted, s \o one) =
        Ran(Conversions, Bytes, step, c, one)
  BY <1>1, <1>2, <1>3, <1>5, RanConcat
<1>8. /\ c \in Conversions /\ ConvertedByte(encoding, max, c, b) \in Conversions
      /\ Conversion(encoding, s \o one, max) =
           ConvertedByte(encoding, max, c, b)
  BY <1>4, <1>5, <1>6, <1>7
<1> QED
  BY <1>8 DEF c, one

(* Two of them.                                                            *)
LEMMA ConversionTwo ==
  ASSUME NEW encoding, NEW max, NEW s \in Seq(Bytes), NEW b \in Bytes,
         NEW d \in Bytes
  PROVE  Conversion(encoding, s \o <<b, d>>, max) =
           ConvertedByte(encoding, max,
             ConvertedByte(encoding, max, Conversion(encoding, s, max), b), d)
<1> DEFINE t == s \o <<b>>
<1>1. t \in Seq(Bytes)
  <2>1. <<b>> \in Seq(Bytes)
    OBVIOUS
  <2> QED
    BY <2>1, ConcatProperties
<1>2. s \o <<b, d>> = t \o <<d>>
  <2>1. s \o <<b, d>> = Append(Append(s, b), d) /\ t = Append(s, b)
    BY OneMore
  <2> HIDE DEF t
  <2>2. t \o <<d>> = Append(t, d)
    BY <1>1, OneMore
  <2> QED
    BY <2>1, <2>2
<1>3. Conversion(encoding, t, max) =
        ConvertedByte(encoding, max, Conversion(encoding, s, max), b)
  BY ConversionNext
<1> HIDE DEF t
<1>4. Conversion(encoding, t \o <<d>>, max) =
        ConvertedByte(encoding, max, Conversion(encoding, t, max), d)
  BY <1>1, ConversionNext
<1> QED
  BY <1>2, <1>3, <1>4

(* No bytes.                                                               *)
LEMMA ConversionOfNone ==
  ASSUME NEW encoding, NEW max
  PROVE  Conversion(encoding, <<>>, max) = Unconverted
<1> DEFINE e == <<>>
<1>1. e \in Seq(Bytes) /\ SubSeq(e, 1, 0) = e
  BY EmptySeq, Beginnings
<1> HIDE DEF e
<1>2. Conversion(encoding, SubSeq(e, 1, 0), max) = Unconverted
  BY <1>1, ConversionSteps
<1> QED
  BY <1>1, <1>2 DEF e

(* A file has at least as many bytes as its text has characters.           *)
LEMMA FileIsLonger ==
  ASSUME NEW text \in Texts
  PROVE  /\ Encoded(text) \in Seq(Bytes)
         /\ Len(text) \in Nat /\ Len(Encoded(text)) \in Nat
         /\ Len(text) <= Len(Encoded(text))
<1> DEFINE s == [i \in DOMAIN text |->
                   IF text[i] = "u" THEN <<"l", "t">> ELSE <<text[i]>>]
           n == Len(text)
           R == [i \in 0 .. n |-> {g \in Seq(Bytes) : i <= Len(g)}]
<1>1. /\ n \in Nat /\ \A i \in 1 .. n : text[i] \in Chars \ {"l", "t"}
      /\ s \in Seq(Seq(Bytes)) /\ Len(s) = n
      /\ \A i \in 1 .. n :
           s[i] = IF text[i] = "u" THEN <<"l", "t">> ELSE <<text[i]>>
      /\ Encoded(text) = FlattenSeq(s)
  BY EncodedPieces
<1> HIDE DEF s, n
<1>2. <<>> \in R[0]
  <2>1. <<>> \in Seq(Bytes) /\ Len(<<>>) = 0 /\ 0 \in 0 .. n
    BY <1>1, EmptySeq
  <2> QED
    BY <2>1
<1>3. ASSUME NEW i \in 1 .. n, NEW g \in Seq(Bytes), g \in R[i - 1]
      PROVE  g \o s[i] \in R[i]
  <2>1. i - 1 \in 0 .. n /\ i \in 0 .. n /\ i - 1 <= Len(g)
    BY <1>1, <1>3
  <2>2. s[i] \in Seq(Bytes) /\ Len(s[i]) \in {1, 2}
    <3>1. s[i] \in Seq(Bytes)
      BY <1>1, ElementOfSeq
    <3>2. s[i] = <<"l", "t">> \/ s[i] = <<text[i]>>
      BY <1>1
    <3> QED
      BY <3>1, <3>2
  <2>3. g \o s[i] \in Seq(Bytes) /\ Len(g \o s[i]) = Len(g) + Len(s[i])
        /\ Len(g) \in Nat
    <3> DEFINE w == s[i]
    <3>1. w \in Seq(Bytes)
      BY <2>2
    <3> HIDE DEF w
    <3>2. g \o w \in Seq(Bytes) /\ Len(g \o w) = Len(g) + Len(w)
      BY <3>1, ConcatProperties
    <3> QED
      BY <3>2, LenProperties DEF w
  <2>4. i <= Len(g \o s[i])
    <3> DEFINE before == Len(g)
               more == Len(s[i])
               after == Len(g \o s[i])
    <3>1. /\ before \in Nat /\ i - 1 <= before /\ more \in {1, 2}
          /\ after = before + more
      BY <2>1, <2>2, <2>3
    <3>2. i \in Int
      BY <1>1
    <3> HIDE DEF before, more, after
    <3>3. i <= after
      BY <3>1, <3>2
    <3> QED
      BY <3>3 DEF after
  <2> QED
    BY <2>1, <2>3, <2>4
<1>4. FlattenSeq(s) \in R[n] /\ n \in 0 .. n
  <2> HIDE DEF R
  <2>1. \A i \in 1 .. Len(s) : \A g \in Seq(Bytes) :
          g \in R[i - 1] => g \o s[i] \in R[i]
    BY <1>1, <1>3
  <2>2. FlattenSeq(s) \in R[Len(s)]
    BY <1>1, <1>2, <2>1, FlattenKeeps
  <2> QED
    BY <1>1, <2>2
<1>5. Encoded(text) \in Seq(Bytes) /\ n <= Len(Encoded(text))
  BY <1>1, <1>4
<1> QED
  BY <1>1, <1>5, LenProperties DEF n

(* iconv() makes the text again of a text's bytes.                         *)
LEMMA Decoded ==
  ASSUME NEW text \in Texts, NEW max \in Nat, Len(text) <= max
  PROVE  LET c == Conversion("utf8", Encoded(text), max)
         IN  c.chars = text /\ ~c.half /\ c.why = "done"
<1> DEFINE s == [i \in DOMAIN text |->
                   IF text[i] = "u" THEN <<"l", "t">> ELSE <<text[i]>>]
           n == Len(text)
           at(i) == SubSeq(text, 1, i)
           Gives(g, i) == LET c == Conversion("utf8", g, max)
                        IN  c.chars = at(i) /\ ~c.half /\ c.why = "done"
           R == [i \in 0 .. n |-> {g \in Seq(Bytes) : Gives(g, i)}]
<1>1. /\ text \in Seq(Chars) /\ n \in Nat
      /\ \A i \in 1 .. n : text[i] \in Chars \ {"l", "t"}
      /\ s \in Seq(Seq(Bytes)) /\ Len(s) = n
      /\ \A i \in 1 .. n :
           s[i] = IF text[i] = "u" THEN <<"l", "t">> ELSE <<text[i]>>
      /\ Encoded(text) = FlattenSeq(s)
  BY EncodedPieces
<1>2. /\ at(0) = <<>> /\ at(n) = text
      /\ \A i \in 1 .. n : at(i) = Append(at(i - 1), text[i])
      /\ \A i \in 0 .. n : at(i) \in Seq(Chars) /\ Len(at(i)) = i
  BY <1>1, Beginnings
<1>3. n <= max
  OBVIOUS
<1> HIDE DEF s, n, at
<1>4. <<>> \in R[0]
  <2>1. <<>> \in Seq(Bytes) /\ 0 \in 0 .. n
    BY <1>1, EmptySeq
  <2>2. Conversion("utf8", <<>>, max) = Unconverted
    BY ConversionOfNone
  <2> QED
    BY <1>2, <2>1, <2>2 DEF Unconverted
<1>5. ASSUME NEW i \in 1 .. n, NEW g \in Seq(Bytes), g \in R[i - 1]
      PROVE  g \o s[i] \in R[i]
  <2> DEFINE b == text[i]
             w == at(i - 1)
             c == Conversion("utf8", g, max)
             d == Conversion("utf8", g \o s[i], max)
  <2>1. i - 1 \in 0 .. n /\ i \in 0 .. n /\ b \in Chars \ {"l", "t"}
    BY <1>1
  <2>2. c.chars = w /\ ~c.half /\ c.why = "done"
    BY <1>5, <2>1
  <2>3. s[i] = IF b = "u" THEN <<"l", "t">> ELSE <<b>>
    BY <1>1
  <2>4. w \in Seq(Chars) /\ Len(w) # max /\ at(i) = Append(w, b)
    <3>1. Len(w) = i - 1 /\ w \in Seq(Chars) /\ at(i) = Append(w, b)
      BY <1>2, <2>1
    <3> QED
      BY <1>1, <1>3, <3>1
  <2>5. g \o s[i] \in Seq(Bytes)
    <3>1. s[i] \in Seq(Bytes)
      BY <1>1, ElementOfSeq
    <3> QED
      BY <3>1, ConcatProperties
  <2>6. "l" \in Bytes /\ "t" \in Bytes /\ (b # "u" => b \in Bytes)
    BY <2>1 DEF Bytes, Chars
  <2> HIDE DEF b, w, c
  <2>7. c \in Conversions
    BY <2>6, ConversionNext DEF c
  <2>8. d.chars = Append(w, b) /\ ~d.half /\ d.why = "done"
    <3>1. CASE b = "u"
      <4> DEFINE h == ConvertedByte("utf8", max, c, "l")
      <4>1. d = ConvertedByte("utf8", max, h, "t")
        <5>1. s[i] = <<"l", "t">>
          BY <2>3, <3>1
        <5>2. Conversion("utf8", g \o <<"l", "t">>, max) =
                ConvertedByte("utf8", max, h, "t")
          BY <2>6, ConversionTwo DEF c
        <5> QED
          BY <5>1, <5>2
      <4>2. h = [c EXCEPT !.half = TRUE]
        BY <2>2, <2>4 DEF ConvertedByte
      <4>3. h.chars = w /\ h.half /\ h.why = "done" /\ h \in Conversions
        BY <2>2, <2>7, <4>2 DEF Conversions
      <4> HIDE DEF h, d
      <4>4. d = [h EXCEPT !.chars = Append(@, "u"), !.used = @ + 2,
                          !.half = FALSE]
        BY <2>4, <4>1, <4>3 DEF ConvertedByte
      <4> QED
        BY <3>1, <4>3, <4>4 DEF Conversions
    <3>2. CASE b # "u"
      <4>1. d = ConvertedByte("utf8", max, c, b)
        <5>1. s[i] = <<b>> /\ b \in Bytes
          BY <2>3, <2>6, <3>2
        <5>2. Conversion("utf8", g \o <<b>>, max) =
                ConvertedByte("utf8", max, c, b)
          BY <5>1, ConversionNext DEF c
        <5> QED
          BY <5>1, <5>2
      <4> HIDE DEF d
      <4>2. b # "l" /\ b # "t"
        BY <2>1
      <4>3. d = [c EXCEPT !.chars = Append(@, b), !.used = @ + 1]
        BY <2>2, <2>4, <4>1, <4>2 DEF ConvertedByte
      <4> QED
        BY <2>2, <2>7, <4>3 DEF Conversions
    <3> QED
      BY <3>1, <3>2
  <2>9. Gives(g \o s[i], i)
    BY <2>4, <2>8
  <2> HIDE DEF Gives
  <2> QED
    BY <2>1, <2>5, <2>9
<1>6. FlattenSeq(s) \in R[n] /\ n \in 0 .. n
  <2> HIDE DEF R
  <2>1. \A i \in 1 .. Len(s) : \A g \in Seq(Bytes) :
          g \in R[i - 1] => g \o s[i] \in R[i]
    BY <1>1, <1>5
  <2>2. FlattenSeq(s) \in R[Len(s)]
    BY <1>1, <1>4, <2>1, FlattenKeeps
  <2> QED
    BY <1>1, <2>2
<1>7. Gives(Encoded(text), n)
  BY <1>1, <1>6
<1> QED
  BY <1>2, <1>7

(* A conversion that is stuck stays so.                                    *)
LEMMA StuckStays ==
  ASSUME NEW encoding, NEW max, NEW s \in Seq(Bytes), NEW i \in 0 .. Len(s),
         Conversion(encoding, SubSeq(s, 1, i), max).why # "done"
  PROVE  Conversion(encoding, s, max).why # "done"
<1> DEFINE cv(j) == Conversion(encoding, SubSeq(s, 1, j), max)
           S == {j \in 0 .. Len(s) - i : cv(i + j).why # "done"}
<1>1. /\ Len(s) \in Nat
      /\ cv(Len(s)) = Conversion(encoding, s, max)
      /\ \A j \in 0 .. Len(s) - 1 :
           cv(j + 1) = ConvertedByte(encoding, max, cv(j), s[j + 1])
  BY ConversionSteps
<1>2. cv(i).why # "done"
  OBVIOUS
<1> HIDE DEF cv
<1>3. 0 \in S
  BY <1>1, <1>2
<1>4. ASSUME NEW j \in 0 .. Len(s) - i - 1, j \in S
      PROVE  j + 1 \in S
  <2>1. /\ i + j \in 0 .. Len(s) - 1 /\ i + (j + 1) = i + j + 1
        /\ j + 1 \in 0 .. Len(s) - i
    BY <1>1
  <2>2. cv(i + j + 1) = ConvertedByte(encoding, max, cv(i + j), s[i + j + 1])
    BY <1>1, <2>1
  <2>3. cv(i + j).why # "done"
    BY <1>4
  <2>4. cv(i + j + 1) = cv(i + j)
    BY <2>2, <2>3 DEF ConvertedByte
  <2> QED
    BY <2>1, <2>3, <2>4
<1>5. cv(Len(s)).why # "done"
  <2>1. Len(s) - i \in Nat /\ i + (Len(s) - i) = Len(s)
    BY <1>1
  <2> HIDE DEF S
  <2>2. \A j \in 0 .. Len(s) - i : j \in S
    BY <1>3, <1>4, <2>1, UpTo
  <2>3. Len(s) - i \in S
    BY <2>1, <2>2
  <2> QED
    BY <2>1, <2>3 DEF S
<1> QED
  BY <1>1, <1>5

(* What iconv() stopped at, after n bytes of s.                            *)
StoppedAt(s, c, n) ==
  /\ c.half /\ c.why = "done" => c.used + 1 = n /\ s[n] = "l"
  /\ c.why # "done" =>
       \/ c.used + 1 \in 1 .. n /\ s[c.used + 1] = "t"
       \/ /\ c.used + 2 \in 1 .. n
          /\ s[c.used + 1] = "l" /\ s[c.used + 2] # "t"

(* It stops at the second byte of a character without the first, at a first*)
(* one without the second, or at a first one that is the last byte.        *)
LEMMA ConversionStops ==
  ASSUME NEW max, NEW s \in Seq(Bytes)
  PROVE  StoppedAt(s, Conversion("utf8", s, max), Len(s))
<1> DEFINE cv(i) == Conversion("utf8", SubSeq(s, 1, i), max)
           S == {i \in 0 .. Len(s) : StoppedAt(s, cv(i), i)}
<1>1. /\ Len(s) \in Nat
      /\ cv(0) = Unconverted
      /\ cv(Len(s)) = Conversion("utf8", s, max)
      /\ \A i \in 0 .. Len(s) : cv(i) \in Conversions
      /\ \A i \in 0 .. Len(s) - 1 :
           cv(i + 1) = ConvertedByte("utf8", max, cv(i), s[i + 1])
  BY ConversionSteps
<1>2. \A i \in 0 .. Len(s) : Consumed("utf8", max, cv(i), i)
  BY ConversionConsumes
<1> HIDE DEF cv
<1>3. 0 \in S
  BY <1>1 DEF StoppedAt, Unconverted
<1>4. ASSUME NEW i \in 0 .. Len(s) - 1, i \in S
      PROVE  i + 1 \in S
  <2> DEFINE c == cv(i)
             d == cv(i + 1)
             b == s[i + 1]
  <2>1. /\ i \in Nat /\ i \in 0 .. Len(s) /\ i + 1 \in 0 .. Len(s)
        /\ c \in Conversions /\ Consumed("utf8", max, c, i)
        /\ StoppedAt(s, c, i) /\ d = ConvertedByte("utf8", max, c, b)
    BY <1>1, <1>2, <1>4
  <2>2. c.used \in Nat /\ c.half \in BOOLEAN
    BY <2>1 DEF Conversions
  <2> SUFFICES StoppedAt(s, d, i + 1)
    BY <2>1
  <2> HIDE DEF c, d
  <2>3. CASE c.why # "done" \/ Len(c.chars) = max
    <3>1. d = c
      BY <2>1, <2>3 DEF ConvertedByte
    <3>2. ~(c.half /\ c.why = "done")
      BY <2>1, <2>3 DEF Consumed
    <3>3. \A k : k \in 1 .. i => k \in 1 .. i + 1
      BY <2>1
    <3> QED
      BY <2>1, <3>1, <3>2, <3>3 DEF StoppedAt
  <2>4. CASE c.why = "done" /\ Len(c.chars) # max /\ c.half
    <3>1. c.used + 1 = i /\ s[i] = "l" /\ c.used + 2 = i + 1 /\ i + 1 \in 1 .. i + 1
      BY <2>1, <2>2, <2>4 DEF StoppedAt
    <3>2. CASE b = "t"
      <4>1. d = [c EXCEPT !.chars = Append(@, "u"), !.used = @ + 2,
                          !.half = FALSE]
        BY <2>1, <2>4, <3>2 DEF ConvertedByte
      <4>2. ~d.half /\ d.why = "done"
        BY <2>1, <2>4, <4>1 DEF Conversions
      <4> QED
        BY <4>2 DEF StoppedAt
    <3>3. CASE b # "t"
      <4>1. d = [c EXCEPT !.why = "EILSEQ"]
        BY <2>1, <2>4, <3>3 DEF ConvertedByte
      <4>2. d.used = c.used /\ d.why = "EILSEQ"
        BY <2>1, <4>1 DEF Conversions
      <4> QED
        BY <3>1, <3>3, <4>2 DEF StoppedAt
    <3> QED
      BY <3>2, <3>3
  <2>5. CASE c.why = "done" /\ Len(c.chars) # max /\ ~c.half
    <3>1. c.used = i /\ i + 1 \in 1 .. i + 1
      BY <2>1, <2>5 DEF Consumed
    <3>2. CASE b = "l"
      <4>1. d = [c EXCEPT !.half = TRUE]
        BY <2>1, <2>5, <3>2 DEF ConvertedByte
      <4>2. d.used = c.used /\ d.why = "done"
        BY <2>1, <2>5, <4>1 DEF Conversions
      <4> QED
        BY <3>1, <3>2, <4>2 DEF StoppedAt
    <3>3. CASE b = "t"
      <4>1. d = [c EXCEPT !.why = "EILSEQ"]
        BY <2>1, <2>5, <3>3 DEF ConvertedByte
      <4>2. d.used = c.used /\ ~d.half /\ d.why = "EILSEQ"
        BY <2>1, <2>5, <4>1 DEF Conversions
      <4> QED
        BY <3>1, <3>3, <4>2 DEF StoppedAt
    <3>4. CASE b # "l" /\ b # "t"
      <4>1. d = [c EXCEPT !.chars = Append(@, b), !.used = @ + 1]
        BY <2>1, <2>5, <3>4 DEF ConvertedByte
      <4>2. ~d.half /\ d.why = "done"
        BY <2>1, <2>5, <4>1 DEF Conversions
      <4> QED
        BY <4>2 DEF StoppedAt
    <3> QED
      BY <3>2, <3>3, <3>4
  <2> QED
    BY <2>2, <2>3, <2>4, <2>5
<1>5. Len(s) \in S
  <2> HIDE DEF S
  <2>1. \A i \in 0 .. Len(s) : i \in S
    BY <1>1, <1>3, <1>4, UpTo
  <2> QED
    BY <1>1, <2>1
<1> QED
  BY <1>1, <1>5

(* A piece of bytes that can be converted in one go can be converted, and  *)
(* the last piece ends with a character.                                   *)
LEMMA PiecesAreValid ==
  ASSUME NEW max, NEW s \in Seq(Bytes),
         ~Conversion("utf8", s, Len(s)).half,
         Conversion("utf8", s, Len(s)).why = "done",
         NEW m \in 0 .. Len(s), NEW pos \in 0 .. m, NEW D \in Seq(Chars),
         Conversion("utf8", SubSeq(s, 1, pos), Len(s)) = Between(D, pos)
  PROVE  LET p == Conversion("utf8", SubSeq(s, pos + 1, m), max)
         IN  p.why = "done" /\ (p.half => m # Len(s))
<1> DEFINE t == SubSeq(s, pos + 1, m)
           n == m - pos
           p == Conversion("utf8", t, max)
           at == pos + p.used
           cv(i) == Conversion("utf8", SubSeq(s, 1, i), Len(s))
           E == D \o p.chars
<1>1. /\ Len(s) \in Nat
      /\ cv(Len(s)) = Conversion("utf8", s, Len(s))
      /\ \A j \in 0 .. Len(s) : cv(j) \in Conversions
      /\ \A j \in 0 .. Len(s) - 1 :
           cv(j + 1) = ConvertedByte("utf8", Len(s), cv(j), s[j + 1])
  BY ConversionSteps
<1>2. \A j \in 0 .. Len(s) : Consumed("utf8", Len(s), cv(j), j)
  BY ConversionConsumes
<1>3. m \in Nat /\ pos \in Nat /\ n \in Nat /\ pos + n = m
  BY <1>1
<1>4. /\ t \in Seq(Bytes) /\ Len(t) = n
      /\ \A k \in 1 .. n : t[k] = s[pos + k]
  <2>1. /\ t \in Seq(Bytes) /\ Len(t) = n
        /\ \A k \in 1 .. n : t[k] = s[pos + 1 + k - 1]
    BY <1>1, <1>3, SubSeqProperties
  <2>2. \A k \in 1 .. n : pos + 1 + k - 1 = pos + k
    BY <1>3
  <2> HIDE DEF t, n
  <2> QED
    BY <2>1, <2>2
<1>5. p.used <= n /\ cv(at) = Between(E, at)
  BY PieceConverted
<1> HIDE DEF t, n, cv
<1>6. StoppedAt(t, p, n) /\ p \in Conversions
  <2>1. StoppedAt(t, p, n)
    BY <1>4, ConversionStops
  <2>2. "a" \in Bytes
    BY DEF Bytes, Chars
  <2> QED
    BY <1>4, <2>1, <2>2, ConversionNext
<1> HIDE DEF p
<1>7. p.used \in Nat /\ at \in 0 .. m /\ E \in Seq(Chars)
  <2>1. p.used \in Nat /\ p.chars \in Seq(Chars)
    BY <1>6 DEF Conversions
  <2>2. at \in 0 .. m
    BY <1>3, <1>5, <2>1
  <2> QED
    BY <2>1, <2>2, ConcatProperties
<1>8. ASSUME NEW k \in 1 .. n
      PROVE  t[k] = s[pos + k] /\ pos + k \in 1 .. m
  BY <1>3, <1>4
<1> HIDE DEF at, E
<1>9. Len(E) <= at /\ Len(E) \in Nat
  <2>1. Consumed("utf8", Len(s), Between(E, at), at)
    BY <1>1, <1>2, <1>5, <1>7
  <2> QED
    BY <1>7, <2>1, LenProperties DEF Consumed, Between
<1>10. ASSUME NEW i \in 0 .. Len(s)
       PROVE  cv(i).why = "done"
  BY <1>1, StuckStays DEF cv
<1>11. ASSUME at + 1 \in 1 .. m
       PROVE  /\ s[at + 1] # "t"
              /\ s[at + 1] = "l" =>
                   cv(at + 1) = [Between(E, at) EXCEPT !.half = TRUE]
  <2>1. at \in 0 .. Len(s) - 1 /\ at + 1 \in 0 .. Len(s) /\ Len(E) # Len(s)
    BY <1>1, <1>3, <1>7, <1>9, <1>11
  <2>2. cv(at + 1) = ConvertedByte("utf8", Len(s), Between(E, at), s[at + 1])
    BY <1>1, <1>5, <2>1
  <2>3. cv(at + 1).why = "done"
    BY <1>10, <2>1
  <2>4. s[at + 1] # "t"
    <3> SUFFICES ASSUME s[at + 1] = "t" PROVE FALSE
      OBVIOUS
    <3>1. cv(at + 1) = [Between(E, at) EXCEPT !.why = "EILSEQ"]
      BY <2>1, <2>2 DEF ConvertedByte, Between
    <3> QED
      BY <2>3, <3>1 DEF Between
  <2>5. s[at + 1] = "l" => cv(at + 1) = [Between(E, at) EXCEPT !.half = TRUE]
    BY <2>1, <2>2 DEF ConvertedByte, Between
  <2> QED
    BY <2>4, <2>5
<1>12. p.why = "done"
  <2> SUFFICES ASSUME p.why # "done" PROVE FALSE
    BY <1>6
  <2>1. CASE p.used + 1 \in 1 .. n /\ t[p.used + 1] = "t"
    <3>1. pos + (p.used + 1) = at + 1
      BY <1>3, <1>7 DEF at
    <3>2. s[at + 1] = "t" /\ at + 1 \in 1 .. m
      BY <1>8, <2>1, <3>1
    <3> QED
      BY <1>11, <3>2
  <2>2. CASE /\ p.used + 2 \in 1 .. n
             /\ t[p.used + 1] = "l" /\ t[p.used + 2] # "t"
    <3>1. pos + (p.used + 1) = at + 1 /\ pos + (p.used + 2) = at + 2
          /\ p.used + 1 \in 1 .. n /\ at + 1 + 1 = at + 2
      <4> DEFINE u == p.used
      <4>1. u \in Nat /\ u + 2 \in 1 .. n /\ pos \in Nat /\ n \in Nat
        BY <1>3, <1>7, <2>2
      <4>2. at = pos + u
        BY DEF at
      <4> HIDE DEF u
      <4>3. pos + (u + 1) = at + 1 /\ pos + (u + 2) = at + 2
            /\ u + 1 \in 1 .. n /\ at + 1 + 1 = at + 2
        BY <4>1, <4>2
      <4> QED
        BY <4>3 DEF u
    <3>2. s[at + 1] = "l" /\ at + 1 \in 1 .. m
      BY <1>8, <2>2, <3>1
    <3>3. s[at + 2] # "t" /\ at + 2 \in 1 .. m
      BY <1>8, <2>2, <3>1
    <3>4. cv(at + 1) = [Between(E, at) EXCEPT !.half = TRUE]
      BY <1>11, <3>2
    <3>5. at + 1 \in 0 .. Len(s) - 1 /\ at + 2 \in 0 .. Len(s)
          /\ Len(E) # Len(s)
      BY <1>1, <1>3, <1>7, <1>9, <3>3
    <3>6. cv(at + 2) = ConvertedByte("utf8", Len(s),
                         [Between(E, at) EXCEPT !.half = TRUE], s[at + 2])
      BY <1>1, <3>1, <3>4, <3>5
    <3>7. cv(at + 2) = [Between(E, at) EXCEPT !.half = TRUE, !.why = "EILSEQ"]
      BY <3>3, <3>5, <3>6 DEF ConvertedByte, Between
    <3>8. cv(at + 2).why = "EILSEQ"
      BY <3>7 DEF Between
    <3> QED
      BY <1>10, <3>5, <3>8
  <2> QED
    BY <1>6, <2>1, <2>2 DEF StoppedAt
<1>13. ASSUME p.half, m = Len(s)
       PROVE  FALSE
  <2>1. p.used + 1 = n /\ t[n] = "l"
    BY <1>6, <1>12, <1>13 DEF StoppedAt
  <2>2. n \in 1 .. n /\ pos + n = at + 1 /\ at + 1 = Len(s)
    <3>1. p.used \in Nat /\ n = p.used + 1 /\ pos + n = m /\ m = Len(s)
          /\ pos \in Nat
      BY <1>3, <1>7, <1>13, <2>1
    <3> DEFINE u == p.used
    <3>2. u \in Nat /\ n = u + 1 /\ at = pos + u
      BY <3>1 DEF at
    <3> HIDE DEF u, at
    <3> QED
      BY <3>1, <3>2
  <2>3. s[at + 1] = "l" /\ at + 1 \in 1 .. m
    BY <1>8, <2>1, <2>2
  <2>4. cv(Len(s)) = [Between(E, at) EXCEPT !.half = TRUE]
    BY <1>11, <2>2, <2>3
  <2>5. cv(Len(s)).half
    BY <2>4 DEF Between
  <2> QED
    BY <1>1, <2>5
<1> QED
  BY <1>12, <1>13 DEF p, t

(* A file that was exported is of its table, and the encoding that is tried*)
(* first is its own.                                                       *)
FromTable ==
  /\ table # NoTable => table \in Tables /\ file = Exported(table)
  /\ Fresh /\ table # NoTable => parser.encoding = "utf8"

(* What the file of a table is converted to.                               *)
LEMMA TableConverted ==
  ASSUME FromTable, table # NoTable
  PROVE  LET c == Conversion("utf8", file, Len(file))
         IN  /\ table \in Seq(Numbers \X Texts)
             /\ file \in Seq(Bytes)
             /\ c.chars = TextOf(table) /\ ~c.half /\ c.why = "done"
<1>1. /\ table \in Seq(Numbers \X Texts) /\ file = Exported(table)
  BY CsvImportAssumption DEF FromTable
<1>2. /\ TextOf(table) \in Texts /\ file = Encoded(TextOf(table))
      /\ file \in Seq(Bytes)
  BY <1>1, ExportedTyped
<1>3. /\ Len(TextOf(table)) <= Len(file) /\ Len(file) \in Nat
  BY <1>2, FileIsLonger
<1> QED
  BY <1>1, <1>2, <1>3, Decoded

(* No piece of it is invalid.                                              *)
LEMMA TableIsValid ==
  ASSUME ImportInv, OneStream, ParsedSoFar, FromTable, table # NoTable,
         parser.encoding = "utf8", parser.idle, 1 \in Streams
  PROVE  ~Invalid(Piece)
<1> DEFINE m == offset[1]
           n == Len(file)
           left == SubSeq(parser.raw, parser.pos + 1, Len(parser.raw))
           c == Conversion(parser.encoding, left, ConvertSize)
<1>1. /\ file \in Seq(Bytes) /\ n \in Nat /\ m \in 0 .. n
      /\ parser \in Parsers /\ parser.pos \in Nat
      /\ parser.pos <= Len(parser.raw)
  <2>1. file \in Seq(Bytes) /\ m \in 0 .. n /\ parser \in Parsers
        /\ parser.pos <= Len(parser.raw)
    BY DEF ImportInv, ImportTypeOK
  <2>2. n \in Nat
    BY <2>1, LenProperties
  <2>3. parser.pos \in Nat
    BY <2>1 DEF Parsers
  <2> QED
    BY <2>1, <2>2, <2>3
<1>2. /\ left = SubSeq(file, parser.pos + 1, m) /\ parser.pos \in 0 .. m
  <2>1. parser.raw = SubSeq(file, 1, m)
    BY DEF OneStream
  <2>2. Len(parser.raw) = m
    BY <1>1, <2>1, Beginnings
  <2>3. parser.pos \in 0 .. m
    BY <1>1, <2>2
  <2>4. left = SubSeq(SubSeq(file, 1, m), parser.pos + 1, m)
    BY <2>1, <2>2
  <2> HIDE DEF left, m
  <2>5. SubSeq(SubSeq(file, 1, m), parser.pos + 1, m) =
          SubSeq(file, parser.pos + 1, m)
    BY <1>1, <2>3, RestOfPart
  <2> QED
    BY <2>3, <2>4, <2>5
<1>3. PICK D \in Seq(Chars) :
        Conversion("utf8", SubSeq(file, 1, parser.pos), n) =
          Between(D, parser.pos)
  BY DEF ParsedSoFar
<1>4. ~Conversion("utf8", file, n).half
      /\ Conversion("utf8", file, n).why = "done"
  BY TableConverted
<1>5. /\ c \in Conversions
      /\ Piece = IF c.why = "done" /\ c.half
                 THEN [c EXCEPT !.why = "EINVAL"] ELSE c
  BY PieceTyped
<1>6. c.why = "done" /\ (c.half => m # n)
  <2> DEFINE pos == parser.pos
  <2>1. c = Conversion("utf8", SubSeq(file, pos + 1, m), ConvertSize)
    BY <1>2
  <2>2. /\ Conversion("utf8", SubSeq(file, 1, pos), n) = Between(D, pos)
        /\ pos \in 0 .. m
    BY <1>2, <1>3
  <2> HIDE DEF m, left, c, pos
  <2> QED
    BY <1>1, <1>4, <2>1, <2>2, PiecesAreValid
<1>7. parser.stream = 0 => m = n
  BY ImportInvTypes DEF OneStream
<1> HIDE DEF c, m, n
<1>8. CASE c.half
  <2>1. Piece.why = "EINVAL" /\ parser.stream # 0
    BY <1>5, <1>6, <1>7, <1>8 DEF Conversions
  <2> QED
    BY <2>1 DEF Invalid
<1>9. CASE ~c.half
  <2>1. Piece.why = "done"
    BY <1>5, <1>6, <1>9
  <2> QED
    BY <2>1 DEF Invalid
<1> QED
  BY <1>8, <1>9

(* The table and the file stay, and so does the encoding.                  *)
LEMMA FromTableStep ==
  ASSUME ImportInv, Fresh => SoFar, FromTable, [ImportNext]_importVars
  PROVE  FromTable'
<1>1. table' = table /\ file' = file
  BY DEF ImportNext, Opening, Opened, NotOpened, Reading, BufferRead, EndRead,
         ReadFails, Parsing, ParsePiece, EncodingError, ChangeEncoding,
         ChooseField, PressImport, FetchRowForEver, ImportRow, CancelImport,
         CancelWithinImport, CloseDialog, LateAnswer, importVars, source
<1>2. ASSUME Fresh', table # NoTable
      PROVE  parser'.encoding = "utf8"
  <2>1. Fresh /\ SoFar /\ parser.encoding = "utf8"
    BY <1>2, FreshBefore DEF FromTable
  <2>2. ~EncodingError
    <3> SUFFICES ASSUME EncodingError PROVE FALSE
      OBVIOUS
    <3>1. parser.idle /\ Invalid(Piece)
      BY DEF EncodingError
    <3>2. OneStream /\ ParsedSoFar
      BY <2>1, <3>1 DEF SoFar, ScannedSoFar
    <3>3. 1 \in Streams
      BY CsvImportAssumption DEF Streams
    <3> QED
      BY <1>2, <2>1, <3>1, <3>2, <3>3, TableIsValid
  <2> QED
    BY <1>2, <2>1, <2>2, EncodingKept
<1> QED
  BY <1>1, <1>2 DEF FromTable

(* It holds in every reachable state.                                      *)
LEMMA FromTableAlways ==
  ImportSpec => [](ImportInv /\ (Fresh => SoFar) /\ FromTable)
<1>1. ImportInit => ImportInv /\ (Fresh => SoFar) /\ FromTable
  <2> SUFFICES ASSUME ImportInit PROVE FromTable
    BY ImportInitTyped, SoFarInit
  <2>1. table # NoTable => table \in Tables /\ file = Exported(table)
    BY DEF ImportInit
  <2>2. parser.encoding = "utf8"
    <3>1. parser = [NoParser EXCEPT !.state = "parsing",
                                    !.opening = NoParser.opening + 1]
      BY DEF ImportInit, Started
    <3>2. NoParser.encoding = "utf8"
      BY EncodingsAre DEF NoParser
    <3> QED
      BY <3>1, <3>2 DEF NoParser
  <2> QED
    BY <2>1, <2>2 DEF FromTable
<1>2. ImportInv /\ (Fresh => SoFar) /\ FromTable /\ [ImportNext]_importVars
        => (ImportInv /\ (Fresh => SoFar) /\ FromTable)'
  BY ImportStepTyped, SoFarStep, FromTableStep
<1> QED
  BY <1>1, <1>2, PTL DEF ImportSpec

(* What comes back of a row of a table.                                    *)
LEMMA PlainRowComesBack ==
  ASSUME NEW row \in Numbers \X Texts, Plain(row)
  PROVE  /\ FieldsOf(LineOf(row))[1] = row[1]
         /\ FromFileFormat(FieldsOf(LineOf(row))[2]) = row[2]
<1>1. row[1] # <<>> /\ row[2] \in Texts
      /\ \A i \in 1 .. Len(row[2]) - 1 :
           row[2][i] # "q" \/ row[2][i + 1] # "q"
  BY DEF Plain
<1>2. FieldsOf(LineOf(row))[1] = row[1] /\ FieldsOf(LineOf(row))[2] = row[2]
  BY <1>1, RowRead
<1>3. FromFileFormat(row[2]) = row[2]
  <2> DEFINE text == row[2]
  <2>1. text \in Seq(Chars)
    BY <1>1, TwicePieces
  <2>2. \A i \in 1 .. Len(text) - 1 : text[i] # "q" \/ text[i + 1] # "q"
    BY <1>1
  <2> HIDE DEF text
  <2>3. FromFileFormat(text) = text
    BY <2>1, <2>2, PlainTextStays
  <2> QED
    BY <2>3 DEF text
<1> QED
  BY <1>2, <1>3

(* When a table is imported from its export, the first row decides whether *)
(* the text's column can be given a field, and every record has of the row *)
(* what the columns held that were given one: the text its number was      *)
(* written as, and the text, but for a text with two quotes next to each   *)
(* other and a row without a number (export_data_to_stream(),              *)
(* on_idle_parse(), on_idle_import(), from_file_format()): wherever the    *)
(* reads and the pieces end, and whether the import is cancelled in        *)
(* between or not.                                                         *)
THEOREM ExportsComeBack == ImportSpec => []ExportedComesBack
<1>1. /\ ImportInv /\ (Fresh => SoFar) /\ FromTable
      /\ (Fresh => FirstRowDecides)
      => ExportedComesBack
  <2> SUFFICES ASSUME ImportInv, SoFar, FromTable, Fresh, FirstRowDecides,
                      progress = "complete", table # NoTable
               PROVE  /\ Len(imported) = Len(table)
                      /\ table # <<>> =>
                           columns = IF table[1][1] = <<>> THEN 1 ELSE 2
                      /\ \A i \in DOMAIN table :
                           Plain(table[i]) =>
                             \A k \in imported[i].fields :
                               /\ k = 1 => imported[i].row[1] = table[i][1]
                               /\ k = 2 => FromFileFormat(imported[i].row[2])
                                             = table[i][2]
    BY DEF ExportedComesBack
  <2> DEFINE n == Len(table)
             c == Conversion("utf8", file, Len(file))
  <2>1. /\ table \in Seq(Numbers \X Texts) /\ file \in Seq(Bytes)
        /\ c.chars = TextOf(table) /\ ~c.half
    BY TableConverted
  <2>2. n \in Nat /\ DOMAIN table = 1 .. n
        /\ \A i \in 1 .. n : table[i] \in Numbers \X Texts
    BY <2>1, ElementOfSeq, LenProperties
  <2>3. Taken = AllRows /\ parser.rows = AllRows
    <3>1. parser.rows \in Seq(Seq(Seq(Chars)))
      BY DEF ImportInv, ImportTypeOK, Parsers
    <3> QED
      BY <3>1, Beginnings DEF SoFar, ImportedSoFar, ScannedSoFar
  <2>4. AllRows = LinesOf(table)
    <3>1. Converted("utf8", file, Len(file)) = c
      <4>1. Converted("utf8", file, Len(file)) =
              IF c.why = "done" /\ c.half THEN [c EXCEPT !.why = "EINVAL"]
              ELSE c
        BY <2>1, ConvertedIsConversion
      <4> QED
        BY <2>1, <4>1
    <3>2. parser.encoding = "utf8"
      BY DEF FromTable
    <3> HIDE DEF c
    <3> QED
      BY <2>1, <3>1, <3>2, RowsOfTable DEF AllRows
  <2>5. /\ Taken \in Seq(Seq(Seq(Chars))) /\ Len(Taken) = Len(imported)
        /\ \A i \in 1 .. Len(imported) : Taken[i] = imported[i].row
    BY RowsOfRecords DEF Taken, ImportInv, ImportTypeOK
  <2>6. Len(imported) = n
    <3>1. DOMAIN Taken = 1 .. n
      BY <2>3, <2>4 DEF LinesOf
    <3> QED
      BY <2>2, <2>5, <3>1, LenProperties
  <2>7. \A i \in 1 .. n : imported[i].row = FieldsOf(LineOf(table[i]))
    BY <2>3, <2>4, <2>5, <2>6 DEF LinesOf
  <2>8. ASSUME table # <<>>
        PROVE  columns = IF table[1][1] = <<>> THEN 1 ELSE 2
    <3>1. n # 0 /\ 1 \in 1 .. n
      BY <2>1, <2>2, <2>8, EmptySeq
    <3>2. AllRows # <<>>
      <4>1. Len(AllRows) = n
        BY <2>3, <2>5, <2>6
      <4> QED
        BY <3>1, <4>1, EmptySeq
    <3>3. columns = Len(AllRows[1])
      BY <2>3, <3>2 DEF FirstRowDecides
    <3>4. AllRows[1] = FieldsOf(LineOf(table[1]))
      BY <2>4, <3>1 DEF LinesOf
    <3> QED
      BY <2>2, <3>1, <3>3, <3>4, RowRead
  <2>9. ASSUME NEW i \in 1 .. n, Plain(table[i])
        PROVE  /\ imported[i].row[1] = table[i][1]
               /\ FromFileFormat(imported[i].row[2]) = table[i][2]
    BY <2>2, <2>7, <2>9, PlainRowComesBack
  <2> QED
    BY <2>2, <2>6, <2>8, <2>9
<1> QED
  BY <1>1, FromTableAlways, FirstRowAlways, PTL

=============================================================================

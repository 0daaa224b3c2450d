------------------------- MODULE ConfigCacheProofs -------------------------
(***************************************************************************)
(* ConfigCache for every number of callers, every ttl and max-age and      *)
(* every width of durations.  An entry is used only while its age and what *)
(* is left of it stay below ttl and max-age together; that the product     *)
(* with a second may wrap does no harm, because a wrapped duration is      *)
(* never longer than the true one.                                         *)
(***************************************************************************)
EXTENDS ConfigCache, TLAPS

\* A duration that is not negative never wraps to a longer one.
LEMMA WrapShortens ==
    ASSUME NEW x \in Nat
    PROVE  Wrap(x) \in -Half..Half - 1 /\ Wrap(x) <= x
<1>1. (x + Half) % (2 * Half) \in 0..(2 * Half - 1)
  BY CacheAssumption
<1>2. (x + Half) % (2 * Half) <= x + Half
  BY CacheAssumption
<1> QED
  BY <1>1, <1>2, CacheAssumption DEF Wrap

-----------------------------------------------------------------------------
\* What is left of an entry and its age stay within what its response allows.
Sound(e) ==
    e # None =>
        /\ ~e.noStore
        /\ e.left > 0 => e.age + e.left <= Allowed(e.maxAge)

\* In the map, and in the hands of lookups.
EntriesSound ==
    /\ Sound(entry)
    /\ \A c \in Callers : Sound(held[c])

\* Documents in sight are not newer than the Transmitter's, and a call has,
\* or will get, one at least as new as the cache had when it began.
Seen ==
    /\ entry # None => entry.version <= version
    /\ \A c \in Callers :
        /\ floor[c] <= version
        /\ (pc[c] = "loaded" /\ held[c] # None) => floor[c] = held[c].version
        /\ pc[c] = "received" =>
            /\ fetched[c] \in Responses
            /\ floor[c] <= fetched[c].version
            /\ fetched[c].version <= version

\* The inductive invariant.
IInv ==
    /\ TypeOK
    /\ EntriesSound
    /\ Seen

\* A new entry may be used no longer than its response and the ttl allow.
LEMMA NewEntrySound ==
    ASSUME TypeOK, NEW response \in Responses, Storable(response)
    PROVE  /\ NewEntry(response) \in Entries
           /\ NewEntry(response).version = response.version
           /\ Sound(NewEntry(response))
<1> DEFINE m == response.maxAge
<1>1. m \in -1..Half - 1 /\ m # 0 /\ ~response.noStore
  BY CacheAssumption DEF Responses, Storable
<1>2. m > 0 => m * Second \in Nat
  BY <1>1, CacheAssumption
<1>3. m > 0 => /\ ResponseTTL(m) \in -Half..Half - 1
               /\ ResponseTTL(m) <= m * Second
  BY <1>2, WrapShortens DEF ResponseTTL
<1>4. ttl \in -Half..Half - 1 /\ Half \in Nat
  BY CacheAssumption DEF TypeOK
<1>5. /\ Freshness(response) \in -Half..Half - 1
      /\ Freshness(response) <= Allowed(m)
  <2>1. CASE m > 0
    BY <1>2, <1>3, <1>4, <2>1 DEF Freshness, Allowed
  <2>2. CASE m = -1
    BY <1>4, <2>2 DEF Freshness, Allowed
  <2> QED
    BY <1>1, <1>4, <2>1, <2>2
<1>6. NewEntry(response) \in Entries
  BY <1>4, <1>5 DEF NewEntry, Entries, Responses
<1>7. Sound(NewEntry(response))
  BY <1>1, <1>5 DEF NewEntry, Sound
<1> QED
  BY <1>6, <1>7 DEF NewEntry

\* Durations are integers.
LEMMA AllowedType ==
    ASSUME TypeOK, NEW maxAge \in MaxAges
    PROVE  maxAge \in Int /\ Allowed(maxAge) \in Int
<1>1. maxAge \in Int /\ Second \in Int /\ ttl \in Int
  BY CacheAssumption DEF TypeOK
<1>2. maxAge * Second \in Int
  BY <1>1
<1> QED
  BY <1>1, <1>2 DEF Allowed

\* Time takes from what is left at least as fast as it adds to the age.
LEMMA AgedSound ==
    ASSUME NEW e \in Entries \cup {None}, Sound(e), TypeOK
    PROVE  /\ Aged(e) \in Entries \cup {None}
           /\ Sound(Aged(e))
           /\ e = None => Aged(e) = None
           /\ e # None => Aged(e).version = e.version
<1>1. CASE e = None
  BY <1>1 DEF Aged
<1>2. CASE e # None
  <2> DEFINE l == IF e.left > 0 THEN e.left - 1 ELSE e.left
             a == IF e.age < Half THEN e.age + 1 ELSE e.age
  <2>1. e \in Entries
    BY <1>2
  <2>2. Aged(e) = [e EXCEPT !.left = l, !.age = a]
    BY <1>2 DEF Aged
  <2>3. /\ e.left \in -Half..Half - 1 /\ e.age \in 0..Half
        /\ e.maxAge \in MaxAges /\ Half \in Nat
    BY <2>1, CacheAssumption DEF Entries
  <2>4. l \in -Half..Half - 1 /\ a \in 0..Half
    BY <2>3
  <2>5. Aged(e) \in Entries
    BY <2>1, <2>2, <2>4 DEF Entries
  <2>6. /\ Aged(e).version = e.version /\ Aged(e).maxAge = e.maxAge
        /\ Aged(e).noStore = e.noStore
        /\ Aged(e).left = l /\ Aged(e).age = a
    BY <2>1, <2>2 DEF Entries
  <2>7. Allowed(e.maxAge) \in Int
    BY <2>3, AllowedType
  <2>8. l > 0 => a + l <= Allowed(e.maxAge)
    BY <1>2, <2>3, <2>7 DEF Sound
  <2> QED
    BY <1>2, <2>5, <2>6, <2>8 DEF Sound
<1> QED
  BY <1>1, <1>2

-----------------------------------------------------------------------------
\* The cache starts empty.
LEMMA InitIInv == Init => IInv
<1> SUFFICES ASSUME Init PROVE IInv
  OBVIOUS
<1> USE CacheAssumption DEF Init
<1>1. TypeOK
  BY DEF TypeOK, Versions
<1>2. EntriesSound
  BY DEF EntriesSound, Sound
<1>3. Seen
  BY DEF Seen
<1> QED
  BY <1>1, <1>2, <1>3 DEF IInv

\* The steps of a call that leave the table alone.
LEMMA QuietIInv ==
    ASSUME IInv, NEW c \in Callers,
           Bypass(c) \/ Load(c) \/ Hit(c) \/ Miss(c) \/ FetchFails(c)
    PROVE  IInv'
<1> USE CacheAssumption
        DEF Bypass, Load, Hit, Miss, FetchFails, IInv, TypeOK, Versions
<1>1. TypeOK'
  <2>1. entry # None => entry.version \in 0..MaxVersion
    BY DEF Entries
  <2>2. held[c] # None => held[c].version \in 0..MaxVersion
    BY DEF Entries
  <2>3. 0 \in 0..MaxVersion
    OBVIOUS
  <2>4. CASE Bypass(c) \/ Miss(c) \/ FetchFails(c)
    BY <2>3, <2>4
  <2>5. CASE Load(c)
    BY <2>1, <2>3, <2>5
  <2>6. CASE Hit(c)
    BY <2>2, <2>3, <2>6 DEF Fresh
  <2> QED
    BY <2>4, <2>5, <2>6
<1>2. EntriesSound'
  <2>1. \A d \in Callers : Sound(held'[d])
    <3>1. Sound(None)
      BY DEF Sound
    <3>2. \A d \in Callers : held'[d] \in {held[d], entry, None}
      OBVIOUS
    <3> QED
      BY <3>1, <3>2 DEF EntriesSound
  <2>2. entry' = entry /\ ttl' = ttl
    OBVIOUS
  <2> QED
    BY <2>1, <2>2 DEF EntriesSound, Sound, Allowed
<1>3. Seen'
  BY DEF Seen, Entries
<1> QED
  BY <1>1, <1>2, <1>3

\* store puts a response into the map with what is left of it.
LEMMA ReturnIInv ==
    ASSUME IInv, NEW c \in Callers, Return(c)
    PROVE  IInv'
<1> USE CacheAssumption DEF Return, IInv
<1>1. fetched[c] \in Responses /\ fetched[c].version <= version
  BY DEF Seen
<1>2. /\ entry' \in Entries \cup {None}
      /\ Sound(entry')
      /\ entry' # None => entry'.version <= version
  <2>1. CASE ttl > 0 /\ Storable(fetched[c])
    BY <1>1, <2>1, NewEntrySound
  <2>2. CASE ~(ttl > 0 /\ Storable(fetched[c]))
    BY <2>2 DEF TypeOK, EntriesSound, Seen
  <2> QED
    BY <2>1, <2>2
<1>3. fetched[c].version \in 0..MaxVersion
  BY <1>1 DEF Responses, Versions
<1>4. TypeOK'
  BY <1>2, <1>3 DEF TypeOK
<1>5. EntriesSound'
  BY <1>2 DEF EntriesSound, Sound, Allowed
<1>6. Seen'
  BY <1>2 DEF Seen, TypeOK, Versions
<1> QED
  BY <1>4, <1>5, <1>6

\* A response has the document of its moment.
LEMMA RespondIInv ==
    ASSUME IInv, NEW c \in Callers, TransmitterStep(c)
    PROVE  IInv'
<1> PICK maxAge \in MaxAges, noStore \in BOOLEAN : Respond(c, maxAge, noStore)
  BY DEF TransmitterStep
<1> USE CacheAssumption DEF Respond, IInv
<1> DEFINE r == [version |-> version, maxAge |-> maxAge, noStore |-> noStore]
<1>1. r \in Responses /\ r.version = version
  BY DEF Responses, TypeOK
<1>2. \A d \in Callers : fetched'[d] = IF d = c THEN r ELSE fetched[d]
  BY DEF TypeOK
<1> HIDE DEF r
<1>3. TypeOK'
  BY <1>1, <1>2 DEF TypeOK
<1>4. EntriesSound'
  BY DEF EntriesSound, Sound, Allowed
<1>5. Seen'
  BY <1>1, <1>2 DEF Seen, TypeOK, Versions
<1> QED
  BY <1>3, <1>4, <1>5

\* A newer document makes none in sight newer than the latest.
LEMMA PublishIInv ==
    ASSUME IInv, Publish
    PROVE  IInv'
<1> USE CacheAssumption DEF Publish, IInv
<1>1. TypeOK'
  BY DEF TypeOK, Versions
<1>2. EntriesSound'
  BY DEF EntriesSound, Sound, Allowed
<1>3. Seen'
  BY DEF Seen, TypeOK, Versions, Entries, Responses
<1> QED
  BY <1>1, <1>2, <1>3

\* Time takes from what is left what it adds to the age.
LEMMA TickIInv ==
    ASSUME IInv, Tick
    PROVE  IInv'
<1> USE DEF Tick, IInv
<1>1. /\ entry' \in Entries \cup {None}
      /\ Sound(entry')
      /\ entry = None => entry' = None
      /\ entry # None => entry'.version = entry.version
  BY AgedSound DEF TypeOK, EntriesSound
<1>2. \A c \in Callers :
      /\ held'[c] \in Entries \cup {None}
      /\ Sound(held'[c])
      /\ held[c] = None => held'[c] = None
      /\ held[c] # None => held'[c].version = held[c].version
  BY AgedSound DEF TypeOK, EntriesSound
<1>3. TypeOK'
  BY <1>1, <1>2 DEF TypeOK
<1>4. EntriesSound'
  BY <1>1, <1>2 DEF EntriesSound, Sound, Allowed
<1>5. Seen'
  BY <1>1, <1>2 DEF Seen
<1> QED
  BY <1>3, <1>4, <1>5

\* Every step of callers, Transmitter and time keeps the invariant.
LEMMA StepIInv == IInv /\ [Next]_vars => IInv'
<1> SUFFICES ASSUME IInv, [Next]_vars PROVE IInv'
  OBVIOUS
<1>1. ASSUME NEW c \in Callers, CallStep(c) PROVE IInv'
  BY <1>1, QuietIInv, ReturnIInv DEF CallStep
<1>2. ASSUME NEW c \in Callers, TransmitterStep(c) PROVE IInv'
  BY <1>2, RespondIInv
<1>3. CASE Publish
  BY <1>3, PublishIInv
<1>4. CASE Tick
  BY <1>4, TickIInv
<1>5. CASE UNCHANGED vars
  BY <1>5 DEF vars, IInv, TypeOK, EntriesSound, Sound, Allowed, Seen
<1> QED
  BY <1>1, <1>2, <1>3, <1>4, <1>5 DEF Next

\* The invariant holds in every behaviour of the cache.
LEMMA Inductive == Spec => []IInv
  BY InitIInv, StepIInv, PTL DEF Spec

-----------------------------------------------------------------------------
\* Every variable keeps its type; no duration leaves its width.
THEOREM TypeCorrect == Spec => []TypeOK
<1>1. IInv => TypeOK
  BY DEF IInv
<1> QED
  BY <1>1, Inductive, PTL

\* A hit is younger than the ttl and than the max-age of its response.
THEOREM HitsAreAlwaysFresh == Spec => []HitsAreFresh
<1>1. ASSUME IInv PROVE HitsAreFresh
  <2> SUFFICES ASSUME NEW c \in Callers, Fresh(held[c])
               PROVE  ~held[c].noStore /\ held[c].age < Allowed(held[c].maxAge)
    BY DEF HitsAreFresh
  <2>1. held[c] \in Entries /\ held[c].left > 0 /\ Sound(held[c])
    BY <1>1 DEF IInv, TypeOK, EntriesSound, Fresh
  <2>2. /\ held[c].age \in Nat /\ held[c].left \in Int
        /\ held[c].maxAge \in MaxAges
    BY <2>1, CacheAssumption DEF Entries
  <2>3. Allowed(held[c].maxAge) \in Int
    BY <1>1, <2>2, AllowedType DEF IInv
  <2> QED
    BY <2>1, <2>2, <2>3 DEF Sound, Fresh
<1> QED
  BY <1>1, Inductive, PTL

\* No call returns an older document than the cache held when it began.
THEOREM NeverBehind == Spec => NeverBehindTheCache
<1>1. ASSUME IInv, [Next]_vars
      PROVE  [\A c \in Callers :
                (pc[c] \in {"loaded", "received"} /\ pc'[c] = "idle") =>
                    got'[c] >= floor[c]]_vars
  <2> SUFFICES ASSUME NEW c \in Callers, pc[c] \in {"loaded", "received"},
                      pc'[c] = "idle"
               PROVE  got'[c] >= floor[c]
    OBVIOUS
  <2>1. Hit(c) \/ Return(c)
    BY <1>1
       DEF Next, CallStep, TransmitterStep, Respond, Bypass, Load, Hit, Miss,
           FetchFails, Return, Publish, Tick, vars, IInv, TypeOK
  <2>2. CASE Hit(c)
    BY <1>1, <2>2 DEF Hit, Fresh, IInv, Seen, TypeOK, Entries, Versions
  <2>3. CASE Return(c)
    BY <1>1, <2>3 DEF Return, IInv, Seen, TypeOK, Responses, Versions
  <2> QED
    BY <2>1, <2>2, <2>3
<1> QED
  BY <1>1, Inductive, PTL DEF Spec, NeverBehindTheCache
=============================================================================

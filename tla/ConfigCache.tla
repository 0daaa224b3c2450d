---------------------------- MODULE ConfigCache ----------------------------
(***************************************************************************)
(* client.ConfigCache: calls of FetchTransmitterConfig that share the      *)
(* entry of one base URL.  Entries of different base URLs never meet.      *)
(* Time is kept relative: an entry knows how much of its freshness is      *)
(* left, and Tick takes from all of them.  Durations are integers of a     *)
(* fixed width that wrap around, as time.Duration does.                    *)
(***************************************************************************)
EXTENDS Integers

CONSTANTS
    Callers,     \* goroutines, each with one call at a time
    TTLs,        \* the ttl a cache may be made with
    MaxAges,     \* values of max-age in seconds, -1 for none
    Second,      \* time.Second
    Half,        \* durations are -Half .. Half - 1
    MaxVersion,  \* bound: versions of the document ever published
    None         \* no entry

ASSUME CacheAssumption ==
    /\ Half \in Nat \ {0}
    /\ Second \in 1..Half - 1
    /\ TTLs \subseteq -Half..Half - 1
    /\ MaxAges \subseteq -1..Half - 1
    /\ MaxVersion \in Nat \ {0}

VARIABLES
    ttl,      \* c.ttl
    entry,    \* the entry of the base URL
    version,  \* the document the Transmitter serves now
    pc,       \* where each call is
    held,     \* lookup: the entry it loaded
    fetched,  \* the response a call has received and not yet stored
    floor,    \* history: the version in the cache when a call began
    got       \* history: the version the latest call returned

vars == <<ttl, entry, version, pc, held, fetched, floor, got>>

Versions == 1..MaxVersion

Responses == [version : Versions, maxAge : MaxAges, noStore : BOOLEAN]

\* left is expiresAt less the clock; age, history, the time since the store.
Entries == [version : Versions, maxAge : MaxAges, noStore : BOOLEAN,
            left : -Half..Half - 1, age : 0..Half]

TypeOK ==
    /\ ttl \in TTLs
    /\ entry \in Entries \cup {None}
    /\ version \in Versions
    /\ pc \in [Callers -> {"idle", "loaded", "fetching", "received"}]
    /\ held \in [Callers -> Entries \cup {None}]
    /\ fetched \in [Callers -> Responses \cup {None}]
    /\ floor \in [Callers -> 0..MaxVersion]
    /\ got \in [Callers -> 0..MaxVersion]

Init ==
    /\ ttl \in TTLs
    /\ entry = None
    /\ version = 1
    /\ pc = [c \in Callers |-> "idle"]
    /\ held = [c \in Callers |-> None]
    /\ fetched = [c \in Callers |-> None]
    /\ floor = [c \in Callers |-> 0]
    /\ got = [c \in Callers |-> 0]

-----------------------------------------------------------------------------
(* Durations.                                                              *)

\* A 2's complement result of an operation on durations.
Wrap(x) == ((x + Half) % (2 * Half)) - Half

ResponseTTL(maxAge) == Wrap(maxAge * Second)

\* Mutant: a response's max-age is believed though it exceeds the ttl.
FreshnessOfResponse(response) ==
    IF response.maxAge > 0 THEN ResponseTTL(response.maxAge) ELSE ttl

\* store: the smaller of the cache's ttl and the response's.
Freshness(response) ==
    IF response.maxAge > 0 /\ ResponseTTL(response.maxAge) < ttl
    THEN ResponseTTL(response.maxAge)
    ELSE ttl

Storable(response) == ~response.noStore /\ response.maxAge # 0

NewEntry(response) ==
    [version |-> response.version, maxAge |-> response.maxAge,
     noStore |-> response.noStore, left |-> Freshness(response), age |-> 0]

\* An entry after a unit of time; age is followed as long as it can matter.
Aged(e) ==
    IF e = None THEN None
    ELSE [e EXCEPT !.left = IF @ > 0 THEN @ - 1 ELSE @,
                   !.age = IF @ < Half THEN @ + 1 ELSE @]

\* now().Before(expiresAt)
Fresh(e) == e # None /\ e.left > 0

-----------------------------------------------------------------------------
(* FetchTransmitterConfig.                                                 *)

\* A ttl that is not positive: the table is not looked at.
Bypass(c) ==
    /\ ttl <= 0
    /\ pc[c] = "idle"
    /\ pc' = [pc EXCEPT ![c] = "fetching"]
    /\ UNCHANGED <<ttl, entry, version, held, fetched, floor, got>>

\* lookup loads the entry ...
Load(c) ==
    /\ ttl > 0
    /\ pc[c] = "idle"
    /\ pc' = [pc EXCEPT ![c] = "loaded"]
    /\ held' = [held EXCEPT ![c] = entry]
    /\ floor' = [floor EXCEPT ![c] = IF entry = None THEN 0 ELSE entry.version]
    /\ UNCHANGED <<ttl, entry, version, fetched, got>>

\* Mutant: a hit makes the entry fresh again.
HitSliding(c) ==
    /\ pc[c] = "loaded"
    /\ Fresh(held[c])
    /\ pc' = [pc EXCEPT ![c] = "idle"]
    /\ held' = [held EXCEPT ![c] = None]
    /\ floor' = [floor EXCEPT ![c] = 0]
    /\ got' = [got EXCEPT ![c] = held[c].version]
    /\ entry' = [held[c] EXCEPT !.left = Freshness(held[c]), !.age = 0]
    /\ UNCHANGED <<ttl, version, fetched>>

\* ... reads the clock, and returns what it loaded while that is fresh,
Hit(c) ==
    /\ pc[c] = "loaded"
    /\ Fresh(held[c])
    /\ pc' = [pc EXCEPT ![c] = "idle"]
    /\ held' = [held EXCEPT ![c] = None]
    /\ floor' = [floor EXCEPT ![c] = 0]
    /\ got' = [got EXCEPT ![c] = held[c].version]
    /\ UNCHANGED <<ttl, entry, version, fetched>>

\* ... or the call goes out to the Transmitter.
Miss(c) ==
    /\ pc[c] = "loaded"
    /\ ~Fresh(held[c])
    /\ pc' = [pc EXCEPT ![c] = "fetching"]
    /\ held' = [held EXCEPT ![c] = None]
    /\ UNCHANGED <<ttl, entry, version, fetched, floor, got>>

\* Transport, status or body is bad: the error is returned, nothing stored.
FetchFails(c) ==
    /\ pc[c] = "fetching"
    /\ pc' = [pc EXCEPT ![c] = "idle"]
    /\ floor' = [floor EXCEPT ![c] = 0]
    /\ UNCHANGED <<ttl, entry, version, held, fetched, got>>

\* Mutant: an entry that came meanwhile is kept and returned (LoadOrStore).
ReturnCached(c) ==
    /\ pc[c] = "received"
    /\ entry' = IF ~Fresh(entry) /\ ttl > 0 /\ Storable(fetched[c])
                THEN NewEntry(fetched[c]) ELSE entry
    /\ got' = [got EXCEPT ![c] =
            IF Fresh(entry) THEN entry.version ELSE fetched[c].version]
    /\ pc' = [pc EXCEPT ![c] = "idle"]
    /\ floor' = [floor EXCEPT ![c] = 0]
    /\ fetched' = [fetched EXCEPT ![c] = None]
    /\ UNCHANGED <<ttl, version, held>>

\* store, then the return; without a ttl the call returns what it fetched.
Return(c) ==
    /\ pc[c] = "received"
    /\ entry' = IF ttl > 0 /\ Storable(fetched[c])
                THEN NewEntry(fetched[c]) ELSE entry
    /\ got' = [got EXCEPT ![c] = fetched[c].version]
    /\ pc' = [pc EXCEPT ![c] = "idle"]
    /\ floor' = [floor EXCEPT ![c] = 0]
    /\ fetched' = [fetched EXCEPT ![c] = None]
    /\ UNCHANGED <<ttl, version, held>>

-----------------------------------------------------------------------------
(* The Transmitter and the clock.                                          *)

\* The response is made: what it says is what the Transmitter serves now.
Respond(c, maxAge, noStore) ==
    /\ pc[c] = "fetching"
    /\ pc' = [pc EXCEPT ![c] = "received"]
    /\ fetched' = [fetched EXCEPT ![c] =
            [version |-> version, maxAge |-> maxAge, noStore |-> noStore]]
    /\ UNCHANGED <<ttl, entry, version, held, floor, got>>

Publish ==
    /\ version < MaxVersion
    /\ version' = version + 1
    /\ UNCHANGED <<ttl, entry, pc, held, fetched, floor, got>>

Tick ==
    /\ entry' = Aged(entry)
    /\ held' = [c \in Callers |-> Aged(held[c])]
    /\ UNCHANGED <<ttl, version, pc, fetched, floor, got>>

-----------------------------------------------------------------------------
CallStep(c) == Bypass(c) \/ Load(c) \/ Hit(c) \/ Miss(c) \/ FetchFails(c) \/ Return(c)

TransmitterStep(c) ==
    \E maxAge \in MaxAges, noStore \in BOOLEAN : Respond(c, maxAge, noStore)

Next ==
    \/ \E c \in Callers : CallStep(c) \/ TransmitterStep(c)
    \/ Publish
    \/ Tick

Spec == Init /\ [][Next]_vars

(* Time passes and a call that has its answer stores it.  Nothing is       *)
(* assumed of the Transmitter's answers or of who calls.                   *)
Fairness ==
    /\ WF_vars(Tick)
    /\ \A c \in Callers : WF_vars(Return(c))

FairSpec == Spec /\ Fairness

-----------------------------------------------------------------------------
\* The time for which a response with this maxAge may be used, unwrapped.
Allowed(maxAge) ==
    IF maxAge >= 0 /\ maxAge * Second < ttl THEN maxAge * Second ELSE ttl

\* What the cache returns without a fetch is younger than its ttl and than
\* the max-age of its own response, however calls overlap, entries replace
\* each other under a lookup and durations wrap; responses with no-store or
\* max-age=0 are never returned so, nor anything if ttl is not positive.
HitsAreFresh ==
    \A c \in Callers : (pc[c] = "loaded" /\ Fresh(held[c])) =>
        ~held[c].noStore /\ held[c].age < Allowed(held[c].maxAge)

\* A call never returns a document older than the one the cache held when it
\* began, although a slow call may put an older one into the cache meanwhile.
NeverBehindTheCache ==
    [][\A c \in Callers :
        (pc[c] \in {"loaded", "received"} /\ pc'[c] = "idle") =>
            got'[c] >= floor[c]]_vars

\* An outdated document is not kept for ever: once the Transmitter has
\* stopped changing its document, lookups that hit return that document in
\* the end, even after a slow call has stored an older one over it.
CatchesUp ==
    <>[](\A c \in Callers :
            (pc[c] = "loaded" /\ Fresh(held[c])) => held[c].version = version)
=============================================================================

---------------------------- MODULE StreamStore ----------------------------
(***************************************************************************)
(* memstore.InMemoryStore.  Every method holds the store's one mutex from  *)
(* beginning to end, so a method is an operator: it takes the store and    *)
(* returns the store it leaves, the error and the value it answers with.   *)
(* A configuration is a record with at least its stream id; copying it is  *)
(* the business of StoreSession, where memory matters.                     *)
(***************************************************************************)
EXTENDS Naturals, Sequences, FiniteSets

CONSTANTS
    Names,    \* stream ids that callers make up
    MaxMint,  \* bound: stream ids the store ever mints
    Numbers,  \* JSON values of subjects, all of them numbers
    Forms,    \* ways to write one JSON value
    Exact,    \* the integers up to Exact are exact in a float64
    Garbled,  \* a subject that is not JSON
    None      \* nil, or the empty string

ASSUME StoreAssumption ==
    /\ MaxMint \in Nat
    /\ Names \cap Nat = {}
    /\ Numbers \subseteq Nat
    /\ Exact \in Nat
    /\ None \notin Names /\ None \notin Nat
    /\ Garbled # None
    /\ None \notin [value : Numbers, form : Forms]

\* The n-th minted id, "stream-<seed>-<n>", is the number n; callers may
\* supply it too.
Minted == 1..MaxMint

StreamIDs == Names \cup Minted

Subjects == [value : Numbers, form : Forms] \cup {Garbled}

Statuses == {"enabled", "paused"}

Responses == [status : Statuses, subject : Subjects \cup {None}]

\* The key of the whole stream's status, the empty string of the code.
Whole == <<>>

\* json.Unmarshal into any: an integer beyond Exact goes to the nearest
\* float64, half-way cases to the even one (for values below 2 * Exact).
Float(n) ==
    IF n <= Exact \/ n % 2 = 0 THEN n
    ELSE IF n % 4 = 1 THEN n - 1 ELSE n + 1

\* Mutant: the bytes of the subject are its key.
RawKey(subject) == <<subject.value, subject.form>>

\* canonicalSubjectKey of a subject that is JSON.
CanonicalKey(subject) == <<Float(subject.value)>>

Key(subject) == IF subject = None THEN Whole ELSE CanonicalKey(subject)

-----------------------------------------------------------------------------
Put(f, k, v) == [x \in DOMAIN f \cup {k} |-> IF x = k THEN v ELSE f[x]]

Drop(f, k) == [x \in DOMAIN f \ {k} |-> f[x]]

EmptyMap == [x \in {} |-> None]

EmptyStore ==
    [streams |-> EmptyMap, statuses |-> EmptyMap, subjects |-> EmptyMap,
     queues |-> EmptyMap, nextID |-> 0]

Answer(store, err, out) == [store |-> store, err |-> err, out |-> out]

Refuse(s, err) == Answer(s, err, None)

\* Mutant: the next id is taken from the number of streams.
MintedIDByCount(s) == Cardinality(DOMAIN s.streams) + 1

MintedID(s) == s.nextID + 1

\* The statuses of a new stream.
EmptyStatus == [k \in {Whole} |-> [status |-> "enabled", subject |-> None]]

\* The entries of a stream in the four maps, all of them new.
Seeded(s, cfg, nextID) ==
    [streams  |-> Put(s.streams, cfg.id, cfg),
     statuses |-> Put(s.statuses, cfg.id, EmptyStatus),
     subjects |-> Put(s.subjects, cfg.id, {}),
     queues   |-> Put(s.queues, cfg.id, <<>>),
     nextID   |-> nextID]

\* A minted id is not looked up.
CreateStream(s, cfg) ==
    IF cfg.id = None
    THEN LET stored == [cfg EXCEPT !.id = MintedID(s)]
         IN  Answer(Seeded(s, stored, s.nextID + 1), "nil", stored)
    ELSE IF cfg.id \in DOMAIN s.streams
    THEN Refuse(s, "ErrInvalidConfig")
    ELSE Answer(Seeded(s, cfg, s.nextID), "nil", cfg)

GetStream(s, id) ==
    IF id \in DOMAIN s.streams
    THEN Answer(s, "nil", s.streams[id])
    ELSE Refuse(s, "ErrStreamNotFound")

\* One page, whatever the token; the order of the page is left out.
ListStreams(s) == Answer(s, "nil", {s.streams[id] : id \in DOMAIN s.streams})

\* Mutant: an update starts the stream anew.
UpdateReseeding(s, cfg) ==
    IF cfg.id \in DOMAIN s.streams
    THEN Answer(Seeded(s, cfg, s.nextID), "nil", cfg)
    ELSE Refuse(s, "ErrStreamNotFound")

\* Mutant: an update stores what it is given.
UpsertStream(s, cfg) ==
    Answer([s EXCEPT !.streams = Put(@, cfg.id, cfg)], "nil", cfg)

UpdateStream(s, cfg) ==
    IF cfg.id \in DOMAIN s.streams
    THEN Answer([s EXCEPT !.streams = Put(@, cfg.id, cfg)], "nil", cfg)
    ELSE Refuse(s, "ErrStreamNotFound")

\* Mutant: the statuses of the stream stay.
DeleteAllButStatuses(s, id) ==
    Answer([s EXCEPT !.streams = Drop(@, id), !.subjects = Drop(@, id),
                     !.queues = Drop(@, id)], "nil", None)

DeleteStream(s, id) ==
    Answer([s EXCEPT !.streams = Drop(@, id), !.statuses = Drop(@, id),
                     !.subjects = Drop(@, id), !.queues = Drop(@, id)],
           "nil", None)

-----------------------------------------------------------------------------
\* A subject without a status of its own has the stream's.
GetStreamStatus(s, id, subject) ==
    IF id \notin DOMAIN s.statuses THEN Refuse(s, "ErrStreamNotFound")
    ELSE IF subject = Garbled THEN Refuse(s, "ErrInvalidConfig")
    ELSE LET bucket == s.statuses[id]
         IN  Answer(s, "nil",
                IF Key(subject) \in DOMAIN bucket THEN bucket[Key(subject)]
                ELSE [bucket[Whole] EXCEPT !.subject = subject])

\* Mutant: a status for the whole stream ends the subjects' own.
SetStreamStatusClearing(s, id, status, subject) ==
    IF id \notin DOMAIN s.statuses THEN Refuse(s, "ErrStreamNotFound")
    ELSE IF subject = Garbled THEN Refuse(s, "ErrInvalidConfig")
    ELSE LET response == [status |-> status, subject |-> subject]
         IN  Answer([s EXCEPT !.statuses[id] =
                        IF subject = None THEN [k \in {Whole} |-> response]
                        ELSE Put(@, Key(subject), response)], "nil", response)

SetStreamStatus(s, id, status, subject) ==
    IF id \notin DOMAIN s.statuses THEN Refuse(s, "ErrStreamNotFound")
    ELSE IF subject = Garbled THEN Refuse(s, "ErrInvalidConfig")
    ELSE LET response == [status |-> status, subject |-> subject]
         IN  Answer([s EXCEPT !.statuses[id] = Put(@, Key(subject), response)],
                    "nil", response)

\* A nil subject is refused here.
AddSubject(s, id, subject) ==
    IF id \notin DOMAIN s.subjects THEN Refuse(s, "ErrStreamNotFound")
    ELSE IF subject \in {None, Garbled} THEN Refuse(s, "ErrInvalidConfig")
    ELSE Answer([s EXCEPT !.subjects[id] = @ \cup {CanonicalKey(subject)}],
                "nil", None)

RemoveSubject(s, id, subject) ==
    IF id \notin DOMAIN s.subjects THEN Refuse(s, "ErrStreamNotFound")
    ELSE IF subject \in {None, Garbled} THEN Refuse(s, "ErrInvalidConfig")
    ELSE Answer([s EXCEPT !.subjects[id] = @ \ {CanonicalKey(subject)}],
                "nil", None)

\* Mutant: the newest token comes first.
EnqueueFirst(s, id, jws) ==
    IF id \notin DOMAIN s.streams THEN Refuse(s, "ErrStreamNotFound")
    ELSE Answer([s EXCEPT !.queues[id] = <<jws>> \o @], "nil", None)

EnqueueSET(s, id, jws) ==
    IF id \notin DOMAIN s.streams THEN Refuse(s, "ErrStreamNotFound")
    ELSE Answer([s EXCEPT !.queues[id] = Append(@, jws)], "nil", None)

HasSubject(s, id, subject) == CanonicalKey(subject) \in s.subjects[id]
=============================================================================

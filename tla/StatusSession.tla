--------------------------- MODULE StatusSession ---------------------------
(***************************************************************************)
(* The lifecycle status, the subjects and the queue of the streams of an   *)
(* in-memory store, over creations, updates and deletions of the streams.  *)
(* A configuration is its id here: StoreSession has the rest.              *)
(***************************************************************************)
EXTENDS StreamStore

CONSTANTS
    SETs,      \* tokens that are enqueued
    MaxQueue,  \* bound: tokens in the queues of all streams
    MaxSaid    \* bound: statuses said of all streams and their subjects

VARIABLES
    store,    \* the InMemoryStore
    said,     \* history: per stream, the last status set for each subject
    members,  \* history: per stream, the subjects added and not removed
    queued    \* history: per stream, the tokens enqueued

vars == <<store, said, members, queued>>

ASSUME StatusAssumption == MaxQueue \in Nat /\ MaxSaid \in Nat

\* Everything that is held for some stream.
Held(map) == UNION {{id} \X DOMAIN map[id] : id \in DOMAIN map}

\* Adding or removing takes a subject identifier, which may be nil.
Given == Subjects \cup {None}

Value(subject) == IF subject = None THEN Whole ELSE <<subject.value>>

Init ==
    /\ store = EmptyStore
    /\ said = EmptyMap /\ members = EmptyMap /\ queued = EmptyMap

\* Whoever sets a status knows what it said of this stream.
Say(id, status, subject) ==
    said' = [said EXCEPT ![id] = Put(@, Value(subject), status)]

Create(cfg) ==
    LET result == CreateStream(store, cfg)
        made(map, new) == IF result.err = "nil" THEN Put(map, result.out.id, new)
                          ELSE map
    IN  /\ cfg.id = None => store.nextID < MaxMint
        /\ store' = result.store
        /\ said' = made(said, [v \in {Whole} |-> "enabled"])
        /\ members' = made(members, {})
        /\ queued' = made(queued, <<>>)

Update(cfg) ==
    /\ store' = UpdateStream(store, cfg).store
    /\ UNCHANGED <<said, members, queued>>

Delete(id) ==
    /\ store' = DeleteStream(store, id).store
    /\ said' = Drop(said, id)
    /\ members' = Drop(members, id)
    /\ queued' = Drop(queued, id)

SetStatus(id, status, subject) ==
    LET result == SetStreamStatus(store, id, status, subject)
    IN  /\ store' = result.store
        /\ IF result.err = "nil" THEN Say(id, status, subject)
           ELSE UNCHANGED said
        /\ Cardinality(Held(said')) <= MaxSaid
        /\ UNCHANGED <<members, queued>>

Add(id, subject) ==
    LET result == AddSubject(store, id, subject)
    IN  /\ store' = result.store
        /\ members' = IF result.err = "nil"
                      THEN [members EXCEPT ![id] = @ \cup {subject.value}]
                      ELSE members
        /\ UNCHANGED <<said, queued>>

Remove(id, subject) ==
    LET result == RemoveSubject(store, id, subject)
    IN  /\ store' = result.store
        /\ members' = IF result.err = "nil"
                      THEN [members EXCEPT ![id] = @ \ {subject.value}]
                      ELSE members
        /\ UNCHANGED <<said, queued>>

Enqueue(id, jws) ==
    LET result == EnqueueSET(store, id, jws)
    IN  /\ Cardinality(Held(queued)) < MaxQueue
        /\ store' = result.store
        /\ queued' = IF result.err = "nil"
                     THEN [queued EXCEPT ![id] = Append(@, jws)] ELSE queued
        /\ UNCHANGED <<said, members>>

Next ==
    \/ \E id \in StreamIDs \cup {None} :
          Create([id |-> id]) \/ Update([id |-> id])
    \/ \E id \in StreamIDs :
          \/ Delete(id)
          \/ \E subject \in Given :
                \/ \E status \in Statuses : SetStatus(id, status, subject)
                \/ Add(id, subject)
                \/ Remove(id, subject)
          \/ \E jws \in SETs : Enqueue(id, jws)

Spec == Init /\ [][Next]_vars

-----------------------------------------------------------------------------
\* Every variable has its type (memstore.go:55-65).
TypeOK ==
    /\ DOMAIN store.streams \subseteq StreamIDs
    /\ store.streams \in [DOMAIN store.streams -> [id : StreamIDs]]
    /\ \A id \in DOMAIN store.statuses :
          store.statuses[id] \in [DOMAIN store.statuses[id] -> Responses]
    /\ store.nextID \in 0..MaxMint

\* The four maps have entries for the same streams, so a deleted stream has
\* no status, subjects or queue left to be read or written
\* (memstore.go:113-120, 187-190).
MapsAgree ==
    LET live == DOMAIN store.streams
    IN  /\ TypeOK
        /\ DOMAIN store.statuses = live /\ DOMAIN store.subjects = live
        /\ DOMAIN store.queues = live
        /\ DOMAIN said = live

\* Numbers a float64 tells apart from every other integer.
Safe(subject) == subject # Garbled /\ (subject = None \/ subject.value < Exact)

\* A subject's status is the last one set for that JSON value, however it was
\* written, or else the stream's; neither another subject, the stream nor an
\* update of its configuration takes it back (memstore.go:211-231, 254-263,
\* 438-451).
StatusFollows ==
    \A id \in DOMAIN store.streams, subject \in Given :
        Safe(subject) =>
            GetStreamStatus(store, id, subject).out.status =
                IF Value(subject) \in DOMAIN said[id]
                THEN said[id][Value(subject)] ELSE said[id][Whole]

\* What is kept beside a stream's configuration follows the calls and not the
\* configuration: a subject is a member if and only if it was added in some
\* form and not removed since in any, and the queue holds the tokens enqueued
\* for this stream since it was created, in order (memstore.go:270-326).
ContentsFollow ==
    \A id \in DOMAIN store.streams :
        /\ store.queues[id] = queued[id]
        /\ \A subject \in Subjects : Safe(subject) =>
              (HasSubject(store, id, subject) <=> subject.value \in members[id])
=============================================================================

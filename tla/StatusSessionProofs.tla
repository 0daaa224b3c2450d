------------------------- MODULE StatusSessionProofs -------------------------
(***************************************************************************)
(* Proofs about StatusSession for every set of names, numbers, forms and   *)
(* tokens, and every bound: what the store keeps beside a configuration is *)
(* what its callers last said.                                             *)
(***************************************************************************)
EXTENDS StatusSession, TLAPS

-----------------------------------------------------------------------------
(* The inductive invariant *)

\* What the store keeps of one stream, and what was said of it.
Kept(bucket, sayings, keys, values, queue, tokens) ==
    /\ bucket \in [DOMAIN bucket -> Responses] /\ Whole \in DOMAIN bucket
    /\ \A u \in Given : Safe(u) =>
          /\ Key(u) \in DOMAIN bucket <=> Value(u) \in DOMAIN sayings
          /\ Key(u) \in DOMAIN bucket => bucket[Key(u)].status = sayings[Value(u)]
    /\ \A u \in Subjects : Safe(u) => (CanonicalKey(u) \in keys <=> u.value \in values)
    /\ queue = tokens

\* The maps of the store and those of its callers are about the same streams.
SameStreams ==
    LET live == DOMAIN store.streams
    IN  /\ DOMAIN store.statuses = live /\ DOMAIN store.subjects = live
        /\ DOMAIN store.queues = live
        /\ DOMAIN said = live /\ DOMAIN members = live /\ DOMAIN queued = live

\* The store and its configurations have their types.
ConfigsOK ==
    /\ store = [streams |-> store.streams, statuses |-> store.statuses,
                subjects |-> store.subjects, queues |-> store.queues,
                nextID |-> store.nextID]
    /\ DOMAIN store.streams \subseteq StreamIDs
    /\ store.streams \in [DOMAIN store.streams -> [id : StreamIDs]]
    /\ store.nextID \in 0..MaxMint

\* Of every stream.
AllKept ==
    \A id \in DOMAIN store.streams :
        Kept(store.statuses[id], said[id], store.subjects[id], members[id],
             store.queues[id], queued[id])

\* The inductive invariant.
IInv == ConfigsOK /\ SameStreams /\ AllKept

-----------------------------------------------------------------------------
(* Keys *)

\* Numbers below Exact are their own float64, others become none of them.
LEMMA FloatKeepsSafe ==
    ASSUME NEW n \in Nat, NEW k \in Nat, n < Exact
    PROVE  Float(n) = Float(k) <=> n = k
<1>1. Exact \in Nat BY StoreAssumption
<1>2. Float(n) = n BY <1>1 DEF Float
<1>3. CASE k <= Exact BY <1>2, <1>3 DEF Float
<1>4. CASE ~(k <= Exact)
  <2>1. Float(k) \in {k, k - 1, k + 1} BY DEF Float
  <2> QED BY <1>1, <1>2, <1>4, <2>1
<1> QED BY <1>3, <1>4

\* A subject that is JSON is a number in some form.
LEMMA SubjectIsNumber ==
    ASSUME NEW u \in Given, u # Garbled, u # None
    PROVE  u \in Subjects /\ u.value \in Nat
BY StoreAssumption DEF Given, Subjects

\* A safe subject has the key of another exactly if both are the same value.
LEMMA KeysAreValues ==
    ASSUME NEW u \in Given, Safe(u), NEW w \in Given, w # Garbled
    PROVE  Key(u) = Key(w) <=> Value(u) = Value(w)
<1>1. CASE u = None /\ w = None BY <1>1
<1>2. CASE u = None /\ w # None
  BY <1>2 DEF Key, Value, CanonicalKey, Whole
<1>3. CASE u # None /\ w = None
  BY <1>3 DEF Key, Value, CanonicalKey, Whole
<1>4. CASE u # None /\ w # None
  <2>1. u.value \in Nat /\ w.value \in Nat /\ u.value < Exact
    BY <1>4, SubjectIsNumber DEF Safe
  <2>2. Float(u.value) = Float(w.value) <=> u.value = w.value BY <2>1, FloatKeepsSafe
  <2> QED BY <1>4, <2>2 DEF Key, Value, CanonicalKey
<1> QED BY <1>1, <1>2, <1>3, <1>4

-----------------------------------------------------------------------------
(* One stream *)

\* A new stream.
LEMMA NewIsKept ==
    Kept(EmptyStatus, [v \in {Whole} |-> "enabled"], {}, {}, <<>>, <<>>)
<1>1. EmptyStatus \in [DOMAIN EmptyStatus -> Responses] /\ DOMAIN EmptyStatus = {Whole}
      /\ EmptyStatus[Whole].status = "enabled"
  BY DEF EmptyStatus, Responses, Statuses
<1>2. ASSUME NEW u \in Given, Safe(u)
      PROVE  Key(u) = Whole <=> Value(u) = Whole
  <2>1. None \in Given /\ None # Garbled /\ Key(None) = Whole /\ Value(None) = Whole
    BY StoreAssumption DEF Given, Key, Value
  <2> QED BY <1>2, <2>1, KeysAreValues
<1> HIDE DEF EmptyStatus
<1> QED BY <1>1, <1>2 DEF Kept

\* A status that is set is said of every spelling of its subject.
LEMMA SaidIsKept ==
    ASSUME NEW bucket, NEW sayings, NEW keys, NEW values, NEW queue, NEW tokens,
           Kept(bucket, sayings, keys, values, queue, tokens),
           NEW w \in Given, w # Garbled, NEW status \in Statuses
    PROVE  Kept(Put(bucket, Key(w), [status |-> status, subject |-> w]),
                Put(sayings, Value(w), status), keys, values, queue, tokens)
<1> DEFINE response == [status |-> status, subject |-> w]
           new == Put(bucket, Key(w), response)
           spoken == Put(sayings, Value(w), status)
<1>1. response \in Responses /\ response.status = status
  BY DEF Responses, Given
<1> HIDE DEF response
<1>2. /\ DOMAIN new = DOMAIN bucket \cup {Key(w)}
      /\ \A x \in DOMAIN new : new[x] = IF x = Key(w) THEN response ELSE bucket[x]
      /\ DOMAIN spoken = DOMAIN sayings \cup {Value(w)}
      /\ \A x \in DOMAIN spoken : spoken[x] = IF x = Value(w) THEN status ELSE sayings[x]
      /\ new = [x \in DOMAIN new |-> new[x]]
  BY DEF Put
<1> HIDE DEF new, spoken
<1>3. new \in [DOMAIN new -> Responses]
  <2>1. \A x \in DOMAIN new : new[x] \in Responses BY <1>1, <1>2 DEF Kept
  <2> QED BY <1>2, <2>1
<1>4. ASSUME NEW u \in Given, Safe(u)
      PROVE  /\ Key(u) \in DOMAIN new <=> Value(u) \in DOMAIN spoken
             /\ Key(u) \in DOMAIN new => new[Key(u)].status = spoken[Value(u)]
  <2>1. Key(u) = Key(w) <=> Value(u) = Value(w) BY <1>4, KeysAreValues
  <2> QED BY <1>1, <1>2, <1>4, <2>1 DEF Kept
<1>5. Kept(new, spoken, keys, values, queue, tokens) BY <1>2, <1>3, <1>4 DEF Kept
<1> QED BY <1>5 DEF new, spoken, response

\* A subject that is added or removed is so in every spelling.
LEMMA MembersAreKept ==
    ASSUME NEW bucket, NEW sayings, NEW keys, NEW values, NEW queue, NEW tokens,
           Kept(bucket, sayings, keys, values, queue, tokens),
           NEW w \in Given, w \notin {None, Garbled}
    PROVE  /\ Kept(bucket, sayings, keys \cup {CanonicalKey(w)}, values \cup {w.value}, queue, tokens)
           /\ Kept(bucket, sayings, keys \ {CanonicalKey(w)}, values \ {w.value}, queue, tokens)
<1>1. ASSUME NEW u \in Subjects, Safe(u)
      PROVE  CanonicalKey(u) = CanonicalKey(w) <=> u.value = w.value
  <2>1. CASE u = None
    BY <1>1, <2>1, StoreAssumption DEF Subjects, Safe
  <2>2. CASE u # None
    <3>1. u.value \in Nat /\ w.value \in Nat /\ u.value < Exact
      BY <1>1, <2>2, SubjectIsNumber DEF Safe, Given
    <3>2. Float(u.value) = Float(w.value) <=> u.value = w.value BY <3>1, FloatKeepsSafe
    <3> QED BY <3>2 DEF CanonicalKey
  <2> QED BY <2>1, <2>2
<1> QED BY <1>1 DEF Kept

-----------------------------------------------------------------------------
(* Steps *)

\* It holds of an empty store.
LEMMA InitIInv == Init => IInv
<1> SUFFICES ASSUME Init PROVE IInv OBVIOUS
<1>1. /\ store = [streams |-> EmptyMap, statuses |-> EmptyMap, subjects |-> EmptyMap,
                  queues |-> EmptyMap, nextID |-> 0]
      /\ said = EmptyMap /\ members = EmptyMap /\ queued = EmptyMap
      /\ DOMAIN EmptyMap = {}
  BY DEF Init, EmptyStore, EmptyMap
<1>2. EmptyMap \in [{} -> [id : StreamIDs]] BY DEF EmptyMap
<1> HIDE DEF EmptyMap
<1>3. store.streams = EmptyMap /\ store.statuses = EmptyMap /\ store.subjects = EmptyMap
      /\ store.queues = EmptyMap /\ store.nextID = 0
  BY <1>1
<1>4. store = [streams |-> store.streams, statuses |-> store.statuses,
               subjects |-> store.subjects, queues |-> store.queues, nextID |-> store.nextID]
  BY <1>1, <1>3
<1>5. ConfigsOK BY <1>1, <1>2, <1>3, <1>4, StoreAssumption DEF ConfigsOK
<1> QED BY <1>1, <1>3, <1>5 DEF IInv, SameStreams, AllKept

\* A stream that is seeded is kept, and the others are left alone.
LEMMA SeededStep ==
    ASSUME IInv, NEW id \in StreamIDs, NEW nextID \in 0..MaxMint,
           store' = Seeded(store, [id |-> id], nextID),
           said' = Put(said, id, [v \in {Whole} |-> "enabled"]),
           members' = Put(members, id, {}),
           queued' = Put(queued, id, <<>>)
    PROVE  IInv'
<1>1. /\ store'.streams = Put(store.streams, id, [id |-> id])
      /\ store'.statuses = Put(store.statuses, id, EmptyStatus)
      /\ store'.subjects = Put(store.subjects, id, {})
      /\ store'.queues = Put(store.queues, id, <<>>)
      /\ store'.nextID = nextID
      /\ store' = [streams |-> store'.streams, statuses |-> store'.statuses,
                   subjects |-> store'.subjects, queues |-> store'.queues,
                   nextID |-> store'.nextID]
  BY DEF Seeded
<1>2. DOMAIN store'.streams = DOMAIN store.streams \cup {id} BY <1>1 DEF Put
<1>3. SameStreams' BY <1>1, <1>2 DEF IInv, SameStreams, Put
<1>4. store'.streams \in [DOMAIN store'.streams -> [id : StreamIDs]]
  BY <1>1, <1>2 DEF Put, IInv, ConfigsOK
<1>5. ConfigsOK' BY <1>1, <1>2, <1>4 DEF IInv, ConfigsOK
<1>6. AllKept'
  <2> SUFFICES ASSUME NEW x \in DOMAIN store'.streams
               PROVE  Kept(store'.statuses[x], said'[x], store'.subjects[x], members'[x],
                           store'.queues[x], queued'[x])
    BY DEF AllKept
  <2>1. CASE x = id
    <3>1. /\ store'.statuses[x] = EmptyStatus /\ said'[x] = [v \in {Whole} |-> "enabled"]
          /\ store'.subjects[x] = {} /\ members'[x] = {}
          /\ store'.queues[x] = <<>> /\ queued'[x] = <<>>
      BY <1>1, <2>1 DEF Put
    <3> QED BY <3>1, NewIsKept
  <2>2. CASE x # id
    <3>1. x \in DOMAIN store.streams BY <1>2, <2>2
    <3>2. /\ store'.statuses[x] = store.statuses[x] /\ said'[x] = said[x]
          /\ store'.subjects[x] = store.subjects[x] /\ members'[x] = members[x]
          /\ store'.queues[x] = store.queues[x] /\ queued'[x] = queued[x]
      BY <1>1, <2>2, <3>1 DEF Put, IInv, SameStreams
    <3> QED BY <3>1, <3>2 DEF IInv, AllKept
  <2> QED BY <2>1, <2>2
<1> QED BY <1>3, <1>5, <1>6 DEF IInv

\* A new stream starts with nothing said of it, whatever its id stood for.
LEMMA CreateStep ==
    ASSUME IInv, NEW id \in StreamIDs \cup {None}, Create([id |-> id])
    PROVE  IInv'
<1> DEFINE cfg == [id |-> id]
           result == CreateStream(store, cfg)
<1>1. store.nextID \in 0..MaxMint /\ cfg.id = id BY DEF IInv, ConfigsOK
<1>2. CASE id = None
  <2>1. store.nextID < MaxMint BY <1>2 DEF Create
  <2>2. /\ store.nextID + 1 \in 0..MaxMint /\ store.nextID + 1 \in StreamIDs
        /\ MintedID(store) = store.nextID + 1
    BY <1>1, <2>1, StoreAssumption DEF MintedID, StreamIDs, Minted
  <2>3. [cfg EXCEPT !.id = MintedID(store)] = [id |-> MintedID(store)] OBVIOUS
  <2>4. /\ result.err = "nil" /\ result.out.id = MintedID(store)
        /\ result.store = Seeded(store, [id |-> MintedID(store)], store.nextID + 1)
    BY <1>2, <2>3 DEF CreateStream, Answer
  <2>5. /\ store' = Seeded(store, [id |-> MintedID(store)], store.nextID + 1)
        /\ said' = Put(said, MintedID(store), [v \in {Whole} |-> "enabled"])
        /\ members' = Put(members, MintedID(store), {})
        /\ queued' = Put(queued, MintedID(store), <<>>)
    BY <2>4 DEF Create
  <2> QED BY <2>2, <2>5, SeededStep
<1>3. CASE id # None /\ id \in DOMAIN store.streams
  <2>1. result.err # "nil" /\ result.store = store
    BY <1>3 DEF CreateStream, Refuse, Answer
  <2>2. UNCHANGED vars BY <2>1 DEF Create, vars
  <2> QED BY <2>2 DEF vars, IInv, ConfigsOK, SameStreams, AllKept
<1>4. CASE id # None /\ id \notin DOMAIN store.streams
  <2>1. result.err = "nil" /\ result.out.id = id /\ result.store = Seeded(store, cfg, store.nextID)
    BY <1>4 DEF CreateStream, Answer
  <2>2. /\ store' = Seeded(store, [id |-> id], store.nextID)
        /\ said' = Put(said, id, [v \in {Whole} |-> "enabled"])
        /\ members' = Put(members, id, {})
        /\ queued' = Put(queued, id, <<>>)
    BY <2>1 DEF Create
  <2> QED BY <1>1, <1>4, <2>2, SeededStep
<1> QED BY <1>2, <1>3, <1>4

\* UpdateStream touches the configuration alone.
LEMMA UpdateStep ==
    ASSUME IInv, NEW id \in StreamIDs \cup {None}, Update([id |-> id])
    PROVE  IInv'
<1>1. CASE id \notin DOMAIN store.streams
  <2>1. UNCHANGED vars BY <1>1 DEF Update, UpdateStream, Refuse, Answer, vars
  <2> QED BY <2>1 DEF vars, IInv, ConfigsOK, SameStreams, AllKept
<1>2. CASE id \in DOMAIN store.streams
  <2>1. store' = [store EXCEPT !.streams = Put(@, id, [id |-> id])]
    BY <1>2 DEF Update, UpdateStream, Answer
  <2>2. PICK a, b, c, d, e : store = [streams |-> a, statuses |-> b, subjects |-> c, queues |-> d, nextID |-> e]
    BY DEF IInv, ConfigsOK
  <2>3. /\ store'.streams = Put(store.streams, id, [id |-> id])
        /\ store'.statuses = store.statuses /\ store'.subjects = store.subjects
        /\ store'.queues = store.queues /\ store'.nextID = store.nextID
        /\ store' = [streams |-> store'.streams, statuses |-> store'.statuses,
                     subjects |-> store'.subjects, queues |-> store'.queues,
                     nextID |-> store'.nextID]
    BY <2>1, <2>2
  <2>4. DOMAIN store'.streams = DOMAIN store.streams BY <1>2, <2>3 DEF Put
  <2>5. id \in StreamIDs BY <1>2 DEF IInv, ConfigsOK
  <2>6. store'.streams \in [DOMAIN store'.streams -> [id : StreamIDs]]
    BY <2>3, <2>4, <2>5 DEF Put, IInv, ConfigsOK
  <2>7. ConfigsOK' BY <2>3, <2>4, <2>6 DEF IInv, ConfigsOK
  <2>8. UNCHANGED <<said, members, queued>> BY DEF Update
  <2>9. SameStreams' /\ AllKept' BY <2>3, <2>4, <2>8 DEF IInv, SameStreams, AllKept
  <2> QED BY <2>7, <2>9 DEF IInv
<1> QED BY <1>1, <1>2

\* DeleteStream takes the stream out of every map.
LEMMA DeleteStep ==
    ASSUME IInv, NEW id \in StreamIDs, Delete(id)
    PROVE  IInv'
<1>1. PICK a, b, c, d, e : store = [streams |-> a, statuses |-> b, subjects |-> c, queues |-> d, nextID |-> e]
  BY DEF IInv, ConfigsOK
<1>2. store' = [streams |-> Drop(store.streams, id), statuses |-> Drop(store.statuses, id),
                subjects |-> Drop(store.subjects, id), queues |-> Drop(store.queues, id),
                nextID |-> store.nextID]
  BY <1>1 DEF Delete, DeleteStream, Answer
<1>3. /\ store'.streams = Drop(store.streams, id) /\ store'.statuses = Drop(store.statuses, id)
      /\ store'.subjects = Drop(store.subjects, id) /\ store'.queues = Drop(store.queues, id)
      /\ store'.nextID = store.nextID
      /\ said' = Drop(said, id) /\ members' = Drop(members, id) /\ queued' = Drop(queued, id)
  BY <1>2 DEF Delete
<1>4. DOMAIN store'.streams = DOMAIN store.streams \ {id} BY <1>3 DEF Drop
<1>5. store'.streams \in [DOMAIN store'.streams -> [id : StreamIDs]]
  BY <1>3 DEF Drop, IInv, ConfigsOK
<1>6. ConfigsOK' BY <1>2, <1>3, <1>4, <1>5 DEF IInv, ConfigsOK
<1>7. SameStreams' BY <1>3, <1>4 DEF Drop, IInv, SameStreams
<1>8. AllKept'
  <2> SUFFICES ASSUME NEW x \in DOMAIN store'.streams
               PROVE  Kept(store'.statuses[x], said'[x], store'.subjects[x], members'[x],
                           store'.queues[x], queued'[x])
    BY DEF AllKept
  <2>1. x \in DOMAIN store.streams /\ x # id BY <1>4
  <2>2. /\ store'.statuses[x] = store.statuses[x] /\ said'[x] = said[x]
        /\ store'.subjects[x] = store.subjects[x] /\ members'[x] = members[x]
        /\ store'.queues[x] = store.queues[x] /\ queued'[x] = queued[x]
    BY <1>3, <2>1 DEF Drop, IInv, SameStreams
  <2> QED BY <2>1, <2>2 DEF IInv, AllKept
<1> QED BY <1>6, <1>7, <1>8 DEF IInv

\* A map that differs from another in one entry at most.
Becomes(new, old, id, value) ==
    /\ DOMAIN new = DOMAIN old
    /\ \A x \in DOMAIN old : new[x] = IF x = id THEN value ELSE old[x]

\* An entry that is set, and one that is left alone.
LEMMA SetsOneEntry ==
    ASSUME NEW old, NEW id \in DOMAIN old, NEW value
    PROVE  Becomes([old EXCEPT ![id] = value], old, id, value) /\ Becomes(old, old, id, old[id])
BY DEF Becomes

\* A step that changes what is kept of one stream, and what is said of it
\* alike.
LEMMA OneStreamStep ==
    ASSUME IInv, NEW id \in DOMAIN store.streams, NEW statuses, NEW subjects, NEW queues,
           store' = [streams |-> store.streams, statuses |-> statuses, subjects |-> subjects,
                     queues |-> queues, nextID |-> store.nextID],
           NEW bucket, Becomes(statuses, store.statuses, id, bucket),
           NEW keys, Becomes(subjects, store.subjects, id, keys),
           NEW queue, Becomes(queues, store.queues, id, queue),
           NEW sayings, Becomes(said', said, id, sayings),
           NEW values, Becomes(members', members, id, values),
           NEW tokens, Becomes(queued', queued, id, tokens),
           Kept(bucket, sayings, keys, values, queue, tokens)
    PROVE  IInv'
<1>1. /\ store'.streams = store.streams /\ store'.nextID = store.nextID
      /\ store'.statuses = statuses /\ store'.subjects = subjects /\ store'.queues = queues
  OBVIOUS
<1>2. ConfigsOK' BY <1>1 DEF IInv, ConfigsOK
<1>3. SameStreams' BY <1>1 DEF IInv, SameStreams, Becomes
<1>4. AllKept'
  <2> SUFFICES ASSUME NEW x \in DOMAIN store.streams
               PROVE  Kept(statuses[x], said'[x], subjects[x], members'[x], queues[x], queued'[x])
    BY <1>1 DEF AllKept
  <2>1. CASE x = id
    <3>1. /\ statuses[x] = bucket /\ said'[x] = sayings
          /\ subjects[x] = keys /\ members'[x] = values
          /\ queues[x] = queue /\ queued'[x] = tokens
      BY <2>1 DEF IInv, SameStreams, Becomes
    <3> QED BY <3>1
  <2>2. CASE x # id
    <3>1. /\ statuses[x] = store.statuses[x] /\ said'[x] = said[x]
          /\ subjects[x] = store.subjects[x] /\ members'[x] = members[x]
          /\ queues[x] = store.queues[x] /\ queued'[x] = queued[x]
      BY <2>2 DEF IInv, SameStreams, Becomes
    <3> QED BY <3>1 DEF IInv, AllKept
  <2> QED BY <2>1, <2>2
<1> QED BY <1>2, <1>3, <1>4 DEF IInv

\* SetStreamStatus records what was said under the key of its subject.
LEMMA SetStatusStep ==
    ASSUME IInv, NEW id \in StreamIDs, NEW status \in Statuses, NEW w \in Given,
           SetStatus(id, status, w)
    PROVE  IInv'
<1> DEFINE result == SetStreamStatus(store, id, status, w)
           bucket == Put(store.statuses[id], Key(w), [status |-> status, subject |-> w])
           sayings == Put(said[id], Value(w), status)
<1>1. CASE id \notin DOMAIN store.streams \/ w = Garbled
  <2>1. result.err # "nil" /\ result.store = store
    BY <1>1 DEF SetStreamStatus, Refuse, Answer, IInv, SameStreams
  <2>2. UNCHANGED vars BY <2>1 DEF SetStatus, vars
  <2> QED BY <2>2 DEF vars, IInv, ConfigsOK, SameStreams, AllKept
<1>2. CASE id \in DOMAIN store.streams /\ w # Garbled
  <2>1. /\ id \in DOMAIN store.statuses /\ id \in DOMAIN store.subjects /\ id \in DOMAIN store.queues
        /\ id \in DOMAIN said /\ id \in DOMAIN members /\ id \in DOMAIN queued
    BY <1>2 DEF IInv, SameStreams
  <2>2. result.err = "nil" /\ result.store = [store EXCEPT !.statuses[id] = bucket]
    BY <1>2, <2>1 DEF SetStreamStatus, Answer
  <2>3. /\ store' = [store EXCEPT !.statuses[id] = bucket]
        /\ said' = [said EXCEPT ![id] = sayings]
        /\ UNCHANGED <<members, queued>>
    BY <2>2 DEF SetStatus, Say
  <2>4. Kept(bucket, sayings, store.subjects[id], members[id], store.queues[id], queued[id])
    BY <1>2, SaidIsKept DEF IInv, AllKept
  <2> HIDE DEF bucket, sayings
  <2>5. PICK a, b, c, d, e : store = [streams |-> a, statuses |-> b, subjects |-> c, queues |-> d, nextID |-> e]
    BY DEF IInv, ConfigsOK
  <2>6. store' = [streams |-> store.streams, statuses |-> [store.statuses EXCEPT ![id] = bucket],
                  subjects |-> store.subjects, queues |-> store.queues, nextID |-> store.nextID]
    BY <2>3, <2>5
  <2>7. /\ Becomes([store.statuses EXCEPT ![id] = bucket], store.statuses, id, bucket)
        /\ Becomes(store.subjects, store.subjects, id, store.subjects[id])
        /\ Becomes(store.queues, store.queues, id, store.queues[id])
        /\ Becomes(said', said, id, sayings)
        /\ Becomes(members', members, id, members[id])
        /\ Becomes(queued', queued, id, queued[id])
    BY <2>1, <2>3, SetsOneEntry
  <2> QED BY <1>2, <2>4, <2>6, <2>7, OneStreamStep
<1> QED BY <1>1, <1>2

\* AddSubject and RemoveSubject: the same key goes in or out.
LEMMA MembersStep ==
    ASSUME IInv, NEW id \in StreamIDs, NEW w \in Given, Add(id, w) \/ Remove(id, w)
    PROVE  IInv'
<1>1. CASE id \notin DOMAIN store.streams \/ w \in {None, Garbled}
  <2>1. id \notin DOMAIN store.subjects \/ w \in {None, Garbled}
    BY <1>1 DEF IInv, SameStreams
  <2>2. UNCHANGED vars
    BY <2>1 DEF Add, Remove, AddSubject, RemoveSubject, Refuse, Answer, vars
  <2> QED BY <2>2 DEF vars, IInv, ConfigsOK, SameStreams, AllKept
<1>2. ASSUME id \in DOMAIN store.streams, NEW keys, NEW values,
             store' = [store EXCEPT !.subjects[id] = keys],
             members' = [members EXCEPT ![id] = values], UNCHANGED <<said, queued>>,
             Kept(store.statuses[id], said[id], keys, values, store.queues[id], queued[id])
      PROVE  IInv'
  <2>1. /\ id \in DOMAIN store.statuses /\ id \in DOMAIN store.subjects /\ id \in DOMAIN store.queues
        /\ id \in DOMAIN said /\ id \in DOMAIN members /\ id \in DOMAIN queued
    BY <1>2 DEF IInv, SameStreams
  <2>2. PICK a, b, c, d, e : store = [streams |-> a, statuses |-> b, subjects |-> c, queues |-> d, nextID |-> e]
    BY DEF IInv, ConfigsOK
  <2>3. store' = [streams |-> store.streams, statuses |-> store.statuses,
                  subjects |-> [store.subjects EXCEPT ![id] = keys],
                  queues |-> store.queues, nextID |-> store.nextID]
    BY <1>2, <2>2
  <2>4. /\ Becomes(store.statuses, store.statuses, id, store.statuses[id])
        /\ Becomes([store.subjects EXCEPT ![id] = keys], store.subjects, id, keys)
        /\ Becomes(store.queues, store.queues, id, store.queues[id])
        /\ Becomes(said', said, id, said[id])
        /\ Becomes(members', members, id, values)
        /\ Becomes(queued', queued, id, queued[id])
    BY <1>2, <2>1, SetsOneEntry
  <2> QED BY <1>2, <2>3, <2>4, OneStreamStep
<1>3. CASE id \in DOMAIN store.streams /\ w \notin {None, Garbled}
  <2>1. id \in DOMAIN store.subjects BY <1>3 DEF IInv, SameStreams
  <2>2. /\ Kept(store.statuses[id], said[id], store.subjects[id] \cup {CanonicalKey(w)},
                members[id] \cup {w.value}, store.queues[id], queued[id])
        /\ Kept(store.statuses[id], said[id], store.subjects[id] \ {CanonicalKey(w)},
                members[id] \ {w.value}, store.queues[id], queued[id])
    BY <1>3, MembersAreKept DEF IInv, AllKept
  <2>3. CASE Add(id, w)
    <3>1. /\ store' = [store EXCEPT !.subjects[id] = store.subjects[id] \cup {CanonicalKey(w)}]
          /\ members' = [members EXCEPT ![id] = members[id] \cup {w.value}]
          /\ UNCHANGED <<said, queued>>
      BY <1>3, <2>1, <2>3 DEF Add, AddSubject, Answer
    <3> QED BY <1>2, <1>3, <2>2, <3>1
  <2>4. CASE Remove(id, w)
    <3>1. /\ store' = [store EXCEPT !.subjects[id] = store.subjects[id] \ {CanonicalKey(w)}]
          /\ members' = [members EXCEPT ![id] = members[id] \ {w.value}]
          /\ UNCHANGED <<said, queued>>
      BY <1>3, <2>1, <2>4 DEF Remove, RemoveSubject, Answer
    <3> QED BY <1>2, <1>3, <2>2, <3>1
  <2> QED BY <2>3, <2>4
<1> QED BY <1>1, <1>3

\* EnqueueSET appends to one queue.
LEMMA EnqueueStep ==
    ASSUME IInv, NEW id \in StreamIDs, NEW jws \in SETs, Enqueue(id, jws)
    PROVE  IInv'
<1>1. CASE id \notin DOMAIN store.streams
  <2>1. UNCHANGED vars BY <1>1 DEF Enqueue, EnqueueSET, Refuse, Answer, vars
  <2> QED BY <2>1 DEF vars, IInv, ConfigsOK, SameStreams, AllKept
<1>2. CASE id \in DOMAIN store.streams
  <2>1. /\ id \in DOMAIN store.statuses /\ id \in DOMAIN store.subjects /\ id \in DOMAIN store.queues
        /\ id \in DOMAIN said /\ id \in DOMAIN members /\ id \in DOMAIN queued
    BY <1>2 DEF IInv, SameStreams
  <2> DEFINE queue == Append(store.queues[id], jws)
             tokens == Append(queued[id], jws)
  <2>2. /\ store' = [store EXCEPT !.queues[id] = queue]
        /\ queued' = [queued EXCEPT ![id] = tokens]
        /\ UNCHANGED <<said, members>>
    BY <1>2, <2>1 DEF Enqueue, EnqueueSET, Answer
  <2>3. Kept(store.statuses[id], said[id], store.subjects[id], members[id], queue, tokens)
    BY <1>2 DEF IInv, AllKept, Kept
  <2> HIDE DEF queue, tokens
  <2>4. PICK a, b, c, d, e : store = [streams |-> a, statuses |-> b, subjects |-> c, queues |-> d, nextID |-> e]
    BY DEF IInv, ConfigsOK
  <2>5. store' = [streams |-> store.streams, statuses |-> store.statuses, subjects |-> store.subjects,
                  queues |-> [store.queues EXCEPT ![id] = queue], nextID |-> store.nextID]
    BY <2>2, <2>4
  <2>6. /\ Becomes(store.statuses, store.statuses, id, store.statuses[id])
        /\ Becomes(store.subjects, store.subjects, id, store.subjects[id])
        /\ Becomes([store.queues EXCEPT ![id] = queue], store.queues, id, queue)
        /\ Becomes(said', said, id, said[id])
        /\ Becomes(members', members, id, members[id])
        /\ Becomes(queued', queued, id, tokens)
    BY <2>1, <2>2, SetsOneEntry
  <2> QED BY <1>2, <2>3, <2>5, <2>6, OneStreamStep
<1> QED BY <1>1, <1>2

\* Every call keeps the invariant.
LEMMA NextIInv == IInv /\ [Next]_vars => IInv'
<1> SUFFICES ASSUME IInv, [Next]_vars PROVE IInv' OBVIOUS
<1>1. ASSUME NEW id \in StreamIDs \cup {None}, Create([id |-> id]) \/ Update([id |-> id]) PROVE IInv'
  BY <1>1, CreateStep, UpdateStep
<1>2. ASSUME NEW id \in StreamIDs, Delete(id) PROVE IInv' BY <1>2, DeleteStep
<1>3. ASSUME NEW id \in StreamIDs, NEW subject \in Given,
             \/ \E status \in Statuses : SetStatus(id, status, subject)
             \/ Add(id, subject)
             \/ Remove(id, subject)
      PROVE  IInv'
  BY <1>3, SetStatusStep, MembersStep
<1>4. ASSUME NEW id \in StreamIDs, NEW jws \in SETs, Enqueue(id, jws) PROVE IInv'
  BY <1>4, EnqueueStep
<1>5. CASE UNCHANGED vars BY <1>5 DEF vars, IInv, ConfigsOK, SameStreams, AllKept
<1> QED BY <1>1, <1>2, <1>3, <1>4, <1>5 DEF Next

-----------------------------------------------------------------------------
(* Theorems *)

\* The invariant holds throughout.
THEOREM IInvIsInvariant == Spec => []IInv
<1> QED BY InitIInv, NextIInv, PTL DEF Spec

\* MapsAgree: CreateStream and DeleteStream make and remove the entries of a
\* stream in all four maps (memstore.go:113-120, 187-190).
THEOREM MapsAlwaysAgree == Spec => []MapsAgree
<1>1. IInv => MapsAgree
  BY DEF IInv, ConfigsOK, SameStreams, AllKept, Kept, MapsAgree, TypeOK
<1> QED BY <1>1, IInvIsInvariant, PTL

\* StatusFollows: GetStreamStatus answers with the last status set for that
\* JSON value, or else the stream's (memstore.go:211-231, 254-263, 438-451).
THEOREM StatusesFollow == Spec => []StatusFollows
<1>1. ASSUME IInv, NEW id \in DOMAIN store.streams, NEW u \in Given, Safe(u)
      PROVE  GetStreamStatus(store, id, u).out.status =
                 IF Value(u) \in DOMAIN said[id] THEN said[id][Value(u)] ELSE said[id][Whole]
  <2> DEFINE bucket == store.statuses[id]
  <2>1. /\ Whole \in DOMAIN bucket /\ bucket[Whole] \in Responses
        /\ Key(u) \in DOMAIN bucket <=> Value(u) \in DOMAIN said[id]
        /\ Key(u) \in DOMAIN bucket => bucket[Key(u)].status = said[id][Value(u)]
    BY <1>1 DEF IInv, AllKept, Kept
  <2>2. bucket[Whole].status = said[id][Whole]
    <3>1. None \in Given /\ Safe(None) /\ Key(None) = Whole /\ Value(None) = Whole
      BY StoreAssumption DEF Given, Safe, Key, Value
    <3> QED BY <1>1, <2>1, <3>1 DEF IInv, AllKept, Kept
  <2>3. [bucket[Whole] EXCEPT !.subject = u].status = bucket[Whole].status
    BY <2>1 DEF Responses
  <2>4. id \in DOMAIN store.statuses /\ u # Garbled
    BY <1>1 DEF IInv, SameStreams, Safe
  <2>5. GetStreamStatus(store, id, u).out =
          IF Key(u) \in DOMAIN bucket THEN bucket[Key(u)] ELSE [bucket[Whole] EXCEPT !.subject = u]
    BY <2>4 DEF GetStreamStatus, Answer
  <2> QED BY <2>1, <2>2, <2>3, <2>5
<1>2. IInv => StatusFollows BY <1>1 DEF StatusFollows
<1> QED BY <1>2, IInvIsInvariant, PTL

\* ContentsFollow: membership is of JSON values, a queue keeps what was
\* enqueued, and UpdateStream touches neither (memstore.go:270-326).
THEOREM ContentsAlwaysFollow == Spec => []ContentsFollow
<1>1. IInv => ContentsFollow BY DEF IInv, AllKept, Kept, ContentsFollow, HasSubject
<1> QED BY <1>1, IInvIsInvariant, PTL
=============================================================================

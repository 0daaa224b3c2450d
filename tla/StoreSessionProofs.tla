-------------------------- MODULE StoreSessionProofs --------------------------
(***************************************************************************)
(* Proofs about programs that use the in-memory store: for every set of    *)
(* hands, documents, methods and endpoints, and every bound on minted ids. *)
(***************************************************************************)
EXTENDS StoreSession, TLAPS

-----------------------------------------------------------------------------
(* Parts of the inductive invariant *)

\* What a decoded configuration keeps of its document.
Faithful(cfg) ==
    /\ cfg.method = cfg.origin.method
    /\ cfg.carrier \in {None, cfg.origin}
    /\ cfg.carrier = None /\ cfg.origin.endpoint # None => cfg.endpoint = cfg.origin.endpoint
    /\ cfg.method \in Builtin => cfg.carrier = None /\ cfg.endpoint = cfg.origin.endpoint

\* A configuration with its type, and faithful.
Good(cfg) == cfg \in Configs /\ Faithful(cfg)

\* Every configuration is faithful, wherever it is.
GoodEverywhere ==
    /\ \A id \in DOMAIN store.streams : Good(store.streams[id])
    /\ \A h \in Hands : held[h] = None \/ Good(held[h])

\* Nobody seeds the methods of the RFCs.
BuiltinsUnseeded ==
    \A m \in Builtin : m \in DOMAIN registry /\ registry[m] = None

\* The watched block, if it is the audience of a stored stream, is nobody
\* else's, and not written to.
PrivateIn(streams, hands, dirty) ==
    \A id \in DOMAIN streams : streams[id].watch = "audience" =>
        /\ ~dirty
        /\ \A h \in Hands : hands[h] = None \/ hands[h].watch = "none"
        /\ \A other \in DOMAIN streams : other # id => streams[other].watch = "none"

\* The store copies on the way in and out.
Private == PrivateIn(store.streams, held, written)

\* What was written is still referred to.
WrittenIsWatched == written => Watched(store.streams, held)

\* The inductive invariant.
IInv ==
    /\ TypeOK /\ NoForeignStreams
    /\ GoodEverywhere /\ BuiltinsUnseeded
    /\ Private /\ WrittenIsWatched

\* Someone holds, or the store does, a carrier that is the watched block.
CarrierSeen ==
    \/ \E id \in DOMAIN store.streams : store.streams[id].watch = "carrier"
    \/ \E h \in Hands : held[h] # None /\ held[h].watch = "carrier"

\* A copy in which the only watched memory is a carrier seen before.
Unwatched(cfg) == cfg.watch = "none" \/ (cfg.watch = "carrier" /\ CarrierSeen)

-----------------------------------------------------------------------------
(* Copies *)

\* A copy is the same configuration in other memory.
LEMMA CloneIsFaithful ==
    ASSUME NEW cfg, Good(cfg), NEW watched \in BOOLEAN
    PROVE  /\ Good(CloneStreamConfig(cfg, watched))
           /\ CloneStreamConfig(cfg, watched).id = cfg.id
           /\ ~watched => CloneStreamConfig(cfg, watched).watch = IF cfg.watch = "carrier" THEN "carrier" ELSE "none"
           /\ CloneStreamConfig(cfg, watched).watch \in {"none", "audience", "carrier"}
           /\ CloneStreamConfig(cfg, watched).watch = "carrier" => cfg.watch = "carrier"
<1>1. cfg \in Configs BY DEF Good
<1>2. CASE cfg.watch = "carrier"
  BY <1>1, <1>2 DEF CloneStreamConfig
<1>3. CASE cfg.watch # "carrier"
  <2> DEFINE w == IF watched THEN "audience" ELSE "none"
  <2>1. CloneStreamConfig(cfg, watched) =
          [id |-> cfg.id, method |-> cfg.method, endpoint |-> cfg.endpoint,
           carrier |-> cfg.carrier, origin |-> cfg.origin, watch |-> w]
    BY <1>1, <1>3 DEF CloneStreamConfig, Configs
  <2>2. w \in {"none", "audience", "carrier"} /\ (~watched => w = "none") /\ w # "carrier"
    OBVIOUS
  <2> HIDE DEF w
  <2>3. CloneStreamConfig(cfg, watched) \in Configs BY <1>1, <2>1, <2>2 DEF Configs
  <2>4. Faithful(CloneStreamConfig(cfg, watched)) BY <2>1 DEF Good, Faithful
  <2> QED BY <1>3, <2>1, <2>2, <2>3, <2>4 DEF Good
<1> QED BY <1>2, <1>3

\* Naming a configuration changes nothing else.
LEMMA NamedIsFaithful ==
    ASSUME NEW cfg, Good(cfg), NEW id \in StreamIDs \cup {None}
    PROVE  /\ Good([cfg EXCEPT !.id = id])
           /\ [cfg EXCEPT !.id = id].id = id
           /\ [cfg EXCEPT !.id = id].watch = cfg.watch
<1>1. cfg \in Configs BY DEF Good
<1>2. [cfg EXCEPT !.id = id] =
        [id |-> id, method |-> cfg.method, endpoint |-> cfg.endpoint,
         carrier |-> cfg.carrier, origin |-> cfg.origin, watch |-> cfg.watch]
  BY <1>1 DEF Configs
<1>3. [cfg EXCEPT !.id = id] \in Configs BY <1>1, <1>2 DEF Configs
<1>4. Faithful([cfg EXCEPT !.id = id]) BY <1>2 DEF Good, Faithful
<1> QED BY <1>2, <1>3, <1>4 DEF Good

\* A decoded configuration is faithful.
LEMMA DecodedIsFaithful ==
    ASSUME BuiltinsUnseeded, registry \in Registries, NEW doc \in Docs,
           NEW watch \in {"none", "audience", "carrier"}
    PROVE  Good([id |-> None, method |-> Decode(registry, doc).method,
                 endpoint |-> Decode(registry, doc).endpoint,
                 carrier |-> Decode(registry, doc).carrier,
                 origin |-> doc, watch |-> watch])
<1>1. doc \in Documents /\ doc.method \in Methods /\ doc.endpoint \in Endpoints \cup {None}
  BY SessionAssumption DEF Documents
<1>2. CASE doc.method \in DOMAIN registry
  <2>1. registry[doc.method] \in Endpoints \cup {None} BY <1>2 DEF Registries
  <2>2. doc.method \in Builtin => registry[doc.method] = None BY DEF BuiltinsUnseeded
  <2> QED BY <1>1, <1>2, <2>1, <2>2, SessionAssumption
          DEF Good, Faithful, Configs, Decode, Lookup, Documents
<1>3. CASE doc.method \notin DOMAIN registry
  <2>1. doc.method \notin Builtin BY <1>3 DEF BuiltinsUnseeded
  <2> QED BY <1>1, <1>3, <2>1, SessionAssumption
          DEF Good, Faithful, Configs, Decode, Lookup, Documents
<1> QED BY <1>2, <1>3

-----------------------------------------------------------------------------
(* Memory *)

\* A step that watches no new block keeps the audience of streams private.
LEMMA PrivateWithoutNew ==
    ASSUME Private, NEW streams, NEW hands, NEW dirty,
           dirty => written,
           \A id \in DOMAIN streams :
              (id \in DOMAIN store.streams /\ streams[id] = store.streams[id]) \/ Unwatched(streams[id]),
           \A h \in Hands : hands[h] = held[h] \/ hands[h] = None \/ Unwatched(hands[h])
    PROVE  PrivateIn(streams, hands, dirty)
<1> SUFFICES ASSUME NEW id \in DOMAIN streams, streams[id].watch = "audience"
             PROVE  /\ ~dirty
                    /\ \A h \in Hands : hands[h] = None \/ hands[h].watch = "none"
                    /\ \A other \in DOMAIN streams : other # id => streams[other].watch = "none"
  BY DEF PrivateIn
<1>1. id \in DOMAIN store.streams /\ streams[id] = store.streams[id]
  BY DEF Unwatched
<1>2. /\ ~written
      /\ \A h \in Hands : held[h] = None \/ held[h].watch = "none"
      /\ \A other \in DOMAIN store.streams : other # id => store.streams[other].watch = "none"
  BY <1>1 DEF Private, PrivateIn
<1>3. ~CarrierSeen BY <1>1, <1>2 DEF CarrierSeen
<1> QED BY <1>2, <1>3 DEF Unwatched

\* A step that watches a new block finds no other, and puts it in one place.
LEMMA PrivateWithNew ==
    ASSUME WrittenIsWatched, ~Watched(store.streams, held),
           NEW streams, NEW hands, NEW dirty, dirty => written,
           \A id \in DOMAIN streams : streams[id].watch = "audience" =>
              /\ \A h \in Hands : hands[h] = None \/ hands[h].watch = "none"
              /\ \A other \in DOMAIN streams : other # id => streams[other].watch = "none"
    PROVE  PrivateIn(streams, hands, dirty)
BY DEF WrittenIsWatched, PrivateIn

\* Without a watched block every configuration has none.
LEMMA NoneWatched ==
    ASSUME ~Watched(store.streams, held)
    PROVE  /\ \A id \in DOMAIN store.streams : store.streams[id].watch = "none"
           /\ \A h \in Hands : held[h] = None \/ held[h].watch = "none"
           /\ ~CarrierSeen
BY DEF Watched, CarrierSeen

-----------------------------------------------------------------------------
(* The store *)

\* A store of new streams, as StoreOK says it.
ShapeOf(s) ==
    /\ s = [streams |-> s.streams, statuses |-> s.statuses,
            subjects |-> s.subjects, queues |-> s.queues, nextID |-> s.nextID]
    /\ DOMAIN s.streams \subseteq StreamIDs
    /\ s.streams \in [DOMAIN s.streams -> Configs]
    /\ s.statuses = [id \in DOMAIN s.streams |-> EmptyStatus]
    /\ s.subjects = [id \in DOMAIN s.streams |-> {}]
    /\ s.queues = [id \in DOMAIN s.streams |-> <<>>]
    /\ s.nextID \in 0..MaxMint

\* What Put makes of a map.
LEMMA PutIsFunction ==
    ASSUME NEW f, NEW k, NEW v
    PROVE  /\ DOMAIN Put(f, k, v) = DOMAIN f \cup {k}
           /\ Put(f, k, v)[k] = v
           /\ \A x \in DOMAIN f : x # k => Put(f, k, v)[x] = f[x]
           /\ \A x \in DOMAIN f \cup {k} : Put(f, k, v)[x] = IF x = k THEN v ELSE f[x]
           /\ Put(f, k, v) = [x \in DOMAIN f \cup {k} |-> Put(f, k, v)[x]]
BY DEF Put

\* A stream is seeded with all its entries.
LEMMA SeededShape ==
    ASSUME ShapeOf(store), NEW cfg \in Configs, cfg.id \in StreamIDs,
           NEW nextID \in 0..MaxMint
    PROVE  /\ ShapeOf(Seeded(store, cfg, nextID))
           /\ Seeded(store, cfg, nextID).streams = Put(store.streams, cfg.id, cfg)
           /\ Seeded(store, cfg, nextID).nextID = nextID
<1> DEFINE s == Seeded(store, cfg, nextID)
<1>1. /\ s.streams = Put(store.streams, cfg.id, cfg)
      /\ s.statuses = Put(store.statuses, cfg.id, EmptyStatus)
      /\ s.subjects = Put(store.subjects, cfg.id, {})
      /\ s.queues = Put(store.queues, cfg.id, <<>>)
      /\ s.nextID = nextID
      /\ s = [streams |-> s.streams, statuses |-> s.statuses,
              subjects |-> s.subjects, queues |-> s.queues, nextID |-> s.nextID]
  BY DEF Seeded
<1>2. DOMAIN s.streams = DOMAIN store.streams \cup {cfg.id}
  BY <1>1 DEF Put
<1>3. s.streams \in [DOMAIN s.streams -> Configs]
  BY <1>1, <1>2 DEF Put, ShapeOf
<1>4. s.statuses = [id \in DOMAIN s.streams |-> EmptyStatus]
  BY <1>1, <1>2 DEF Put, ShapeOf
<1>5. s.subjects = [id \in DOMAIN s.streams |-> {}]
  BY <1>1, <1>2 DEF Put, ShapeOf
<1>6. s.queues = [id \in DOMAIN s.streams |-> <<>>]
  BY <1>1, <1>2 DEF Put, ShapeOf
<1>7. DOMAIN s.streams \subseteq StreamIDs BY <1>2 DEF ShapeOf
<1> HIDE DEF s
<1>8. ShapeOf(s) BY <1>1, <1>3, <1>4, <1>5, <1>6, <1>7 DEF ShapeOf
<1> QED BY <1>1, <1>8 DEF s

\* CreateStream refuses and changes nothing, or puts the configuration under
\* the id it was given or the next one.
LEMMA CreatedStore ==
    ASSUME ShapeOf(store), NEW cfg, Good(cfg), cfg.id = None => store.nextID < MaxMint
    PROVE  LET result == CreateStream(store, cfg)
               id == IF cfg.id = None THEN MintedID(store) ELSE cfg.id
           IN  \/ /\ result.err # "nil" /\ result.store = store
                  /\ cfg.id # None /\ cfg.id \in DOMAIN store.streams
               \/ /\ result.err = "nil"
                  /\ ShapeOf(result.store)
                  /\ Good(result.out) /\ result.out.id = id /\ id \in StreamIDs
                  /\ result.out.watch = cfg.watch
                  /\ result.store.streams = Put(store.streams, id, result.out)
                  /\ result.store.nextID = IF cfg.id = None THEN id ELSE store.nextID
                  /\ cfg.id # None => cfg.id \notin DOMAIN store.streams
<1>1. cfg \in Configs /\ cfg.id \in StreamIDs \cup {None} BY DEF Good, Configs
<1>2. store.nextID \in 0..MaxMint BY DEF ShapeOf
<1>3. CASE cfg.id = None
  <2>1. /\ store.nextID + 1 \in 0..MaxMint /\ store.nextID + 1 \in StreamIDs
        /\ MintedID(store) = store.nextID + 1
    BY <1>2, <1>3, StoreAssumption DEF MintedID, StreamIDs, Minted
  <2> DEFINE stored == [cfg EXCEPT !.id = MintedID(store)]
  <2>2. Good(stored) /\ stored.id = MintedID(store) /\ stored.watch = cfg.watch
    BY <2>1, NamedIsFaithful
  <2>3. CreateStream(store, cfg) = Answer(Seeded(store, stored, store.nextID + 1), "nil", stored)
    BY <1>3 DEF CreateStream
  <2> HIDE DEF stored
  <2>4. stored \in Configs /\ stored.id \in StreamIDs BY <2>1, <2>2 DEF Good
  <2>5. /\ ShapeOf(Seeded(store, stored, store.nextID + 1))
        /\ Seeded(store, stored, store.nextID + 1).streams = Put(store.streams, stored.id, stored)
        /\ Seeded(store, stored, store.nextID + 1).nextID = store.nextID + 1
    BY <2>1, <2>4, SeededShape
  <2> QED BY <1>3, <2>1, <2>2, <2>3, <2>5 DEF Answer
<1>4. CASE cfg.id # None /\ cfg.id \in DOMAIN store.streams
  BY <1>4 DEF CreateStream, Refuse, Answer
<1>5. CASE cfg.id # None /\ cfg.id \notin DOMAIN store.streams
  <2>1. CreateStream(store, cfg) = Answer(Seeded(store, cfg, store.nextID), "nil", cfg)
    BY <1>5 DEF CreateStream
  <2>2. /\ ShapeOf(Seeded(store, cfg, store.nextID))
        /\ Seeded(store, cfg, store.nextID).streams = Put(store.streams, cfg.id, cfg)
        /\ Seeded(store, cfg, store.nextID).nextID = store.nextID
    BY <1>1, <1>2, <1>5, SeededShape
  <2> QED BY <1>1, <1>5, <2>1, <2>2 DEF Answer
<1> QED BY <1>3, <1>4, <1>5

\* UpdateStream refuses and changes nothing, or replaces a configuration.
LEMMA UpdatedStore ==
    ASSUME ShapeOf(store), NEW cfg, Good(cfg)
    PROVE  LET result == UpdateStream(store, cfg)
           IN  \/ result.err # "nil" /\ result.store = store
               \/ /\ result.err = "nil" /\ result.out = cfg
                  /\ ShapeOf(result.store)
                  /\ cfg.id \in DOMAIN store.streams
                  /\ result.store.streams = Put(store.streams, cfg.id, cfg)
                  /\ result.store.nextID = store.nextID
<1>1. cfg \in Configs BY DEF Good
<1>2. CASE cfg.id \notin DOMAIN store.streams
  BY <1>2 DEF UpdateStream, Refuse, Answer
<1>3. CASE cfg.id \in DOMAIN store.streams
  <2> DEFINE s == [store EXCEPT !.streams = Put(@, cfg.id, cfg)]
  <2>1. UpdateStream(store, cfg) = Answer(s, "nil", cfg) BY <1>3 DEF UpdateStream
  <2>2. s = [streams |-> Put(store.streams, cfg.id, cfg), statuses |-> store.statuses,
             subjects |-> store.subjects, queues |-> store.queues, nextID |-> store.nextID]
    <3>1. PICK a, b, c, d, e : store = [streams |-> a, statuses |-> b, subjects |-> c, queues |-> d, nextID |-> e]
      BY DEF ShapeOf
    <3> QED BY <3>1
  <2> HIDE DEF s
  <2>3. DOMAIN s.streams = DOMAIN store.streams BY <1>3, <2>2 DEF Put
  <2>4. s.streams \in [DOMAIN s.streams -> Configs]
    BY <1>1, <1>3, <2>2, <2>3 DEF Put, ShapeOf
  <2>5. ShapeOf(s) BY <2>2, <2>3, <2>4 DEF ShapeOf
  <2>6. UpdateStream(store, cfg) = Answer(s, "nil", cfg) BY <2>1 DEF s
  <2> QED BY <1>3, <2>2, <2>5, <2>6 DEF Answer
<1> QED BY <1>2, <1>3

\* DeleteStream takes the entries of a stream from all the maps.
LEMMA DeletedStore ==
    ASSUME ShapeOf(store), NEW id \in StreamIDs
    PROVE  LET result == DeleteStream(store, id).store
           IN  /\ ShapeOf(result)
               /\ DOMAIN result.streams = DOMAIN store.streams \ {id}
               /\ \A x \in DOMAIN result.streams : result.streams[x] = store.streams[x]
               /\ result.nextID = store.nextID
<1> DEFINE s == DeleteStream(store, id).store
<1>1. s = [streams |-> Drop(store.streams, id), statuses |-> Drop(store.statuses, id),
           subjects |-> Drop(store.subjects, id), queues |-> Drop(store.queues, id),
           nextID |-> store.nextID]
  BY DEF ShapeOf, DeleteStream, Answer
<1> HIDE DEF s
<1>2. s.streams = Drop(store.streams, id) /\ s.nextID = store.nextID BY <1>1
<1>3. DOMAIN s.streams = DOMAIN store.streams \ {id} BY <1>2 DEF Drop
<1>4. \A x \in DOMAIN s.streams : s.streams[x] = store.streams[x] BY <1>2 DEF Drop
<1>5. s.streams \in [DOMAIN s.streams -> Configs] BY <1>2 DEF Drop, ShapeOf
<1>6. s.statuses = [x \in DOMAIN s.streams |-> EmptyStatus] BY <1>1 DEF Drop, ShapeOf
<1>7. s.subjects = [x \in DOMAIN s.streams |-> {}] BY <1>1 DEF Drop, ShapeOf
<1>8. s.queues = [x \in DOMAIN s.streams |-> <<>>] BY <1>1 DEF Drop, ShapeOf
<1>9. ShapeOf(s) BY <1>1, <1>3, <1>5, <1>6, <1>7, <1>8 DEF ShapeOf
<1> QED BY <1>2, <1>3, <1>4, <1>9 DEF s

-----------------------------------------------------------------------------
(* Steps *)

\* NewInMemoryStore starts empty, beside the built-in methods.
LEMMA InitIInv == Init => IInv
<1> SUFFICES ASSUME Init PROVE IInv OBVIOUS
<1>1. /\ store = [streams |-> EmptyMap, statuses |-> EmptyMap, subjects |-> EmptyMap,
                  queues |-> EmptyMap, nextID |-> 0]
      /\ DOMAIN EmptyMap = {}
      /\ EmptyMap = [x \in {} |-> EmptyStatus] /\ EmptyMap = [x \in {} |-> {}]
      /\ EmptyMap = [x \in {} |-> <<>>]
  BY DEF Init, EmptyStore, EmptyMap
<1>2. StoreOK
  <2>1. store.streams = EmptyMap /\ store.statuses = EmptyMap /\ store.subjects = EmptyMap
        /\ store.queues = EmptyMap /\ store.nextID = 0
    BY <1>1
  <2>2. EmptyMap \in [{} -> Configs] BY DEF EmptyMap
  <2>3. store = [streams |-> store.streams, statuses |-> store.statuses,
                 subjects |-> store.subjects, queues |-> store.queues, nextID |-> store.nextID]
    BY <1>1, <2>1
  <2> QED BY <1>1, <2>1, <2>2, <2>3, StoreAssumption DEF StoreOK
<1>3. registry \in Registries
  <2>1. registry \in [Builtin -> Endpoints \cup {None}] BY DEF Init, BuiltinDeliveryMethods
  <2>2. Builtin \in SUBSET Methods BY DEF Methods
  <2> QED BY <2>1, <2>2 DEF Registries
<1>4. TypeOK BY <1>2, <1>3 DEF Init, TypeOK
<1>5. DOMAIN store.streams = {} BY <1>1
<1>6. NoForeignStreams BY <1>5 DEF NoForeignStreams
<1>7. GoodEverywhere BY <1>5 DEF Init, GoodEverywhere
<1>8. BuiltinsUnseeded BY DEF Init, BuiltinsUnseeded, BuiltinDeliveryMethods
<1>9. Private BY <1>5 DEF Private, PrivateIn
<1>10. WrittenIsWatched BY DEF Init, WrittenIsWatched
<1> QED BY <1>4, <1>6, <1>7, <1>8, <1>9, <1>10 DEF IInv

\* The memory of the store and the hands, and what is in it.
MemoryOK ==
    /\ GoodEverywhere /\ Private /\ WrittenIsWatched
    /\ held \in [Hands -> Configs \cup {None}]
    /\ written \in BOOLEAN

\* A hand gets a configuration and the store keeps its own: decoding and
\* reading.
LEMMA HandStep ==
    ASSUME IInv, NEW h \in Hands, NEW cfg, Good(cfg),
           Unwatched(cfg) \/ ~Watched(store.streams, held),
           held' = [held EXCEPT ![h] = cfg], store' = store, Settle
    PROVE  MemoryOK'
<1>1. held \in [Hands -> Configs \cup {None}] /\ cfg \in Configs /\ written \in BOOLEAN
  BY DEF IInv, TypeOK, Good
<1>2. \A g \in Hands : held'[g] = IF g = h THEN cfg ELSE held[g] BY <1>1
<1>3. held' \in [Hands -> Configs \cup {None}] BY <1>1
<1>4. GoodEverywhere' BY <1>2 DEF IInv, GoodEverywhere
<1>5. (written' => written) /\ WrittenIsWatched' /\ written' \in BOOLEAN
  BY <1>1 DEF Settle, WrittenIsWatched
<1>6. Private'
  <2>1. CASE Unwatched(cfg)
    <3>1. PrivateIn(store'.streams, held', written')
      BY <1>2, <1>5, <2>1, PrivateWithoutNew DEF IInv
    <3> QED BY <3>1 DEF Private
  <2>2. CASE ~Watched(store.streams, held)
    <3>1. \A id \in DOMAIN store'.streams : store'.streams[id].watch = "none"
      BY <2>2, NoneWatched
    <3>2. PrivateIn(store'.streams, held', written')
      BY <3>1 DEF PrivateIn
    <3> QED BY <3>2 DEF Private
  <2> QED BY <2>1, <2>2
<1> QED BY <1>3, <1>4, <1>5, <1>6 DEF MemoryOK

\* The store keeps one copy and a hand may get another: creating and updating.
LEMMA CopyStep ==
    ASSUME IInv, NEW h \in Hands, held[h] # None,
           NEW stored \in BOOLEAN, NEW returned \in BOOLEAN, ~(stored /\ returned),
           MayWatch(stored \/ returned),
           NEW out, Good(out), out.watch = CloneStreamConfig(held[h], stored).watch,
           NEW id, store'.streams = Put(store.streams, id, out),
           held' = held \/ held' = [held EXCEPT ![h] = CloneStreamConfig(out, returned)],
           Settle
    PROVE  MemoryOK'
<1> DEFINE back == CloneStreamConfig(out, returned)
<1>1. held \in [Hands -> Configs \cup {None}] /\ written \in BOOLEAN /\ Good(held[h])
  BY DEF IInv, TypeOK, GoodEverywhere
<1>2. /\ Good(back)
      /\ ~returned => back.watch = IF out.watch = "carrier" THEN "carrier" ELSE "none"
      /\ back.watch = "carrier" => out.watch = "carrier"
  BY CloneIsFaithful
<1>3. /\ ~stored => out.watch = IF held[h].watch = "carrier" THEN "carrier" ELSE "none"
      /\ out.watch \in {"none", "audience", "carrier"}
      /\ out.watch = "carrier" => held[h].watch = "carrier"
  BY <1>1, CloneIsFaithful
<1> HIDE DEF back
<1>4. \A g \in Hands : held'[g] = held[g] \/ (g = h /\ held'[g] = back)
  BY <1>1 DEF back
<1>5. held' \in [Hands -> Configs \cup {None}] BY <1>1, <1>2 DEF back, Good
<1>6. /\ DOMAIN store'.streams = DOMAIN store.streams \cup {id}
      /\ \A x \in DOMAIN store'.streams : store'.streams[x] = IF x = id THEN out ELSE store.streams[x]
  BY DEF Put
<1>7. GoodEverywhere' BY <1>2, <1>4, <1>6 DEF IInv, GoodEverywhere
<1>8. (written' => written) /\ WrittenIsWatched' /\ written' \in BOOLEAN
  BY <1>1 DEF Settle, WrittenIsWatched
<1>9. Private'
  <2>1. CASE ~stored /\ ~returned
    <3>0. held[h].watch = "carrier" => CarrierSeen BY DEF CarrierSeen
    <3>1. Unwatched(out)
      BY <1>3, <2>1, <3>0 DEF Unwatched
    <3>2. Unwatched(back) BY <1>2, <2>1, <3>1 DEF Unwatched
    <3>3. PrivateIn(store'.streams, held', written')
      BY <1>4, <1>6, <1>8, <3>1, <3>2, PrivateWithoutNew DEF IInv
    <3> QED BY <3>3 DEF Private
  <2>2. CASE stored \/ returned
    <3>1. ~Watched(store.streams, held) BY <2>2 DEF MayWatch
    <3>2. /\ \A x \in DOMAIN store.streams : store.streams[x].watch = "none"
          /\ \A g \in Hands : held[g] = None \/ held[g].watch = "none"
      BY <3>1, NoneWatched
    <3>3. out.watch # "carrier" /\ (out.watch = "audience" => ~returned)
      BY <1>3, <2>2, <3>2
    <3>4. out.watch = "audience" => back.watch = "none" BY <1>2, <3>3
    <3>5. \A x \in DOMAIN store'.streams : store'.streams[x].watch = "audience" =>
              /\ \A g \in Hands : held'[g] = None \/ held'[g].watch = "none"
              /\ \A other \in DOMAIN store'.streams : other # x => store'.streams[other].watch = "none"
      BY <1>4, <1>6, <3>2, <3>4
    <3>6. PrivateIn(store'.streams, held', written')
      BY <1>8, <3>1, <3>5, PrivateWithNew DEF IInv
    <3> QED BY <3>6 DEF Private
  <2> QED BY <2>1, <2>2
<1> QED BY <1>5, <1>7, <1>8, <1>9 DEF MemoryOK

\* What the steps that only read the store, or decode, have in common.
LEMMA ReadStep ==
    ASSUME IInv, NEW h \in Hands, NEW cfg, Good(cfg),
           Unwatched(cfg) \/ ~Watched(store.streams, held),
           held' = [held EXCEPT ![h] = cfg], UNCHANGED <<store, registry, named>>, Settle
    PROVE  IInv'
<1>1. MemoryOK' BY HandStep
<1>2. TypeOK' BY <1>1 DEF IInv, TypeOK, StoreOK, MemoryOK
<1>3. NoForeignStreams' /\ BuiltinsUnseeded' BY DEF IInv, NoForeignStreams, BuiltinsUnseeded
<1> QED BY <1>1, <1>2, <1>3 DEF IInv, MemoryOK

\* A configuration that is decoded is faithful, and its block is new.
LEMMA LoadStep ==
    ASSUME IInv, NEW h \in Hands, NEW doc \in Docs, NEW watch \in {"none", "audience", "carrier"},
           Load(h, doc, watch)
    PROVE  IInv'
<1> DEFINE cfg == [id |-> None, method |-> Decode(registry, doc).method,
                   endpoint |-> Decode(registry, doc).endpoint,
                   carrier |-> Decode(registry, doc).carrier, origin |-> doc, watch |-> watch]
<1>1. Good(cfg) BY DecodedIsFaithful DEF IInv, TypeOK
<1>2. cfg.watch = "none" \/ ~Watched(store.streams, held) BY DEF Load, MayWatch
<1>3. held' = [held EXCEPT ![h] = cfg] /\ UNCHANGED <<store, registry, named>> /\ Settle
  BY DEF Load
<1> HIDE DEF cfg
<1> QED BY <1>1, <1>2, <1>3, ReadStep DEF Unwatched

\* A stored stream comes out as a copy.
LEMMA ReadCopyStep ==
    ASSUME IInv, NEW h \in Hands, NEW watched \in BOOLEAN, MayWatch(watched),
           NEW id \in DOMAIN store.streams,
           held' = [held EXCEPT ![h] = CloneStreamConfig(store.streams[id], watched)],
           UNCHANGED <<store, registry, named>>, Settle
    PROVE  IInv'
<1> DEFINE cfg == CloneStreamConfig(store.streams[id], watched)
<1>1. /\ Good(cfg)
      /\ ~watched => cfg.watch = IF store.streams[id].watch = "carrier" THEN "carrier" ELSE "none"
  BY CloneIsFaithful DEF IInv, GoodEverywhere
<1> HIDE DEF cfg
<1>2. store.streams[id].watch = "carrier" => CarrierSeen BY DEF CarrierSeen
<1>3. Unwatched(cfg) \/ ~Watched(store.streams, held)
  BY <1>1, <1>2 DEF Unwatched, MayWatch
<1>4. held' = [held EXCEPT ![h] = cfg] BY DEF cfg
<1> QED BY <1>1, <1>3, <1>4, ReadStep

\* A call that hands nothing back only lets go of memory.
LEMMA SettledStep ==
    ASSUME IInv, UNCHANGED <<store, registry, held, named>>, Settle
    PROVE  IInv'
<1>1. written' = written BY DEF Settle, IInv, WrittenIsWatched, TypeOK
<1> QED BY <1>1 DEF IInv, TypeOK, StoreOK, NoForeignStreams, GoodEverywhere, BuiltinsUnseeded,
                    Private, WrittenIsWatched

\* GetStream returns a copy.
LEMMA GetStep ==
    ASSUME IInv, NEW h \in Hands, NEW id \in StreamIDs, NEW watched \in BOOLEAN, Get(h, id, watched)
    PROVE  IInv'
<1>1. CASE id \in DOMAIN store.streams
  <2>1. held' = [held EXCEPT ![h] = CloneStreamConfig(store.streams[id], watched)]
    BY <1>1 DEF Get, Receive, GetStream, Answer
  <2> QED BY <1>1, <2>1, ReadCopyStep DEF Get
<1>2. CASE id \notin DOMAIN store.streams
  <2>1. held' = held BY <1>2 DEF Get, Receive, GetStream, Refuse, Answer
  <2> QED BY <2>1, SettledStep DEF Get
<1> QED BY <1>1, <1>2

\* ListStreams returns copies.
LEMMA ListStep ==
    ASSUME IInv, NEW h \in Hands, NEW watched \in BOOLEAN, List(h, watched)
    PROVE  IInv'
<1>1. PICK cfg \in ListStreams(store).out : held' = [held EXCEPT ![h] = CloneStreamConfig(cfg, watched)]
  BY DEF List
<1>2. PICK id \in DOMAIN store.streams : cfg = store.streams[id]
  BY DEF ListStreams, Answer
<1> QED BY <1>1, <1>2, ReadCopyStep DEF List

\* Assigning an id changes nothing but the id.
LEMMA NameStep ==
    ASSUME IInv, NEW h \in Hands, NEW id \in StreamIDs \cup {None}, Name(h, id)
    PROVE  IInv'
<1> DEFINE cfg == [held[h] EXCEPT !.id = id]
<1>1. held \in [Hands -> Configs \cup {None}] /\ Good(held[h])
  BY DEF IInv, TypeOK, GoodEverywhere, Name, Holds
<1>2. Good(cfg) /\ cfg.watch = held[h].watch BY <1>1, NamedIsFaithful
<1> HIDE DEF cfg
<1>3. held' = [held EXCEPT ![h] = cfg] /\ held[h] # None /\ UNCHANGED <<store, registry, written, named>>
  BY DEF Name, Holds, cfg
<1>4. \A g \in Hands : held'[g] = IF g = h THEN cfg ELSE held[g] BY <1>1, <1>3
<1>5. TypeOK' BY <1>1, <1>2, <1>3 DEF IInv, TypeOK, StoreOK, Good
<1>6. GoodEverywhere' BY <1>2, <1>3, <1>4 DEF IInv, GoodEverywhere
<1>7. Private' BY <1>2, <1>3, <1>4 DEF IInv, Private, PrivateIn
<1>8. WrittenIsWatched'
  <2> SUFFICES ASSUME written PROVE Watched(store.streams, held')
    BY <1>3 DEF WrittenIsWatched
  <2>1. CASE \E x \in DOMAIN store.streams : store.streams[x].watch # "none"
    BY <2>1 DEF Watched
  <2>2. CASE \E g \in Hands : held[g] # None /\ held[g].watch # "none"
    <3>1. PICK g \in Hands : held[g] # None /\ held[g].watch # "none" BY <2>2
    <3>2. CASE g # h BY <1>4, <3>1, <3>2 DEF Watched
    <3>3. CASE g = h
      <4>1. cfg # None
        <5>1. cfg.watch # "none" BY <1>2, <3>1, <3>3
        <5> QED BY <1>2, SessionAssumption DEF Good
      <4> QED BY <1>2, <1>4, <3>1, <3>3, <4>1 DEF Watched
    <3> QED BY <3>2, <3>3
  <2> QED BY <2>1, <2>2 DEF IInv, WrittenIsWatched, Watched
<1>9. NoForeignStreams' /\ BuiltinsUnseeded'
  BY <1>3 DEF IInv, NoForeignStreams, BuiltinsUnseeded
<1> QED BY <1>5, <1>6, <1>7, <1>8, <1>9 DEF IInv

\* A caller writes to memory it holds, which no stored audience is.
LEMMA WriteStep ==
    ASSUME IInv, NEW h \in Hands, Write(h)
    PROVE  IInv'
<1>1. /\ held[h] # None /\ held[h].watch # "none" /\ written' = TRUE
      /\ UNCHANGED <<store, registry, held, named>>
  BY DEF Write, Holds
<1>2. Private' BY <1>1 DEF IInv, Private, PrivateIn
<1>3. WrittenIsWatched' BY <1>1 DEF WrittenIsWatched, Watched
<1>4. TypeOK' /\ NoForeignStreams' /\ GoodEverywhere' /\ BuiltinsUnseeded'
  BY <1>1 DEF IInv, TypeOK, StoreOK, NoForeignStreams, GoodEverywhere, BuiltinsUnseeded
<1> QED BY <1>2, <1>3, <1>4 DEF IInv

\* The shape of the store is its type.
LEMMA ShapeIsStoreOK == StoreOK <=> ShapeOf(store)
BY DEF StoreOK, ShapeOf

\* The same of the store after a step.
LEMMA ShapeIsStoreOKNext == ShapeOf(store') => StoreOK'
BY DEF StoreOK, ShapeOf

\* CreateStream copies what it is given, stores it under an id that is minted
\* or chosen, and returns another copy.
LEMMA CreateStep ==
    ASSUME IInv, NEW h \in Hands, NEW watch \in Copies, NEW kept \in BOOLEAN, Create(h, watch, kept)
    PROVE  IInv'
<1> DEFINE cfg == CloneStreamConfig(held[h], watch.stored)
           result == CreateStream(store, cfg)
           id == NewID(h)
<1>1. watch.stored \in BOOLEAN /\ watch.returned \in BOOLEAN /\ ~(watch.stored /\ watch.returned)
  BY DEF Copies
<1>2. held[h] # None /\ Good(held[h]) BY DEF Create, Holds, IInv, GoodEverywhere
<1>3. Good(cfg) /\ cfg.id = held[h].id BY <1>1, <1>2, CloneIsFaithful
<1>4. ShapeOf(store) BY ShapeIsStoreOK DEF IInv, TypeOK
<1>5. cfg.id = None => store.nextID < MaxMint BY <1>3 DEF Create
<1>6. id = IF cfg.id = None THEN MintedID(store) ELSE cfg.id BY <1>3 DEF NewID
<1>7. /\ store' = result.store /\ UNCHANGED registry /\ Settle
      /\ MayWatch(watch.stored \/ watch.returned)
      /\ named' = IF result.err # "nil" THEN named
                  ELSE IF cfg.id = None THEN named \ {id} ELSE named \cup {cfg.id}
      /\ Receive(h, result, kept, watch.returned)
  BY <1>3 DEF Create
<1>8. \/ result.err # "nil" /\ result.store = store
      \/ /\ result.err = "nil"
         /\ ShapeOf(result.store)
         /\ Good(result.out) /\ result.out.id = id /\ id \in StreamIDs
         /\ result.out.watch = cfg.watch
         /\ result.store.streams = Put(store.streams, id, result.out)
         /\ result.store.nextID = IF cfg.id = None THEN id ELSE store.nextID
  <2> HIDE DEF cfg
  <2> QED BY <1>3, <1>4, <1>5, <1>6, CreatedStore DEF id
<1> HIDE DEF id, result
<1>9. CASE result.err # "nil" /\ result.store = store
  <2>1. held' = held BY <1>7, <1>9 DEF Receive
  <2>2. UNCHANGED <<store, registry, held, named>> BY <1>7, <1>9, <2>1
  <2> QED BY <1>7, <2>2, SettledStep
<1>10. CASE /\ result.err = "nil"
            /\ ShapeOf(result.store)
            /\ Good(result.out) /\ result.out.id = id /\ id \in StreamIDs
            /\ result.out.watch = cfg.watch
            /\ result.store.streams = Put(store.streams, id, result.out)
            /\ result.store.nextID = IF cfg.id = None THEN id ELSE store.nextID
  <2>1. store'.streams = Put(store.streams, id, result.out) BY <1>7, <1>10
  <2>2. held' = held \/ held' = [held EXCEPT ![h] = CloneStreamConfig(result.out, watch.returned)]
    BY <1>7 DEF Receive
  <2>3. MemoryOK' BY <1>1, <1>2, <1>7, <1>10, <2>1, <2>2, CopyStep
  <2>4. StoreOK' BY <1>7, <1>10, ShapeIsStoreOKNext
  <2>5. TypeOK'
    <3>1. named' \subseteq StreamIDs
      BY <1>7, <1>10, <1>6 DEF IInv, TypeOK
    <3> QED BY <1>7, <2>3, <2>4, <3>1 DEF IInv, TypeOK, MemoryOK
  <2>6. NoForeignStreams'
    <3> SUFFICES ASSUME NEW x \in DOMAIN store'.streams
                 PROVE  store'.streams[x].id = x /\ (x \in named' \/ x \in 1..store'.nextID)
      BY DEF NoForeignStreams
    <3>1. store.nextID \in Nat BY <1>4, StoreAssumption DEF ShapeOf
    <3>2. CASE x = id
      <4>1. store'.streams[x].id = id BY <1>10, <2>1, <3>2, PutIsFunction DEF Put
      <4>2. x \in named' \/ x \in 1..store'.nextID
        BY <1>6, <1>7, <1>10, <3>1, <3>2 DEF MintedID
      <4> QED BY <3>2, <4>1, <4>2
    <3>3. CASE x # id
      <4>1. x \in DOMAIN store.streams /\ store'.streams[x] = store.streams[x]
        BY <2>1, <3>3 DEF Put
      <4>2. store.streams[x].id = x /\ (x \in named \/ x \in 1..store.nextID)
        BY <4>1 DEF IInv, NoForeignStreams
      <4>3. x \in named => x \in named' BY <1>7, <3>3
      <4>4. x \in 1..store.nextID => x \in 1..store'.nextID
        BY <1>6, <1>7, <1>10, <3>1 DEF MintedID
      <4> QED BY <4>1, <4>2, <4>3, <4>4
    <3> QED BY <3>2, <3>3
  <2>7. BuiltinsUnseeded' BY <1>7 DEF IInv, BuiltinsUnseeded
  <2> QED BY <2>3, <2>5, <2>6, <2>7 DEF IInv, MemoryOK
<1> QED BY <1>8, <1>9, <1>10

\* UpdateStream replaces one stream by a copy.
LEMMA UpdateStep ==
    ASSUME IInv, NEW h \in Hands, NEW watch \in Copies, NEW kept \in BOOLEAN, Update(h, watch, kept)
    PROVE  IInv'
<1> DEFINE cfg == CloneStreamConfig(held[h], watch.stored)
           result == UpdateStream(store, cfg)
<1>1. watch.stored \in BOOLEAN /\ watch.returned \in BOOLEAN /\ ~(watch.stored /\ watch.returned)
  BY DEF Copies
<1>2. held[h] # None /\ Good(held[h]) BY DEF Update, Holds, IInv, GoodEverywhere
<1>3. Good(cfg) BY <1>1, <1>2, CloneIsFaithful
<1>4. ShapeOf(store) BY ShapeIsStoreOK DEF IInv, TypeOK
<1>5. /\ store' = result.store /\ UNCHANGED <<registry, named>> /\ Settle
      /\ MayWatch(watch.stored \/ watch.returned)
      /\ Receive(h, result, kept, watch.returned)
  BY DEF Update
<1>6. \/ result.err # "nil" /\ result.store = store
      \/ /\ result.err = "nil" /\ result.out = cfg
         /\ ShapeOf(result.store)
         /\ cfg.id \in DOMAIN store.streams
         /\ result.store.streams = Put(store.streams, cfg.id, cfg)
         /\ result.store.nextID = store.nextID
  <2> HIDE DEF cfg
  <2> QED BY <1>3, <1>4, UpdatedStore
<1> HIDE DEF result
<1>7. CASE result.err # "nil" /\ result.store = store
  <2>1. held' = held BY <1>5, <1>7 DEF Receive
  <2> QED BY <1>5, <1>7, <2>1, SettledStep
<1>8. CASE /\ result.err = "nil" /\ result.out = cfg
           /\ ShapeOf(result.store)
           /\ cfg.id \in DOMAIN store.streams
           /\ result.store.streams = Put(store.streams, cfg.id, cfg)
           /\ result.store.nextID = store.nextID
  <2>1. store'.streams = Put(store.streams, cfg.id, cfg) BY <1>5, <1>8
  <2>2. held' = held \/ held' = [held EXCEPT ![h] = CloneStreamConfig(cfg, watch.returned)]
    BY <1>5, <1>8 DEF Receive
  <2>3. MemoryOK' BY <1>1, <1>2, <1>3, <1>5, <2>1, <2>2, CopyStep
  <2>4. StoreOK' BY <1>5, <1>8, ShapeIsStoreOKNext
  <2>5. TypeOK' BY <1>5, <2>3, <2>4 DEF IInv, TypeOK, MemoryOK
  <2> HIDE DEF cfg
  <2>6. NoForeignStreams'
    <3> SUFFICES ASSUME NEW x \in DOMAIN store'.streams
                 PROVE  store'.streams[x].id = x /\ (x \in named' \/ x \in 1..store'.nextID)
      BY DEF NoForeignStreams
    <3>1. x \in DOMAIN store.streams BY <1>8, <2>1 DEF Put
    <3>2. store'.streams[x] = IF x = cfg.id THEN cfg ELSE store.streams[x]
      BY <2>1, <3>1 DEF Put
    <3>3. store.streams[x].id = x /\ (x \in named \/ x \in 1..store.nextID)
      BY <3>1 DEF IInv, NoForeignStreams
    <3> QED BY <1>5, <1>8, <3>2, <3>3
  <2>7. BuiltinsUnseeded' BY <1>5 DEF IInv, BuiltinsUnseeded
  <2> QED BY <2>3, <2>5, <2>6, <2>7 DEF IInv, MemoryOK
<1> QED BY <1>6, <1>7, <1>8

\* DeleteStream takes one stream away.
LEMMA DeleteStep ==
    ASSUME IInv, NEW id \in StreamIDs, Delete(id)
    PROVE  IInv'
<1>1. /\ store' = DeleteStream(store, id).store /\ named' = named \ {id}
      /\ UNCHANGED <<registry, held>> /\ Settle
  BY DEF Delete
<1>2. /\ ShapeOf(store')
      /\ DOMAIN store'.streams = DOMAIN store.streams \ {id}
      /\ \A x \in DOMAIN store'.streams : store'.streams[x] = store.streams[x]
      /\ store'.nextID = store.nextID
  BY <1>1, ShapeIsStoreOK, DeletedStore DEF IInv, TypeOK
<1>3. (written' => written) /\ written' \in BOOLEAN /\ WrittenIsWatched'
  BY <1>1 DEF Settle, IInv, TypeOK, WrittenIsWatched
<1>4. TypeOK' BY <1>1, <1>2, <1>3, ShapeIsStoreOKNext DEF IInv, TypeOK
<1>5. NoForeignStreams' BY <1>1, <1>2 DEF IInv, NoForeignStreams
<1>6. GoodEverywhere' /\ BuiltinsUnseeded' BY <1>1, <1>2 DEF IInv, GoodEverywhere, BuiltinsUnseeded
<1>7. Private'
  <2>1. PrivateIn(store'.streams, held', written')
    BY <1>1, <1>2, <1>3, PrivateWithoutNew DEF IInv
  <2> QED BY <2>1 DEF Private
<1> QED BY <1>3, <1>4, <1>5, <1>6, <1>7 DEF IInv

\* RegisterDeliveryMethod refuses the built-in methods.
LEMMA RegisterStep ==
    ASSUME IInv, NEW method \in Methods, NEW seed \in Endpoints \cup {None},
           RegisterDeliveryMethod(method, seed)
    PROVE  IInv'
<1>1. registry' = Register(registry, method, seed) /\ UNCHANGED <<store, held, written, named>>
  BY DEF RegisterDeliveryMethod
<1>2. PICK known \in SUBSET Methods : registry \in [known -> Endpoints \cup {None}]
  BY DEF IInv, TypeOK, Registries
<1>3. registry' \in Registries /\ BuiltinsUnseeded'
  <2>1. CASE method \in Builtin
    BY <1>1, <2>1 DEF Register, IInv, TypeOK, BuiltinsUnseeded
  <2>2. CASE method \notin Builtin
    <3>1. registry' = [m \in known \cup {method} |-> IF m = method THEN seed ELSE registry[m]]
      BY <1>1, <1>2, <2>2 DEF Register
    <3>2. known \cup {method} \in SUBSET Methods OBVIOUS
    <3>3. registry' \in [known \cup {method} -> Endpoints \cup {None}] BY <1>2, <3>1
    <3>4. BuiltinsUnseeded' BY <1>2, <2>2, <3>1 DEF IInv, BuiltinsUnseeded
    <3> QED BY <3>2, <3>3, <3>4 DEF Registries
  <2> QED BY <2>1, <2>2
<1> QED BY <1>1, <1>3 DEF IInv, TypeOK, StoreOK, NoForeignStreams, GoodEverywhere, Private,
                          WrittenIsWatched

\* Every step of a program that uses store and codec keeps the invariant.
LEMMA NextIInv == IInv /\ [Next]_vars => IInv'
<1> SUFFICES ASSUME IInv, [Next]_vars PROVE IInv' OBVIOUS
<1>1. ASSUME NEW h \in Hands, \E doc \in Docs, watch \in {"none", "audience", "carrier"} : Load(h, doc, watch)
      PROVE  IInv'
  BY <1>1, LoadStep
<1>2. ASSUME NEW h \in Hands, \E id \in StreamIDs \cup {None} : Name(h, id) PROVE IInv'
  BY <1>2, NameStep
<1>3. ASSUME NEW h \in Hands, Write(h) PROVE IInv'
  BY <1>3, WriteStep
<1>4. ASSUME NEW h \in Hands,
             \E watch \in Copies, kept \in BOOLEAN : Create(h, watch, kept) \/ Update(h, watch, kept)
      PROVE  IInv'
  BY <1>4, CreateStep, UpdateStep
<1>5. ASSUME NEW h \in Hands,
             \E watched \in BOOLEAN :
                List(h, watched) \/ \E id \in StreamIDs : Get(h, id, watched)
      PROVE  IInv'
  BY <1>5, ListStep, GetStep
<1>6. ASSUME \E id \in StreamIDs : Delete(id) PROVE IInv'
  BY <1>6, DeleteStep
<1>7. ASSUME \E method \in Methods, seed \in Endpoints \cup {None} : RegisterDeliveryMethod(method, seed)
      PROVE  IInv'
  BY <1>7, RegisterStep
<1>8. CASE UNCHANGED vars
  BY <1>8 DEF vars, IInv, TypeOK, StoreOK, NoForeignStreams, GoodEverywhere, BuiltinsUnseeded,
              Private, WrittenIsWatched
<1> QED BY <1>1, <1>2, <1>3, <1>4, <1>5, <1>6, <1>7, <1>8 DEF Next

-----------------------------------------------------------------------------
(* Theorems *)

\* The invariant holds in every behaviour of programs that share the store.
THEOREM IInvIsInvariant == Spec => []IInv
<1> QED BY InitIInv, NextIInv, PTL DEF Spec

\* TypeOK: the four maps of the store have the entries of the same streams
\* (memstore.go:55-65).
THEOREM SessionTypeOK == Spec => []TypeOK
<1>1. IInv => TypeOK BY DEF IInv
<1> QED BY <1>1, IInvIsInvariant, PTL

\* NoForeignStreams: only CreateStream makes streams, under ids it minted or
\* was given (memstore.go:105-110, 173-178).
THEOREM StreamsAreCreated == Spec => []NoForeignStreams
<1>1. IInv => NoForeignStreams BY DEF IInv
<1> QED BY <1>1, IInvIsInvariant, PTL

\* AudiencePrivate: cloneStreamConfig keeps callers away from the audience of
\* stored streams (memstore.go:382-392).
THEOREM AudienceIsPrivate == Spec => []AudiencePrivate
<1>1. IInv => AudiencePrivate BY DEF IInv, Private, PrivateIn, AudiencePrivate, Stored
<1> QED BY <1>1, IInvIsInvariant, PTL

\* BuiltinsTyped: no registration changes what push and poll configurations
\* decode to (delivery_registry.go:86-88).
THEOREM BuiltinsAreTyped == Spec => []BuiltinsTyped
<1>1. IInv => BuiltinsTyped
  BY DEF IInv, GoodEverywhere, Good, Faithful, BuiltinsTyped, Everywhere, Stored, Holds
<1> QED BY <1>1, IInvIsInvariant, PTL

\* WireKept: a delivery encodes to what it was decoded from, whatever was
\* registered since (stream.go:235-296, delivery_registry.go:85-93).
THEOREM WireIsKept == Spec => []WireKept
<1>1. IInv => BuiltinsTyped
  BY DEF IInv, GoodEverywhere, Good, Faithful, BuiltinsTyped, Everywhere, Stored, Holds
<1>2. ASSUME IInv PROVE WireKept
  <2> SUFFICES ASSUME NEW cfg \in Everywhere
               PROVE  /\ Encode(registry, cfg).method = cfg.origin.method
                      /\ cfg.origin.endpoint # None => Encode(registry, cfg).endpoint = cfg.origin.endpoint
                      /\ cfg.carrier # None => Encode(registry, cfg) = cfg.origin
    BY <1>1, <1>2 DEF WireKept
  <2>1. Faithful(cfg) BY <1>2 DEF IInv, GoodEverywhere, Good, Everywhere, Stored, Holds
  <2>2. CASE cfg.carrier # None BY <2>1, <2>2 DEF Faithful, Encode
  <2>3. CASE cfg.carrier = None BY <2>1, <2>3 DEF Faithful, Encode
  <2> QED BY <2>2, <2>3
<1> QED BY <1>2, IInvIsInvariant, PTL

\* The step property OnlyNamedReplaced states.
ReplacesNamed ==
    \A h \in Hands, watch \in Copies, kept \in BOOLEAN :
        Create(h, watch, kept) /\ store' # store =>
            (NewID(h) \in DOMAIN store.streams => NewID(h) \in named)

\* OnlyNamedReplaced: a minted id overwrites no stream but one whose creator
\* chose that id (memstore.go:106-108).
THEOREM OnlyNamedAreReplaced == Spec => OnlyNamedReplaced
<1>1. ASSUME IInv, [Next]_vars PROVE [ReplacesNamed]_vars
  <2> SUFFICES ASSUME NEW h \in Hands, NEW watch \in Copies, NEW kept \in BOOLEAN,
                      Create(h, watch, kept), store' # store, NewID(h) \in DOMAIN store.streams
               PROVE  NewID(h) \in named
    BY DEF ReplacesNamed
  <2>1. store.nextID \in Nat BY <1>1, StoreAssumption DEF IInv, TypeOK, StoreOK
  <2>2. CASE held[h].id = None
    BY <1>1, <2>1, <2>2 DEF NewID, MintedID, IInv, NoForeignStreams
  <2>3. CASE held[h].id # None
    <3> DEFINE cfg == CloneStreamConfig(held[h], watch.stored)
    <3>1. cfg.id = held[h].id
      BY <1>1, CloneIsFaithful DEF IInv, GoodEverywhere, Create, Holds, Copies
    <3> HIDE DEF cfg
    <3>2. CreateStream(store, cfg).store = store
      BY <2>3, <3>1 DEF NewID, CreateStream, Refuse, Answer
    <3> QED BY <3>2 DEF Create, cfg
  <2> QED BY <2>2, <2>3
<1> QED BY <1>1, IInvIsInvariant, PTL DEF Spec, OnlyNamedReplaced, ReplacesNamed
=============================================================================

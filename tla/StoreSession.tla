--------------------------- MODULE StoreSession ---------------------------
(***************************************************************************)
(* Programs that use an in-memory store directly: each hand is a variable  *)
(* of a caller that holds a *StreamConfig, decoded from a document or      *)
(* returned by the store.  The store's methods are atomic; what is not is  *)
(* the memory behind a configuration, which a caller goes on using.        *)
(*                                                                         *)
(* Memory: one block is watched at a time, any block, from its allocation  *)
(* until nothing refers to it.  A configuration has "watch" to say whether *)
(* its audience (Aud and the three event lists, copied alike) or its       *)
(* carrier of unknown delivery bytes is that block.                        *)
(***************************************************************************)
EXTENDS StreamStore

CONSTANTS
    Builtin,    \* see DeliveryCodec
    Extension,
    Endpoints,
    Docs,       \* the delivery objects that callers decode
    Hands       \* variables of callers that hold a configuration

INSTANCE DeliveryCodec

VARIABLES
    store,     \* the InMemoryStore
    registry,  \* deliveryRegistry.m
    held,      \* the configuration in each hand
    written,   \* a caller wrote to the watched block
    named      \* history: ids of streams that were created under a given id

vars == <<store, registry, held, written, named>>

\* "origin" is history: the document the configuration was decoded from.
Configs ==
    [id : StreamIDs \cup {None}, method : Methods,
     endpoint : Endpoints \cup {None}, carrier : Documents \cup {None},
     origin : Docs, watch : {"none", "audience", "carrier"}]

ASSUME SessionAssumption ==
    /\ Builtin \cap Extension = {}
    /\ None \notin Endpoints
    /\ None \notin Documents /\ None \notin Configs
    /\ Docs \subseteq Documents

Init ==
    /\ store = EmptyStore
    /\ registry = BuiltinDeliveryMethods
    /\ held = [h \in Hands |-> None]
    /\ written = FALSE
    /\ named = {}

Holds(h) == held[h] # None

Stored == {store.streams[id] : id \in DOMAIN store.streams}

Watched(streams, hands) ==
    \/ \E id \in DOMAIN streams : streams[id].watch # "none"
    \/ \E h \in Hands : hands[h] # None /\ hands[h].watch # "none"

\* A new block may be watched when no other is.
MayWatch(choice) == choice => ~Watched(store.streams, held)

\* Mutant: a copy shares its source's audience.
ShallowCopy(cfg, watched) ==
    IF cfg.watch # "none" THEN cfg
    ELSE [cfg EXCEPT !.watch = IF watched THEN "audience" ELSE "none"]

\* cloneStreamConfig: new memory for the audience; the carrier is a pointer
\* inside Delivery and is shared.
CloneStreamConfig(cfg, watched) ==
    IF cfg.watch = "carrier" THEN cfg
    ELSE [cfg EXCEPT !.watch = IF watched THEN "audience" ELSE "none"]

\* A block nothing refers to any more takes what was written with it.
Settle == written' = (written /\ Watched(store'.streams, held'))

-----------------------------------------------------------------------------
\* json.Unmarshal of a StreamConfig.
Load(h, doc, watch) ==
    LET delivery == Decode(registry, doc)
    IN  /\ watch = "carrier" => delivery.carrier # None
        /\ MayWatch(watch # "none")
        /\ held' = [held EXCEPT ![h] =
              [id |-> None, method |-> delivery.method,
               endpoint |-> delivery.endpoint, carrier |-> delivery.carrier,
               origin |-> doc, watch |-> watch]]
        /\ UNCHANGED <<store, registry, named>>
        /\ Settle

\* The caller assigns to StreamID.
Name(h, id) ==
    /\ Holds(h)
    /\ held' = [held EXCEPT ![h].id = id]
    /\ UNCHANGED <<store, registry, written, named>>

\* The caller writes into memory it holds.
Write(h) ==
    /\ Holds(h) /\ held[h].watch # "none"
    /\ ~written
    /\ written' = TRUE
    /\ UNCHANGED <<store, registry, held, named>>

\* The caller keeps what it passed, or takes what the store returned.
Receive(h, result, kept, watched) ==
    held' = IF result.err = "nil" /\ ~kept
            THEN [held EXCEPT ![h] = CloneStreamConfig(result.out, watched)]
            ELSE held

\* At most one of the two copies a call makes is watched.
Copies == {c \in [stored : BOOLEAN, returned : BOOLEAN] :
              ~(c.stored /\ c.returned)}

NewID(h) == IF held[h].id = None THEN MintedID(store) ELSE held[h].id

Create(h, watch, kept) ==
    LET result == CreateStream(store, CloneStreamConfig(held[h], watch.stored))
    IN  /\ Holds(h)
        /\ MayWatch(watch.stored \/ watch.returned)
        /\ held[h].id = None => store.nextID < MaxMint
        /\ store' = result.store
        /\ named' = IF result.err # "nil" THEN named
                    ELSE IF held[h].id = None THEN named \ {NewID(h)}
                    ELSE named \cup {held[h].id}
        /\ Receive(h, result, kept, watch.returned)
        /\ UNCHANGED registry
        /\ Settle

Update(h, watch, kept) ==
    LET result == UpdateStream(store, CloneStreamConfig(held[h], watch.stored))
    IN  /\ Holds(h)
        /\ MayWatch(watch.stored \/ watch.returned)
        /\ store' = result.store
        /\ Receive(h, result, kept, watch.returned)
        /\ UNCHANGED <<registry, named>>
        /\ Settle

Get(h, id, watched) ==
    /\ MayWatch(watched)
    /\ Receive(h, GetStream(store, id), FALSE, watched)
    /\ UNCHANGED <<store, registry, named>>
    /\ Settle

\* One of the configurations that ListStreams returns.
List(h, watched) ==
    /\ MayWatch(watched)
    /\ \E cfg \in ListStreams(store).out :
          held' = [held EXCEPT ![h] = CloneStreamConfig(cfg, watched)]
    /\ UNCHANGED <<store, registry, named>>
    /\ Settle

Delete(id) ==
    /\ store' = DeleteStream(store, id).store
    /\ named' = named \ {id}
    /\ UNCHANGED <<registry, held>>
    /\ Settle

RegisterDeliveryMethod(method, seed) ==
    /\ registry' = Register(registry, method, seed)
    /\ UNCHANGED <<store, held, written, named>>

Next ==
    \/ \E h \in Hands :
          \/ \E doc \in Docs, watch \in {"none", "audience", "carrier"} :
                Load(h, doc, watch)
          \/ \E id \in StreamIDs \cup {None} : Name(h, id)
          \/ Write(h)
          \/ \E watch \in Copies, kept \in BOOLEAN :
                Create(h, watch, kept) \/ Update(h, watch, kept)
          \/ \E watched \in BOOLEAN :
                List(h, watched) \/ \E id \in StreamIDs : Get(h, id, watched)
    \/ \E id \in StreamIDs : Delete(id)
    \/ \E method \in Methods, seed \in Endpoints \cup {None} :
          RegisterDeliveryMethod(method, seed)

Spec == Init /\ [][Next]_vars

-----------------------------------------------------------------------------
\* The store has the entries of the same streams in each of its maps.
StoreOK ==
    /\ store = [streams |-> store.streams, statuses |-> store.statuses,
                subjects |-> store.subjects, queues |-> store.queues,
                nextID |-> store.nextID]
    /\ DOMAIN store.streams \subseteq StreamIDs
    /\ store.streams \in [DOMAIN store.streams -> Configs]
    /\ store.statuses = [id \in DOMAIN store.streams |-> EmptyStatus]
    /\ store.subjects = [id \in DOMAIN store.streams |-> {}]
    /\ store.queues = [id \in DOMAIN store.streams |-> <<>>]
    /\ store.nextID \in 0..MaxMint

\* Every variable has its type; no call here touches a new stream's status,
\* subjects or queue (memstore.go:55-65).
TypeOK ==
    /\ StoreOK
    /\ registry \in Registries
    /\ held \in [Hands -> Configs \cup {None}]
    /\ written \in BOOLEAN
    /\ named \subseteq StreamIDs

\* A stream is stored under its own id, which the store minted before or its
\* creator chose: no call but CreateStream makes one (memstore.go:105-110,
\* 173-178).
NoForeignStreams ==
    \A id \in DOMAIN store.streams :
        /\ store.streams[id].id = id
        /\ id \in named \/ id \in 1..store.nextID

\* A stream that a create replaces was created under an id its caller chose:
\* two minted ids are never the same, whatever was deleted in between, but a
\* minted one may be an id in use (memstore.go:106-108).
OnlyNamedReplaced ==
    [][\A h \in Hands, watch \in Copies, kept \in BOOLEAN :
          Create(h, watch, kept) /\ store' # store =>
            (NewID(h) \in DOMAIN store.streams => NewID(h) \in named)]_vars

\* No caller has written into the audience or the event lists of a stored
\* stream, whatever it does with configurations it passed or was returned
\* (memstore.go:378-392).
AudiencePrivate ==
    \A cfg \in Stored : cfg.watch = "audience" => ~written

Everywhere == Stored \cup {held[h] : h \in {g \in Hands : Holds(g)}}

\* Push and poll configurations are typed and have the endpoint of their
\* document only, whatever was registered (delivery_registry.go:86-88).
BuiltinsTyped ==
    \A cfg \in Everywhere :
        cfg.method \in Builtin =>
            cfg.carrier = None /\ cfg.endpoint = cfg.origin.endpoint

\* A configuration encodes to the method and the endpoint it was decoded
\* from, and to the very same bytes if its method was unknown then, whatever
\* was registered since, unless a caller writes to the carrier; the built-in
\* methods stay typed (stream.go:235-296, delivery_registry.go:85-93).
WireKept ==
    /\ BuiltinsTyped
    /\ \A cfg \in Everywhere :
           ~(written /\ cfg.watch = "carrier") =>
               LET wire == Encode(registry, cfg)
               IN  /\ wire.method = cfg.origin.method
                   /\ cfg.origin.endpoint # None =>
                         wire.endpoint = cfg.origin.endpoint
                   /\ cfg.carrier # None => wire = cfg.origin

\* memstore.go:14-16 says callers cannot mutate stored state by holding a
\* returned pointer, and memstore.go:378-381 that a Delivery copies cleanly
\* by assignment: what a caller writes to is no part of a stored stream.  The
\* carrier's bytes are shared by all copies.
StoredUnwritten ==
    [][\A h \in Hands : Write(h) => \A cfg \in Stored : cfg.watch = "none"]_vars
=============================================================================

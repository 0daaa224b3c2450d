--------------------------- MODULE DeliveryCodec ---------------------------
(***************************************************************************)
(* The delivery object of a stream configuration: the registry of delivery *)
(* methods (delivery_registry.go) and Delivery's JSON codec (stream.go).   *)
(* A document is what the wire carries: the method, an endpoint or none,   *)
(* and whether it has members no factory knows.  The authorization header  *)
(* is decoded and encoded the way the endpoint is, and is left out.        *)
(***************************************************************************)
EXTENDS Naturals

CONSTANTS
    Builtin,    \* the methods of RFC 8935 and RFC 8936
    Extension,  \* methods that only RegisterDeliveryMethod makes known
    Endpoints,  \* endpoint URLs
    None        \* an absent member, the empty string, nil

Methods == Builtin \cup Extension

Documents == [method : Methods, endpoint : Endpoints \cup {None}, extra : BOOLEAN]

\* A registry maps each known method to the endpoint its factory seeds.
Registries == UNION {[known -> Endpoints \cup {None}] : known \in SUBSET Methods}

BuiltinDeliveryMethods == [m \in Builtin |-> None]

\* Mutant: any method may be registered.
RegisterAny(registry, method, seed) ==
    [m \in DOMAIN registry \cup {method} |->
        IF m = method THEN seed ELSE registry[m]]

\* RegisterDeliveryMethod: ErrMethodReserved leaves the registry alone, a
\* second registration replaces the first.
Register(registry, method, seed) ==
    IF method \in Builtin THEN registry
    ELSE [m \in DOMAIN registry \cup {method} |->
            IF m = method THEN seed ELSE registry[m]]

Lookup(registry, method) == method \in DOMAIN registry

\* UnmarshalJSON: the typed fields of a known method, with the factory's
\* endpoint where the document has none; a carrier of the bytes otherwise.
Decode(registry, doc) ==
    IF Lookup(registry, doc.method)
    THEN [method   |-> doc.method,
          endpoint |-> IF doc.endpoint = None THEN registry[doc.method]
                       ELSE doc.endpoint,
          carrier  |-> None]
    ELSE [method |-> doc.method, endpoint |-> None, carrier |-> doc]

\* Mutant: the method's registration decides how a value is encoded.
EncodeByRegistry(registry, delivery) ==
    IF ~Lookup(registry, delivery.method) /\ delivery.carrier # None
    THEN delivery.carrier
    ELSE [method |-> delivery.method, endpoint |-> delivery.endpoint,
          extra |-> FALSE]

\* MarshalJSON: the carrier's bytes, whatever is registered by now.
Encode(registry, delivery) ==
    IF delivery.carrier # None THEN delivery.carrier
    ELSE [method |-> delivery.method, endpoint |-> delivery.endpoint,
          extra |-> FALSE]
=============================================================================

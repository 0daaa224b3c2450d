------------------------- MODULE RemoteTransmitter -------------------------
(***************************************************************************)
(* What a Transmitter behind a client.Client promises to who calls it like *)
(* one in the same process: a call is performed some number of times, also *)
(* after it was given up; a nil error comes with the value of one of its   *)
(* performances; and an error of the Transmitter's own making was that of  *)
(* one of them, though only three of its causes can be told by errors.Is.  *)
(***************************************************************************)
EXTENDS ManagementClient

CONSTANTS
    Clients,  \* goroutines, each in one method of the Client at a time
    AnyCalls, \* the calls they make
    Others    \* what else happens to the store

VARIABLES
    store,     \* of the Transmitter
    call,      \* what each client calls, None before
    result,    \* what it gets, None before
    outcomes,  \* history: errors and values of its performances so far
    open       \* calls that may yet be performed though nobody waits

vars == <<store, call, result, outcomes, open>>

\* The call in the same process.
InProcess(s, k) ==
    IF k.body = None /\ k.op \in {"CreateConfig", "UpdateConfig", "UpdateStatus",
                                  "AddSubject", "RemoveSubject"}
    THEN Refuse(s, "ErrInvalidConfig")
    ELSE CASE k.op = "GetConfig"     -> GetStream(s, k.id)
           [] k.op = "ListConfig"    -> LET r == ListStreams(s)
                                        IN  [r EXCEPT !.out = [streams |-> @]]
           [] k.op = "CreateConfig"  -> CreateStream(s, k.body)
           [] k.op = "UpdateConfig"  -> UpdateStream(s, k.body)
           [] k.op = "DeleteConfig"  -> DeleteStream(s, k.id)
           [] k.op = "GetStatus"     -> GetStreamStatus(s, k.id, k.subject)
           [] k.op = "UpdateStatus"  ->
                SetStreamStatus(s, k.id, k.body.status, k.body.subject)
           [] k.op = "AddSubject"    -> AddSubject(s, k.id, k.body.subject)
           [] k.op = "RemoveSubject" -> RemoveSubject(s, k.id, k.body.subject)
           [] k.op = "Verify"        -> Refuse(s, "ErrNotImplemented")
           [] k.op = "PollEvents"    ->
                IF k.id \in DOMAIN s.streams
                THEN Answer(s, "nil", [sets |-> {}])
                ELSE Refuse(s, "ErrStreamNotFound")

\* Calls that only a call in the same process can make.
Malformed(k) ==
    \/ k.id = None /\ k.op \notin {"GetConfig", "ListConfig", "CreateConfig", "UpdateConfig"}
    \/ k.op = "GetStatus" /\ k.subject = Garbled
    \/ k.op \in {"AddSubject", "RemoveSubject"} /\ k.body.subject \in {None, Garbled}

\* Values JSON cannot carry.
Unspeakable(out) ==
    \/ "aud" \in DOMAIN out /\ out.aud = "junk"
    \/ "streams" \in DOMAIN out /\ \E cfg \in out.streams : cfg.aud = "junk"

\* The call over the wire.  Without an id, GetConfig asks for the list and
\* returns an empty configuration.
Perform(s, k) ==
    LET asked == IF k.op = "GetConfig" /\ k.id = None
                 THEN [k EXCEPT !.op = "ListConfig"] ELSE k
        r == InProcess(s, asked)
    IN  IF Malformed(k) THEN Refuse(s, "ErrValidation")
        ELSE IF r.err = "nil" /\ r.out # None /\ Unspeakable(r.out)
        THEN Answer(r.store, "marshal", None)
        ELSE IF asked # k THEN [r EXCEPT !.out = ZeroConfig]
        ELSE r

Outcome(err, out) == [err |-> err, out |-> out]

\* What errors.Is can tell of a Transmitter's error.
Told(err) == IF err \in {"ErrUnauthorized", "ErrStreamNotFound", "ErrNotImplemented"}
             THEN err ELSE None

\* The Transmitter's own problems say about:blank.
OwnProblem(r) == r.problem # None /\ r.problem.fields["type"] = 1

Sound(r, done) ==
    /\ r.err = "nil" => Outcome("nil", r.out) \in done
    /\ OwnProblem(r) => \E o \in done : o.err # "nil" /\ Told(o.err) = r.sentinel

Init ==
    /\ store = EmptyStore
    /\ call = [c \in Clients |-> None]
    /\ result = [c \in Clients |-> None]
    /\ outcomes = [c \in Clients |-> {}]
    /\ open = {}

Waits(c) == call[c] # None /\ result[c] = None

Invoke(c) ==
    /\ call[c] = None
    /\ \E k \in AnyCalls : call' = [call EXCEPT ![c] = k]
    /\ UNCHANGED <<store, result, outcomes, open>>

\* Authentication or the Transmitter's backend may fail with nothing done.
Execute(c) ==
    /\ Waits(c)
    /\ UNCHANGED <<call, result, open>>
    /\ \/ LET r == Perform(store, call[c])
          IN  /\ store' = r.store
              /\ outcomes' = [outcomes EXCEPT ![c] = @ \cup {Outcome(r.err, r.out)}]
       \/ /\ \E err \in {"ErrUnauthorized", "backend"} :
                outcomes' = [outcomes EXCEPT ![c] = @ \cup {Outcome(err, None)}]
          /\ UNCHANGED store

Abandon(c) ==
    /\ Waits(c)
    /\ open' = open \cup {call[c]}
    /\ UNCHANGED <<store, call, result, outcomes>>

ExecuteLate ==
    /\ UNCHANGED <<call, result, outcomes>>
    /\ \E k \in open :
          /\ open' = open \ {k}
          /\ store' \in {store, Perform(store, k).store}

Return(c) ==
    /\ Waits(c)
    /\ result'[c] # None /\ Sound(result'[c], outcomes[c])
    /\ result' = [result EXCEPT ![c] = result'[c]]
    /\ UNCHANGED <<store, call, outcomes, open>>

Leave(c) ==
    /\ result[c] # None
    /\ call' = [call EXCEPT ![c] = None]
    /\ result' = [result EXCEPT ![c] = None]
    /\ outcomes' = [outcomes EXCEPT ![c] = {}]
    /\ UNCHANGED <<store, open>>

Elsewhere ==
    /\ UNCHANGED <<call, result, outcomes, open>>
    /\ \E k \in Others : store' = InProcess(store, k).store

Next ==
    \/ \E c \in Clients : Invoke(c) \/ Execute(c) \/ Abandon(c) \/ Return(c) \/ Leave(c)
    \/ ExecuteLate
    \/ Elsewhere

Spec == Init /\ [][Next]_vars
=============================================================================

----------------------------- MODULE Management -----------------------------
(***************************************************************************)
(* Clients of one Transmitter: calls of client.Client, the HTTPDoer and    *)
(* the network under them, the Transmitter's handlers and its store, and   *)
(* the programs that use that store without HTTP.  A doer may send copies  *)
(* of a request, a copy may arrive late, answers get lost or break off,    *)
(* and intermediaries answer in the Transmitter's stead.                   *)
(***************************************************************************)
EXTENDS TransmitterHandlers, ManagementClient

CONSTANTS
    Clients,        \* goroutines, each in one method of the Client at a time
    AnyCalls,       \* the calls they make
    LocalCalls,     \* calls made in the Transmitter's process
    ForeignRequests,\* requests of programs that are no client.Client
    Intermediary,   \* responses of intermediaries, none of them a success
    MaxLate,        \* bound: copies of requests on their way with no reader
    MaxOutcomes     \* bound: different outcomes of the copies of one call

\* The configurations of every store and body; Aud is JSON in what came in a
\* request.  A status request has the shape of a status response.
Configs == [id : StreamIDs \cup {None}, aud : {"json", "absent", "junk"}]

\* The body that goes with a method, None for a nil pointer.
Fitting(op, body) ==
    \/ body = None
    \/ op \in {"CreateConfig", "UpdateConfig"} /\ body \in Configs
    \/ op = "UpdateStatus" /\ body \in Responses
    \/ op \in {"AddSubject", "RemoveSubject"}
       /\ body \in [subject : Subjects \cup {None}]
    \/ op \in {"Verify", "PollEvents"} /\ body \notin {Unread, Junk}

\* The body that goes with a path, when its handler can decode it.
Decodable(path, body) ==
    CASE path = "config" -> body \in Configs /\ body.aud # "junk"
      [] path = "status" -> body \in Responses
      [] path \in {"add", "remove"} -> body \in [subject : Subjects \cup {None}]
      [] OTHER -> TRUE

IsCall(k) ==
    /\ k = Call(k.op, k.id, k.subject, k.body)
    /\ k.op \in DOMAIN Target
    /\ k.id \in StreamIDs \cup {None}
    /\ k.subject \in Subjects \cup {None}
    /\ Fitting(k.op, k.body)

\* None is no JSON value.  What a handler decodes, no other has encoded wrong;
\* and no problem of an intermediary passes for one of the Transmitter.
ASSUME ManagementAssumption ==
    /\ None \notin Configs \cup Responses \cup {[sets |-> {}]}
    /\ \A streams \in SUBSET Configs : None # [streams |-> streams]
    /\ Unread \notin Configs \cup Responses \cup [subject : Subjects \cup {None}]
    /\ Junk \notin Configs \cup Responses \cup [subject : Subjects \cup {None}]
    /\ \A k \in AnyCalls \cup LocalCalls : IsCall(k)
    /\ \A r \in ForeignRequests :
          /\ r = Request(r.path, r.method, r.id, r.subject, r.body)
          /\ r.path \in {"config", "status", "add", "remove", "verify", "poll",
                         "elsewhere"}
          /\ r.id \in StreamIDs \cup {None}
          /\ BadBody(r.body) \/ Decodable(r.path, r.body)
    /\ \A response \in Intermediary :
          /\ response.status \notin 200..299
          /\ DOMAIN response.body.members \subseteq Nat \ {0}
          /\ \A i \in DOMAIN response.body.members :
                LET m == response.body.members[i] IN m = Member(m.key, m.value)
          /\ Unmarshal(response.body).fields["type"] # Blank

\* What a request asks of the Transmitter, as a call in its process; one that
\* asks for no change asks for the list.
Asked(r) ==
    CASE r.path = "config" /\ r.method = "DELETE" ->
            Call("DeleteConfig", r.id, None, None)
      [] r.path = "config" /\ r.method = "POST" /\ ~BadBody(r.body) ->
            Call("CreateConfig", None, None, r.body)
      [] r.path = "config" /\ r.method = "PATCH" /\ ~BadBody(r.body) ->
            Call("UpdateConfig", r.id, None, [r.body EXCEPT !.id = r.id])
      [] r.path = "status" /\ r.method = "POST" /\ ~BadBody(r.body) ->
            Call("UpdateStatus", r.id, None, r.body)
      [] r.path = "add" /\ r.method = "POST" /\ ~BadBody(r.body) ->
            Call("AddSubject", r.id, None, r.body)
      [] r.path = "remove" /\ r.method = "POST" /\ ~BadBody(r.body) ->
            Call("RemoveSubject", r.id, None, r.body)
      [] OTHER -> Call("ListConfig", None, None, None)

VARIABLES
    store,     \* the Transmitter's
    call,      \* the call of each client, None before
    wire,      \* the request its doer waits on, None when there is none
    reply,     \* the response that came for it, None before
    result,    \* what the method returned, None before
    outcomes,  \* history: what the Transmitter did for the call, every time
    late       \* calls whose requests travel on with nobody waiting

\* What else happens to the store.
OtherCalls == LocalCalls \cup {Asked(r) : r \in ForeignRequests}

Remote == INSTANCE RemoteTransmitter WITH open <- late, Others <- OtherCalls

vars == <<store, call, wire, reply, result, outcomes, late>>

Init ==
    /\ store = EmptyStore
    /\ call = [c \in Clients |-> None]
    /\ wire = [c \in Clients |-> None]
    /\ reply = [c \in Clients |-> None]
    /\ result = [c \in Clients |-> None]
    /\ outcomes = [c \in Clients |-> {}]
    /\ late = {}

Waits(c) == call[c] # None /\ result[c] = None

Invoke(c) ==
    /\ call[c] = None
    /\ \E k \in AnyCalls : call' = [call EXCEPT ![c] = k]
    /\ UNCHANGED <<store, wire, reply, result, outcomes, late>>

\* Arguments that make no request.
FailLocally(c) ==
    /\ Waits(c) /\ wire[c] = None /\ reply[c] = None
    /\ LocalError(call[c]) # "nil"
    /\ result' = [result EXCEPT ![c] = Failed(LocalError(call[c]))]
    /\ UNCHANGED <<store, call, wire, reply, outcomes, late>>

\* The doer sends the request, for the first time or again.
Send(c) ==
    /\ Waits(c) /\ wire[c] = None /\ reply[c] = None
    /\ LocalError(call[c]) = "nil"
    /\ Cardinality(outcomes[c]) < MaxOutcomes
    /\ wire' = [wire EXCEPT ![c] = NewRequest(call[c])]
    /\ UNCHANGED <<store, call, reply, result, outcomes, late>>

\* AuthFunc may refuse, the Transmitter's backend may fail.
Faults == {"none", "auth", "backend"}

HandleFor(request, fault) ==
    Handle(store, fault # "auth", fault # "backend", request)

\* What a handling does for the call, by the promise of RemoteTransmitter.
Performed(k, fault) ==
    IF fault = "auth" THEN Remote!Outcome("ErrUnauthorized", None)
    ELSE IF fault = "backend" /\ ~Remote!Malformed(k) THEN Remote!Outcome("backend", None)
    ELSE LET r == Remote!Perform(store, k) IN Remote!Outcome(r.err, r.out)

\* Keeps the minted ids within their bound.
Bounded == store'.nextID <= MaxMint

\* The handler runs.
Serve(c, fault) ==
    LET handled == HandleFor(wire[c], fault)
    IN  /\ wire[c] # None
        /\ store' = handled.store
        /\ Bounded
        /\ reply' = [reply EXCEPT ![c] = handled.response]
        /\ outcomes' = [outcomes EXCEPT ![c] =
                            @ \cup {Performed(call[c], fault)}]
        /\ wire' = [wire EXCEPT ![c] = None]
        /\ UNCHANGED <<call, result, late>>

\* An intermediary answers; the request may or may not travel on.
Intercept(c, response) ==
    /\ wire[c] # None
    /\ reply' = [reply EXCEPT ![c] = response]
    /\ wire' = [wire EXCEPT ![c] = None]
    /\ UNCHANGED <<store, call, result, outcomes, late>>

\* Calls that leave the store alone, whenever they are performed.
Reads == {"GetConfig", "ListConfig", "GetStatus", "Verify", "PollEvents"}

\* The copy the doer waited on is not waited on any more.
Delay(c) ==
    /\ wire[c] # None
    /\ call[c].op \notin Reads
    /\ Cardinality(late \cup {call[c]}) <= MaxLate
    /\ late' = late \cup {call[c]}
    /\ wire' = [wire EXCEPT ![c] = None]
    /\ UNCHANGED <<store, call, reply, result, outcomes>>

ServeLate(k, fault) ==
    /\ k \in late
    /\ store' = HandleFor(NewRequest(k), fault).store
    /\ Bounded
    /\ late' = late \ {k}
    /\ UNCHANGED <<call, wire, reply, result, outcomes>>

\* The request, or the answer to it, is lost.
Lose(c) ==
    /\ wire[c] # None \/ reply[c] # None
    /\ wire' = [wire EXCEPT ![c] = None]
    /\ reply' = [reply EXCEPT ![c] = None]
    /\ UNCHANGED <<store, call, result, outcomes, late>>

\* The doer reports an error of its own: the context's, or the network's.
GiveUp(c) ==
    /\ Waits(c) /\ wire[c] = None /\ reply[c] = None
    /\ LocalError(call[c]) = "nil"
    /\ result' = [result EXCEPT ![c] = Failed("transport")]
    /\ UNCHANGED <<store, call, wire, reply, outcomes, late>>

\* The connection may end while the body is read.
Return(c, broken) ==
    /\ reply[c] # None
    /\ result' = [result EXCEPT ![c] = Receive(call[c].op, reply[c], broken)]
    /\ reply' = [reply EXCEPT ![c] = None]
    /\ UNCHANGED <<store, call, wire, outcomes, late>>

\* The caller goes on; a copy of its request may still be under way.
Leave(c) ==
    /\ result[c] # None
    /\ call' = [call EXCEPT ![c] = None]
    /\ result' = [result EXCEPT ![c] = None]
    /\ outcomes' = [outcomes EXCEPT ![c] = {}]
    /\ UNCHANGED <<store, wire, reply, late>>

CallLocally(k) ==
    /\ store' = Remote!InProcess(store, k).store
    /\ Bounded
    /\ UNCHANGED <<call, wire, reply, result, outcomes, late>>

ServeForeign(r, fault) ==
    /\ store' = HandleFor(r, fault).store
    /\ Bounded
    /\ UNCHANGED <<call, wire, reply, result, outcomes, late>>

Next ==
    \/ \E c \in Clients :
          \/ Invoke(c) \/ FailLocally(c) \/ Send(c)
          \/ \E fault \in Faults : Serve(c, fault)
          \/ \E response \in Intermediary : Intercept(c, response)
          \/ Delay(c) \/ Lose(c) \/ GiveUp(c) \/ Leave(c)
          \/ \E broken \in BOOLEAN : Return(c, broken)
    \/ \E k \in AnyCalls, fault \in Faults : ServeLate(k, fault)
    \/ \E k \in LocalCalls : CallLocally(k)
    \/ \E r \in ForeignRequests, fault \in Faults : ServeForeign(r, fault)

Spec == Init /\ [][Next]_vars

-----------------------------------------------------------------------------
\* To whoever holds it, a client behaves like the Transmitter it stands for,
\* as far as RemoteTransmitter promises (client.go:129-139, errors.go:85-111).
KeepsPromise == Remote!Spec

\* A request that is answered with an error changes nothing: no call is
\* performed before the request is found good, and none is reported as failed
\* for what comes after it, such as a value that does not marshal
\* (handlers.go:82-108, 279-422, 491-500).
ErrorsChangeNothing ==
    \A r \in ForeignRequests \cup {wire[c] : c \in Clients} :
        r # None =>
            LET handled == HandleFor(r, "none")
            IN  ~Is2xx(handled.response.status) => handled.store = store

\* The problem a handler writes reaches the caller as it was written, with
\* the status of the response, unless the connection breaks off.  A problem
\* that marshals again keeps its fields, unless the key of an extension turns
\* into the name of one; and when no key has to be escaped it does marshal,
\* and reads the same again with its extensions in order (errors.go:240-388,
\* 424-452, client/errors.go:85-143).
ProblemSurvives ==
    \A c \in Clients :
        result[c] # None /\ result[c].problem # None =>
            LET problem == result[c].problem
            IN  /\ Remote!OwnProblem(result[c]) =>
                      problem.fields["status"] = result[c].status
                /\ /\ Marshals(problem)
                   /\ \A i \in DOMAIN Rewritten(problem) : ~IsRegistered(Rewritten(problem)[i])
                   => /\ Decodes(Marshal(problem))
                      /\ Unmarshal(Marshal(problem)).fields = problem.fields
                /\ Plain(problem.extensions) =>
                      /\ Marshals(problem)
                      /\ Decodes(Marshal(problem))
                      /\ Same(Unmarshal(Marshal(problem)), problem)
=============================================================================

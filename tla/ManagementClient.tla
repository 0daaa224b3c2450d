-------------------------- MODULE ManagementClient --------------------------
(***************************************************************************)
(* client.Client: a method builds one request, gives it to the HTTPDoer    *)
(* and turns the one response into a value or an error.  A call is its     *)
(* method and its arguments; WithEndpoints points where the Transmitter    *)
(* mounts its handlers.                                                    *)
(***************************************************************************)
EXTENDS StreamStore, ProblemDetails

Call(op, id, subject, body) ==
    [op |-> op, id |-> id, subject |-> subject, body |-> body]

\* Path and HTTP method of each of the eleven methods.
Target ==
    [GetConfig     |-> <<"config", "GET">>,   ListConfig   |-> <<"config", "GET">>,
     CreateConfig  |-> <<"config", "POST">>,  UpdateConfig |-> <<"config", "PATCH">>,
     DeleteConfig  |-> <<"config", "DELETE">>, GetStatus   |-> <<"status", "GET">>,
     UpdateStatus  |-> <<"status", "POST">>,  AddSubject   |-> <<"add", "POST">>,
     RemoveSubject |-> <<"remove", "POST">>,  Verify       |-> <<"verify", "POST">>,
     PollEvents    |-> <<"poll", "POST">>]

\* The methods that return nothing but an error.
Valueless == {"DeleteConfig", "AddSubject", "RemoveSubject", "Verify"}

TakesBody(op) == Target[op][2] \in {"POST", "PATCH"}

\* json.Marshal of the body; a typed identifier always marshals.
BodyMarshals(call) ==
    CASE call.op \in {"CreateConfig", "UpdateConfig"} -> call.body.aud # "junk"
      [] call.op = "UpdateStatus" -> call.body.subject # Garbled
      [] OTHER -> TRUE

\* The error a method returns before any request.
LocalError(call) ==
    IF TakesBody(call.op) /\ call.body = None THEN "ErrValidation"
    ELSE IF call.op = "UpdateConfig" /\ call.body.id = None THEN "ErrValidation"
    ELSE IF TakesBody(call.op) /\ ~BodyMarshals(call) THEN "marshal"
    ELSE "nil"

\* newRequest; the id of UpdateConfig is the configuration's.
NewRequest(call) ==
    [path |-> Target[call.op][1], method |-> Target[call.op][2],
     id |-> IF call.op = "UpdateConfig" THEN call.body.id
            ELSE IF call.op \in {"ListConfig", "CreateConfig"} THEN None
            ELSE call.id,
     subject |-> IF call.op = "GetStatus" THEN call.subject ELSE None,
     body |-> call.body]

-----------------------------------------------------------------------------
\* What a method returns: the error's kind and the sentinel joined to it, the
\* HTTPError's status and problem, and the value.
Result(err, sentinel, status, problem, out) ==
    [err |-> err, sentinel |-> sentinel, status |-> status,
     problem |-> problem, out |-> out]

Failed(err) == Result(err, None, 0, None, None)

Success(out) == Result("nil", None, 0, None, out)

\* Mutant: every status has the sentinel of the library's own handlers.
SentinelOfAll(status) ==
    CASE status = 401 -> "ErrUnauthorized"
      [] status = 404 -> "ErrStreamNotFound"
      [] status = 501 -> "ErrNotImplemented"
      [] status = 400 -> "ErrInvalidConfig"
      [] OTHER -> None

\* mapStatusToSentinel.
MapStatusToSentinel(status) ==
    CASE status = 401 -> "ErrUnauthorized"
      [] status = 404 -> "ErrStreamNotFound"
      [] status = 501 -> "ErrNotImplemented"
      [] OTHER -> None

\* ParseHTTPError: a body that breaks off while it is read loses the rest; a
\* problem is parsed only under its media type.
ParseHTTPError(response, broken) ==
    IF broken THEN Failed("read")
    ELSE Result("http", MapStatusToSentinel(response.status), response.status,
                IF response.type = "problem" /\ Decodes(response.body)
                THEN Unmarshal(response.body) ELSE None,
                None)

\* The zero value, which an object of another kind decodes to.
ZeroConfig == [id |-> None, aud |-> "absent"]

DecodeAs(op, body) ==
    IF op # "ListConfig" /\ "streams" \in DOMAIN body THEN ZeroConfig ELSE body

\* Mutant: what is no error status is a success.
Below400(status) == status < 400

Is2xx(status) == status \in 200..299

\* do.
Receive(op, response, broken) ==
    IF ~Is2xx(response.status) THEN ParseHTTPError(response, broken)
    ELSE IF op \in Valueless \/ response.status = 204 \/ response.body = None
    THEN Success(None)
    ELSE IF broken THEN Failed("decode")
    ELSE Success(DecodeAs(op, response.body))
=============================================================================

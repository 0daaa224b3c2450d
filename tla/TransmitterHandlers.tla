------------------------ MODULE TransmitterHandlers ------------------------
(***************************************************************************)
(* The Transmitter's HTTP surface: transmitter.MuxHandler and the handlers *)
(* of the configuration, status, subject, verification and poll endpoints, *)
(* in front of interop.MemstoreTransmitter.  A handler runs between one    *)
(* request and one response and keeps nothing, so it is an operator: it    *)
(* takes the store and a request and gives the store and the response.     *)
(*                                                                         *)
(* A configuration is [id, aud], aud being "json", "absent" or "junk":     *)
(* bytes in Aud that are not JSON, which only a program that holds the     *)
(* store can put there.  What PollEvents answers is PollLoopback's matter. *)
(***************************************************************************)
EXTENDS StreamStore, ProblemDetails

CONSTANTS
    Unread,  \* a body that is too long, or whose reading fails
    Junk     \* a body that is not JSON, or not of the right shape

\* Bodies are None when empty.  A request has the query parameters stream_id
\* and subject, None when absent.
Request(path, method, id, subject, body) ==
    [path |-> path, method |-> method, id |-> id, subject |-> subject, body |-> body]

\* The texts of the Transmitter's own problems: about:blank, the title that
\* goes with a status, and some detail.
Blank == 1
Detail == 2

StatusOf(err) ==
    CASE err \in {"ErrValidation", "ErrInvalidConfig"} -> 400
      [] err = "ErrUnauthorized" -> 401
      [] err = "ErrStreamNotFound" -> 404
      [] err = "ErrNotImplemented" -> 501
      [] OTHER -> 500

Response(status, type, body) == [status |-> status, type |-> type, body |-> body]

\* writeProblemStatus and Default401Handler.
ProblemResponse(status) ==
    Response(status, "problem",
        Marshal(Problem([k \in Registered |->
            CASE k = "type" -> Blank [] k = "title" -> status
              [] k = "status" -> status [] k = "detail" -> Detail
              [] OTHER -> 0], <<>>)))

Handled(store, response) == [store |-> store, response |-> response]

\* writeProblem.
Refusal(store, err) == Handled(store, ProblemResponse(StatusOf(err)))

\* What a handler does with the answer of the Transmitter; a value that does
\* not marshal makes it a 500 whatever the call did.  The body of a 204 and
\* the empty object of writeEmptyJSON are None.
WriteJSON(result, status, encodable, body) ==
    IF result.err # "nil" THEN Refusal(result.store, result.err)
    ELSE IF ~encodable THEN Refusal(result.store, "marshal")
    ELSE Handled(result.store, Response(status, "json", body))

Encodable(cfg) == cfg.aud # "junk"

\* decodeJSONBody.
BadBody(body) == body \in {None, Unread, Junk}

-----------------------------------------------------------------------------
\* interop.MemstoreTransmitter: all but Verify and PollEvents delegate.
Verify(store) == Refuse(store, "ErrNotImplemented")

PollEvents(store, id) ==
    IF id \in DOMAIN store.streams THEN Answer(store, "nil", [sets |-> {}])
    ELSE Refuse(store, "ErrStreamNotFound")

\* A Transmitter may also fail on its own account, with nothing done.
Try(works, store, result) == IF works THEN result ELSE Refuse(store, "backend")

ListConfig(store, works) ==
    LET result == Try(works, store, ListStreams(store))
    IN  WriteJSON(result, 200, \A cfg \in result.out : Encodable(cfg),
                  [streams |-> result.out])

GetConfig(store, works, id) ==
    LET result == Try(works, store, GetStream(store, id))
    IN  WriteJSON(result, 200, Encodable(result.out), result.out)

CreateConfig(store, works, body) ==
    IF BadBody(body) THEN Refusal(store, "ErrValidation")
    ELSE LET result == Try(works, store, CreateStream(store, body))
         IN  WriteJSON(result, 201, Encodable(result.out), result.out)

\* Mutant: the body's stream_id stands.
UpdateConfigOfBody(store, works, id, body) ==
    IF id = None \/ BadBody(body) THEN Refusal(store, "ErrValidation")
    ELSE LET result == Try(works, store, UpdateStream(store, body))
         IN  WriteJSON(result, 200, Encodable(result.out), result.out)

UpdateConfig(store, works, id, body) ==
    IF id = None \/ BadBody(body) THEN Refusal(store, "ErrValidation")
    ELSE LET result == Try(works, store, UpdateStream(store, [body EXCEPT !.id = id]))
         IN  WriteJSON(result, 200, Encodable(result.out), result.out)

DeleteConfig(store, works, id) ==
    IF id = None THEN Refusal(store, "ErrValidation")
    ELSE WriteJSON(Try(works, store, DeleteStream(store, id)), 204, TRUE, None)

ConfigHandler(store, works, r) ==
    CASE r.method = "GET" /\ r.id = None -> ListConfig(store, works)
      [] r.method = "GET" /\ r.id # None -> GetConfig(store, works, r.id)
      [] r.method = "POST"   -> CreateConfig(store, works, r.body)
      [] r.method = "PATCH"  -> UpdateConfig(store, works, r.id, r.body)
      [] r.method = "DELETE" -> DeleteConfig(store, works, r.id)
      [] OTHER -> Handled(store, ProblemResponse(405))

GetStatus(store, works, r) ==
    IF r.subject = Garbled THEN Refusal(store, "ErrValidation")
    ELSE LET result == Try(works, store, GetStreamStatus(store, r.id, r.subject))
         IN  WriteJSON(result, 200, TRUE, result.out)

UpdateStatus(store, works, r) ==
    IF BadBody(r.body) THEN Refusal(store, "ErrValidation")
    ELSE LET result == Try(works, store,
                           SetStreamStatus(store, r.id, r.body.status, r.body.subject))
         IN  WriteJSON(result, 200, TRUE, result.out)

\* The one handler that asks for stream_id before it looks at the method.
StatusHandler(store, works, r) ==
    CASE r.id = None -> Refusal(store, "ErrValidation")
      [] r.id # None /\ r.method = "GET" -> GetStatus(store, works, r)
      [] r.id # None /\ r.method = "POST" -> UpdateStatus(store, works, r)
      [] OTHER -> Handled(store, ProblemResponse(405))

\* Mutant: the method is looked at when all is done.
PostHandlerLate(store, r, decodes, result) ==
    IF r.id = None \/ BadBody(r.body) \/ ~decodes
    THEN Refusal(store, "ErrValidation")
    ELSE IF r.method # "POST" THEN Handled(result.store, ProblemResponse(405))
    ELSE WriteJSON(result, 200, TRUE, result.out)

\* The handlers that take a POST only; "result" is what the Transmitter would
\* do, and "decodes" whether the body has what the endpoint needs.
PostHandler(store, r, decodes, result) ==
    IF r.method # "POST" THEN Handled(store, ProblemResponse(405))
    ELSE IF r.id = None \/ BadBody(r.body) \/ ~decodes
    THEN Refusal(store, "ErrValidation")
    ELSE WriteJSON(result, 200, TRUE, result.out)

\* AddSubjectRequest.UnmarshalJSON and its twin parse the identifier.
HasIdentifier(r) == BadBody(r.body) \/ r.body.subject \notin {None, Garbled}

AddSubjectHandler(store, works, r) ==
    PostHandler(store, r, HasIdentifier(r),
                Try(works, store, AddSubject(store, r.id, r.body.subject)))

RemoveSubjectHandler(store, works, r) ==
    PostHandler(store, r, HasIdentifier(r),
                Try(works, store, RemoveSubject(store, r.id, r.body.subject)))

VerificationHandler(store, works, r) ==
    PostHandler(store, r, TRUE, Try(works, store, Verify(store)))

PollHandler(store, works, r) ==
    PostHandler(store, r, TRUE, Try(works, store, PollEvents(store, r.id)))

Route(store, works, r) ==
    CASE r.path = "config" -> ConfigHandler(store, works, r)
      [] r.path = "status" -> StatusHandler(store, works, r)
      [] r.path = "add"    -> AddSubjectHandler(store, works, r)
      [] r.path = "remove" -> RemoveSubjectHandler(store, works, r)
      [] r.path = "verify" -> VerificationHandler(store, works, r)
      [] r.path = "poll"   -> PollHandler(store, works, r)

\* MuxHandler, and runAuth at the top of every handler; a path that is not
\* mounted is the mux's own 404, before any authentication.
Handle(store, admitted, works, r) ==
    IF r.path = "elsewhere" THEN Handled(store, Response(404, "text", None))
    ELSE IF ~admitted THEN Refusal(store, "ErrUnauthorized")
    ELSE Route(store, works, r)
=============================================================================

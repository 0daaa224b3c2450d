---------------------------- MODULE MCManagement ----------------------------
(***************************************************************************)
(* Values for Management: one named and one minted stream, calls of each   *)
(* of the eleven methods, requests no client sends, and what gateways say. *)
(***************************************************************************)
EXTENDS Management

CONSTANT a

NamesV == {a}
Subject == [value |-> 1, form |-> "plain"]
Config(id, aud) == [id |-> id, aud |-> aud]
Status(status, subject) == [status |-> status, subject |-> subject]
Empty == [nothing |-> TRUE]

AnyCallsV ==
    {Call("GetConfig", a, None, None), Call("GetConfig", None, None, None),
     Call("ListConfig", None, None, None),
     Call("CreateConfig", None, None, Config(a, "json")),
     Call("CreateConfig", None, None, Config(None, "json")),
     Call("UpdateConfig", None, None, Config(a, "absent")),
     Call("UpdateConfig", None, None, Config(a, "junk")),
     Call("DeleteConfig", a, None, None),
     Call("GetStatus", a, Subject, None),
     Call("UpdateStatus", a, None, Status("paused", None)),
     Call("AddSubject", a, None, [subject |-> Subject]),
     Call("RemoveSubject", a, None, [subject |-> Subject]),
     Call("Verify", a, None, Empty),
     Call("PollEvents", a, None, Empty)}

LocalCallsV == {Call("CreateConfig", None, None, Config(a, "junk"))}

ForeignRequestsV ==
    {Request("config", "PATCH", a, None, Config(1, "absent")),
     Request("config", "POST", None, None, Junk),
     Request("add", "GET", a, None, [subject |-> Subject]),
     Request("status", "POST", a, None, Unread),
     Request("status", "DELETE", a, None, None),
     Request("remove", "POST", a, None, [subject |-> None]),
     Request("elsewhere", "POST", a, None, Empty)}

\* Keys as a\/b, which is read as a/b; x":1,"status, which is two members;
\* x":1},"y, which ends the object; and a"b, which ends the name.
UnescapedV ==
    [renamed   |-> [members |-> [j \in {0} |-> Member("code", Null)], then |-> "value"],
     injecting |-> [members |-> [j \in {-1, 0} |->
                                    IF j = 0 THEN Member("status", Null)
                                    ELSE Member("code", Number(1))],
                    then |-> "value"],
     closing   |-> [members |-> [j \in {-1} |-> Member("code", Number(1))],
                    then |-> "closes"],
     breaking  |-> [members |-> << >>, then |-> "breaks"]]

Saying(status, members) == Response(status, "problem", Document(members))

\* A problem with two titles and an extension, problems with keys that JSON
\* escapes, one of which marshals, and one that is cut off.
IntermediaryV ==
    {Saying(502, <<Member("title", Text(3)), Member("code", Other),
                   Member("status", Number(503)), Member("title", Text(4)),
                   Member("detail", Null)>>),
     Saying(404, <<Member("renamed", Text(5)), Member("status", Number(404)),
                   Member("closing", Other), Member("breaking", Other)>>),
     Saying(404, <<Member("injecting", Number(200)), Member("status", Number(404)),
                   Member("breaking", Other)>>),
     Response(302, "problem",
        [Document(<<Member("title", Text(3))>>) EXCEPT !.complete = FALSE])}
=============================================================================

--------------------------- MODULE ProblemDetails ---------------------------
(***************************************************************************)
(* ssf.ProblemDetails and its JSON codec (errors.go).  A document is what  *)
(* the bytes of a body are: an object or not, complete or cut off, and its *)
(* members by their positions, integers of which only the order counts.    *)
(* A text is a number that names it, 0 the empty one.  The key of a member *)
(* is what its name is once its escapes are gone.                          *)
(***************************************************************************)
EXTENDS Integers, Sequences

Registered == {"type", "title", "status", "detail", "instance"}

\* The order of the wire.
RegisteredOrder == <<"type", "title", "status", "detail", "instance">>

Text(n) == [kind |-> "text", of |-> n]
Number(n) == [kind |-> "number", of |-> n]
Null == [kind |-> "null", of |-> 0]
Other == [kind |-> "other", of |-> 0]

Member(key, value) == [key |-> key, value |-> value]

CONSTANT
    Unescaped \* what a decoder reads of the keys that JSON has to escape, when
              \* they are written between quotes as they are

\* It reads members, the last at 0.  Then that one takes the value that
\* follows ("value"), or the object is over ("closes"), or it is no JSON
\* ("breaks").
ASSUME UnescapedAssumption ==
    \A key \in DOMAIN Unescaped :
        /\ DOMAIN Unescaped[key].members \subseteq -3..0
        /\ Unescaped[key].then \in {"value", "closes", "breaks"}
        /\ Unescaped[key].then = "value" <=> 0 \in DOMAIN Unescaped[key].members

Document(members) == [object |-> TRUE, complete |-> TRUE, members |-> members]

\* json.Unmarshal of a registered member's value: null leaves it alone.
Fits(member) ==
    member.value.kind \in {"null", IF member.key = "status" THEN "number" ELSE "text"}

Problem(fields, extensions) == [fields |-> fields, extensions |-> extensions]

NoProblem == Problem([k \in Registered |-> 0], <<>>)

IsRegistered(member) == member.key \in Registered

\* UnmarshalJSON succeeds: nothing is asked of what follows the object.
Decodes(doc) ==
    /\ doc.object /\ doc.complete
    /\ \A i \in DOMAIN doc.members : IsRegistered(doc.members[i]) => Fits(doc.members[i])

\* The last of the members of one name counts, extensions stay in order.
Unmarshal(doc) ==
    Problem([k \in Registered |->
                LET at == {i \in DOMAIN doc.members :
                              doc.members[i].key = k /\ doc.members[i].value # Null}
                IN  IF at = {} THEN 0
                    ELSE doc.members[CHOOSE i \in at : \A j \in at : j <= i].value.of],
            [i \in {i \in DOMAIN doc.members : ~IsRegistered(doc.members[i])} |->
                doc.members[i]])

\* What is read where a key was written as it is.
Reading(key) ==
    IF key \in DOMAIN Unescaped THEN Unescaped[key]
    ELSE [members |-> [j \in {0} |-> Member(key, Null)], then |-> "value"]

\* No key has to be escaped.
Plain(extensions) == \A i \in DOMAIN extensions : extensions[i].key \notin DOMAIN Unescaped

\* What is read of an object goes as far as the first key that closes it.
Reached(extensions) ==
    {i \in DOMAIN extensions :
        \A j \in DOMAIN extensions :
            j < i => Reading(extensions[j].key).then # "closes"}

Parses(extensions) ==
    \A i \in Reached(extensions) : Reading(extensions[i].key).then # "breaks"

\* The members read where the extensions were written: what is read of the
\* key at i has the places up to 4 * i.
AsRead(extensions) ==
    [at \in UNION {{4 * i + j : j \in DOMAIN Reading(extensions[i].key).members} :
                      i \in Reached(extensions)} |->
        LET i == (at + 3) \div 4
            member == Reading(extensions[i].key).members[at - 4 * i]
        IN  IF at = 4 * i THEN Member(member.key, extensions[i].value) ELSE member]

\* MarshalJSON has to read Extensions, where UnmarshalJSON wrote the keys as
\* they are; and json.Marshal reads what MarshalJSON made of it.
Marshals(problem) ==
    /\ Parses(problem.extensions)
    /\ LET read == AsRead(problem.extensions)
       IN  \A i \in DOMAIN read : Reading(read[i].key).then = "value"

\* The registered members that are not zero, before every extension.
RegisteredMembers(problem) ==
    [i \in {i \in -4..0 : problem.fields[RegisteredOrder[i + 5]] # 0} |->
        LET k == RegisteredOrder[i + 5]
        IN  Member(k, IF k = "status" THEN Number(problem.fields[k])
                      ELSE Text(problem.fields[k]))]

Followed(first, then) ==
    [i \in DOMAIN first \cup DOMAIN then |-> IF i > 0 THEN then[i] ELSE first[i]]

\* What is read where MarshalJSON wrote the extensions, keys as they are again.
Rewritten(problem) == AsRead(AsRead(problem.extensions))

\* Mutant: the status is left to the response line.
MarshalWithoutStatus(problem) ==
    Document(Followed(RegisteredMembers([problem EXCEPT !.fields["status"] = 0]),
                      Rewritten(problem)))

\* MarshalJSON: the registered members that are not zero, in order, then the
\* extensions; where a name is in both the extension comes last.
Marshal(problem) == Document(Followed(RegisteredMembers(problem), Rewritten(problem)))

\* Equal but for the numbers that the places of the members have.
Same(p, q) ==
    /\ p.fields = q.fields
    /\ \E at \in [DOMAIN p.extensions -> DOMAIN q.extensions] :
          /\ \A i, j \in DOMAIN p.extensions : i < j => at[i] < at[j]
          /\ \A j \in DOMAIN q.extensions : \E i \in DOMAIN p.extensions : at[i] = j
          /\ \A i \in DOMAIN p.extensions : q.extensions[at[i]] = p.extensions[i]
=============================================================================

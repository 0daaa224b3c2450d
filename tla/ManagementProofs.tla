-------------------------- MODULE ManagementProofs --------------------------
(***************************************************************************)
(* What Management promises, for all clients, calls, foreign requests and  *)
(* intermediaries of ManagementAssumption: a problem survives the wire, an *)
(* error answer has changed nothing, and clients over a network implement  *)
(* RemoteTransmitter.                                                      *)
(***************************************************************************)
EXTENDS Management, TLAPS

-----------------------------------------------------------------------------
\* The invariant.

\* Stored values have their shapes, and every stream's statuses hold one for
\* the whole stream.
Typed(s) ==
    /\ s = [streams |-> s.streams, statuses |-> s.statuses, subjects |-> s.subjects,
            queues |-> s.queues, nextID |-> s.nextID]
    /\ s.nextID \in Nat
    /\ \A id \in DOMAIN s.streams : s.streams[id] \in Configs
    /\ \A id \in DOMAIN s.statuses :
          /\ Whole \in DOMAIN s.statuses[id]
          /\ \A key \in DOMAIN s.statuses[id] : s.statuses[id][key] \in Responses

\* A call whose request goes out.
Sendable(k) == IsCall(k) /\ LocalError(k) = "nil"

\* What a client reads of a success.
Value(op, response) == Receive(op, response, FALSE).out

\* The response tells what the outcome is.
Explains(op, response, outcome) ==
    IF Is2xx(response.status)
    THEN outcome = Remote!Outcome("nil", Value(op, response))
    ELSE /\ outcome.err # "nil"
         /\ Remote!Told(outcome.err) = MapStatusToSentinel(response.status)
         /\ response = ProblemResponse(response.status)

\* The variables are maps of clients, and what goes out are calls that exist.
Shapes ==
    /\ call = [c \in Clients |-> call[c]]
    /\ wire = [c \in Clients |-> wire[c]]
    /\ reply = [c \in Clients |-> reply[c]]
    /\ result = [c \in Clients |-> result[c]]
    /\ outcomes = [c \in Clients |-> outcomes[c]]
    /\ late \subseteq AnyCalls
    /\ \A c \in Clients : call[c] # None => call[c] \in AnyCalls

\* A doer waits on a request of its client's call.
Requested(c) ==
    wire[c] # None =>
        /\ Waits(c) /\ reply[c] = None
        /\ LocalError(call[c]) = "nil"
        /\ wire[c] = NewRequest(call[c])

\* A response is an intermediary's, or tells of something that was done.
Answered(c) ==
    reply[c] # None =>
        /\ Waits(c)
        /\ \/ reply[c] \in Intermediary
           \/ \E outcome \in outcomes[c] : Explains(call[c].op, reply[c], outcome)

\* A problem that was returned is that of a response.
Sent(response) ==
    \/ response \in Intermediary
    \/ response = ProblemResponse(response.status)

\* So is the problem in the HTTPError a caller holds (client/errors.go:85-143).
Reported(c) ==
    result[c] # None /\ result[c].problem # None =>
        \E response :
            /\ Sent(response)
            /\ result[c].problem = Unmarshal(response.body)
            /\ result[c].status = response.status

\* The inductive invariant: what is on the wire, in a response and in a result
\* goes back to the call and to what was done for it.
IInv ==
    /\ Typed(store)
    /\ Shapes
    /\ \A k \in late : LocalError(k) = "nil"
    /\ \A c \in Clients : Requested(c) /\ Answered(c) /\ Reported(c)

-----------------------------------------------------------------------------
(* Problems and their documents *)

\* Each registered member has one place on the wire.
LEMMA OnePlace ==
    ASSUME NEW k \in Registered
    PROVE  \E i \in -4..0 :
              /\ RegisteredOrder[i + 5] = k
              /\ \A j \in -4..0 : RegisteredOrder[j + 5] = k => j = i
<1>1. \A j \in -4..0 : j = -4 \/ j = -3 \/ j = -2 \/ j = -1 \/ j = 0
  OBVIOUS
<1>2. /\ RegisteredOrder[-4 + 5] = "type"   /\ RegisteredOrder[-3 + 5] = "title"
      /\ RegisteredOrder[-2 + 5] = "status" /\ RegisteredOrder[-1 + 5] = "detail"
      /\ RegisteredOrder[0 + 5] = "instance"
  BY DEF RegisteredOrder
<1>3. k \in {"type", "title", "status", "detail", "instance"}
  BY DEF Registered
<1>. QED
  BY <1>1, <1>2, <1>3

\* What stands at the five places of the wire is a registered member.
LEMMA PlacesRegistered ==
    \A i \in -4..0 : RegisteredOrder[i + 5] \in Registered
<1>1. \A j \in -4..0 : j = -4 \/ j = -3 \/ j = -2 \/ j = -1 \/ j = 0
  OBVIOUS
<1>2. /\ RegisteredOrder[-4 + 5] = "type"   /\ RegisteredOrder[-3 + 5] = "title"
      /\ RegisteredOrder[-2 + 5] = "status" /\ RegisteredOrder[-1 + 5] = "detail"
      /\ RegisteredOrder[0 + 5] = "instance"
  BY DEF RegisteredOrder
<1>. QED
  BY <1>1, <1>2 DEF Registered

\* Members of a document at the places of extensions.
AreMembers(members) ==
    /\ members = [i \in DOMAIN members |-> members[i]]
    /\ DOMAIN members \subseteq Nat \ {0}
    /\ \A i \in DOMAIN members : members[i] = Member(members[i].key, members[i].value)

\* What UnmarshalJSON makes of any document: five fields, and extensions none
\* of which is a registered member.
IsProblem(p) ==
    /\ p = Problem(p.fields, p.extensions)
    /\ p.fields = [k \in Registered |-> p.fields[k]]
    /\ AreMembers(p.extensions)
    /\ \A i \in DOMAIN p.extensions : ~IsRegistered(p.extensions[i])

\* MarshalJSON's document of the fields of p with the members e after them.
Written(p, e) == Document(Followed(RegisteredMembers(p), e))

\* Where a registered member is written, and what it is (errors.go:240-309).
LEMMA WrittenMembers ==
    ASSUME NEW p, NEW e,
           p.fields = [k \in Registered |-> p.fields[k]],
           e = [i \in DOMAIN e |-> e[i]], DOMAIN e \subseteq Nat \ {0}
    PROVE  LET members == Written(p, e).members
           IN  /\ \A i \in DOMAIN e : i \in DOMAIN members /\ members[i] = e[i]
               /\ \A i \in DOMAIN members \ DOMAIN e :
                     /\ i \in -4..0
                     /\ p.fields[RegisteredOrder[i + 5]] # 0
                     /\ members[i].key = RegisteredOrder[i + 5]
                     /\ members[i].value # Null
                     /\ members[i].value.of = p.fields[RegisteredOrder[i + 5]]
                     /\ Fits(members[i])
               /\ \A i \in -4..0 : p.fields[RegisteredOrder[i + 5]] # 0
                                  => i \in DOMAIN members
<1> DEFINE first == RegisteredMembers(p)
           members == Written(p, e).members
<1>1. members = [i \in DOMAIN first \cup DOMAIN e |-> IF i > 0 THEN e[i] ELSE first[i]]
  BY DEF Written, Document, Followed
<1>2. DOMAIN first = {i \in -4..0 : p.fields[RegisteredOrder[i + 5]] # 0}
  BY DEF RegisteredMembers
<1>3. ASSUME NEW i \in DOMAIN first
      PROVE  /\ first[i].key = RegisteredOrder[i + 5]
             /\ first[i].value # Null
             /\ first[i].value.of = p.fields[RegisteredOrder[i + 5]]
             /\ Fits(first[i])
  <2>1. first[i] = LET k == RegisteredOrder[i + 5]
                   IN  Member(k, IF k = "status" THEN Number(p.fields[k])
                                 ELSE Text(p.fields[k]))
    BY <1>2 DEF RegisteredMembers
  <2>. QED
    BY <2>1 DEF Member, Number, Text, Null, Fits
<1>4. \A i \in DOMAIN e : i \in Nat /\ i > 0
  OBVIOUS
<1>5. \A i \in DOMAIN first : i \in -4..0 /\ ~(i > 0)
  BY <1>2
<1> HIDE DEF first, members
<1>6. \A i \in DOMAIN e : i \in DOMAIN members /\ members[i] = e[i]
  BY <1>1, <1>4
<1>7. \A i \in DOMAIN members \ DOMAIN e : i \in DOMAIN first /\ members[i] = first[i]
  BY <1>1, <1>5
<1>8. \A i \in -4..0 : p.fields[RegisteredOrder[i + 5]] # 0 => i \in DOMAIN members
  BY <1>1, <1>2
<1>9. \A i \in DOMAIN first : p.fields[RegisteredOrder[i + 5]] # 0
  BY <1>2
<1>. QED
  BY <1>3, <1>5, <1>6, <1>7, <1>8, <1>9 DEF members

\* A document with the fields of p and after them members that are not
\* registered is read as just that (errors.go:326-409).
LEMMA WrittenReads ==
    ASSUME NEW p, NEW e,
           p.fields = [k \in Registered |-> p.fields[k]],
           e = [i \in DOMAIN e |-> e[i]], DOMAIN e \subseteq Nat \ {0},
           \A i \in DOMAIN e : ~IsRegistered(e[i])
    PROVE  /\ Decodes(Written(p, e))
           /\ Unmarshal(Written(p, e)) = Problem(p.fields, e)
<1> DEFINE members == Written(p, e).members
<1>1. \A i \in DOMAIN e :
         i \in DOMAIN members /\ members[i] = e[i] /\ ~IsRegistered(members[i])
  BY WrittenMembers
<1>2. \A i \in DOMAIN members \ DOMAIN e :
         /\ i \in -4..0
         /\ p.fields[RegisteredOrder[i + 5]] # 0
         /\ members[i].key = RegisteredOrder[i + 5]
         /\ members[i].value # Null
         /\ members[i].value.of = p.fields[RegisteredOrder[i + 5]]
         /\ Fits(members[i])
  BY WrittenMembers
<1>3. \A i \in -4..0 : p.fields[RegisteredOrder[i + 5]] # 0 => i \in DOMAIN members
  BY WrittenMembers
<1>4. \A i \in DOMAIN members \ DOMAIN e : IsRegistered(members[i])
  BY <1>2, PlacesRegistered DEF IsRegistered
<1>5. Written(p, e).object /\ Written(p, e).complete
  BY DEF Written, Document
<1> HIDE DEF members
<1>6. Decodes(Written(p, e))
  BY <1>1, <1>2, <1>5 DEF Decodes, members
<1>7. [i \in {i \in DOMAIN members : ~IsRegistered(members[i])} |-> members[i]] = e
  <2>1. {i \in DOMAIN members : ~IsRegistered(members[i])} = DOMAIN e
    BY <1>1, <1>4
  <2>. QED
    BY <1>1, <2>1
<1>8. ASSUME NEW k \in Registered
      PROVE  LET at == {i \in DOMAIN members :
                          members[i].key = k /\ members[i].value # Null}
             IN  (IF at = {} THEN 0
                  ELSE members[CHOOSE i \in at : \A j \in at : j <= i].value.of)
                   = p.fields[k]
  <2> DEFINE at == {i \in DOMAIN members : members[i].key = k /\ members[i].value # Null}
  <2>1. PICK place \in -4..0 :
           /\ RegisteredOrder[place + 5] = k
           /\ \A j \in -4..0 : RegisteredOrder[j + 5] = k => j = place
    BY OnePlace
  <2>2. \A i \in at : i = place /\ p.fields[k] # 0 /\ members[i].value.of = p.fields[k]
    BY <1>1, <1>2, <2>1 DEF IsRegistered
  <2>3. p.fields[k] # 0 => place \in at
    BY <1>1, <1>2, <1>3, <2>1, <2>2
  <2>4. CASE p.fields[k] = 0
    BY <2>2, <2>4
  <2>5. CASE p.fields[k] # 0
    <3>1. at = {place}
      BY <2>2, <2>3, <2>5
    <3>2. (CHOOSE i \in at : \A j \in at : j <= i) = place
      BY <3>1
    <3>. QED
      BY <2>2, <3>1, <3>2
  <2>. QED
    BY <2>4, <2>5
<1>9. Unmarshal(Written(p, e)) = Problem(p.fields, e)
  <2> DEFINE FieldOf(k) == LET at == {i \in DOMAIN members :
                                     members[i].key = k /\ members[i].value # Null}
                           IN  IF at = {} THEN 0
                               ELSE members[CHOOSE i \in at : \A j \in at : j <= i].value.of
  <2>1. Unmarshal(Written(p, e))
          = Problem([k \in Registered |-> FieldOf(k)],
                    [i \in {i \in DOMAIN members : ~IsRegistered(members[i])} |-> members[i]])
    BY DEF Unmarshal, members
  <2>2. \A k \in Registered : FieldOf(k) = p.fields[k]
    BY <1>8
  <2> HIDE DEF FieldOf
  <2>3. [k \in Registered |-> FieldOf(k)] = p.fields
    BY <2>2
  <2>. QED
    BY <1>7, <2>1, <2>3
<1>. QED
  BY <1>6, <1>9

\* The places of what is read come after those of the registered members.
LEMMA ReadPlaces ==
    ASSUME NEW e, DOMAIN e \subseteq Nat \ {0}
    PROVE  /\ AsRead(e) = [at \in DOMAIN AsRead(e) |-> AsRead(e)[at]]
           /\ DOMAIN AsRead(e) \subseteq Nat \ {0}
<1>1. ASSUME NEW i \in DOMAIN e, NEW j \in DOMAIN Reading(e[i].key).members
      PROVE  4 * i + j \in Nat \ {0}
  <2>1. j \in -3..0
    BY <1>1, UnescapedAssumption DEF Reading
  <2>. QED
    BY <2>1
<1>. QED
  BY <1>1 DEF AsRead, Reached

\* Keys that need no escaping are read as they were written, one for one
\* (errors.go:366-376, 424-452).
LEMMA PlainReads ==
    ASSUME NEW e, AreMembers(e), Plain(e)
    PROVE  /\ Parses(e)
           /\ AsRead(e) = [at \in {4 * i : i \in DOMAIN e} |-> e[at \div 4]]
           /\ AreMembers(AsRead(e)) /\ Plain(AsRead(e))
           /\ \A i \in DOMAIN e : 4 * i \in DOMAIN AsRead(e) /\ AsRead(e)[4 * i] = e[i]
           /\ \A at \in DOMAIN AsRead(e) : \E i \in DOMAIN e : at = 4 * i
<1>1. ASSUME NEW i \in DOMAIN e
      PROVE  /\ Reading(e[i].key).members = [j \in {0} |-> Member(e[i].key, Null)]
             /\ Reading(e[i].key).then = "value"
             /\ i \in Nat \ {0}
             /\ e[i] = Member(e[i].key, e[i].value)
  BY <1>1 DEF Reading, Plain, AreMembers
<1>2. Reached(e) = DOMAIN e
  BY <1>1 DEF Reached
<1>3. Parses(e)
  BY <1>1, <1>2 DEF Parses
<1>4. DOMAIN AsRead(e) = {4 * i : i \in DOMAIN e}
  <2> DEFINE places(i) == {4 * i + j : j \in DOMAIN Reading(e[i].key).members}
  <2>1. \A i \in DOMAIN e : places(i) = {4 * i}
    BY <1>1
  <2>2. DOMAIN AsRead(e) = UNION {places(i) : i \in DOMAIN e}
    BY <1>2 DEF AsRead
  <2> HIDE DEF places
  <2>3. UNION {places(i) : i \in DOMAIN e} = {4 * i : i \in DOMAIN e}
    BY <2>1
  <2>. QED
    BY <2>2, <2>3
<1>5. ASSUME NEW i \in DOMAIN e
      PROVE  4 * i \in DOMAIN AsRead(e) /\ AsRead(e)[4 * i] = e[i] /\ (4 * i) \div 4 = i
  <2>1. 4 * i \in DOMAIN AsRead(e)
    BY <1>4
  <2>2. (4 * i + 3) \div 4 = i /\ (4 * i) \div 4 = i /\ 4 * i - 4 * i = 0
    BY <1>1
  <2>3. AsRead(e)[4 * i] = Member(Reading(e[i].key).members[0].key, e[i].value)
    BY <2>1, <2>2 DEF AsRead
  <2>4. Reading(e[i].key).members[0].key = e[i].key
    <3>1. Reading(e[i].key).members[0] = Member(e[i].key, Null)
      BY <1>1
    <3>. QED
      BY <3>1 DEF Member
  <2>. QED
    BY <1>1, <2>1, <2>2, <2>3, <2>4
<1>6. AsRead(e) = [at \in DOMAIN AsRead(e) |-> AsRead(e)[at]]
  BY DEF AsRead
<1> DEFINE read == AsRead(e)
<1> HIDE DEF read
<1>7. read = [at \in {4 * i : i \in DOMAIN e} |-> e[at \div 4]]
  <2>1. \A at \in DOMAIN read : read[at] = e[at \div 4]
    BY <1>4, <1>5 DEF read
  <2>. QED
    BY <1>4, <1>6, <2>1 DEF read
<1>8. ASSUME NEW at \in DOMAIN read
      PROVE  \E i \in DOMAIN e : at = 4 * i /\ read[at] = e[i]
  BY <1>4, <1>5 DEF read
<1>9. AreMembers(read)
  <2>1. \A at \in DOMAIN read : at \in Nat \ {0} /\ read[at] = Member(read[at].key, read[at].value)
    BY <1>1, <1>8
  <2>. QED
    BY <1>6, <2>1 DEF AreMembers, read
<1>10. Plain(read)
  BY <1>8 DEF Plain
<1>. QED
  BY <1>3, <1>5, <1>7, <1>8, <1>9, <1>10 DEF read

\* Any problem keeps its fields where it marshals, unless a key is read as the
\* name of one; and one with no key to escape marshals, and is the same when it
\* is read again, with its extensions in order (errors.go:240-388, 424-452).
THEOREM RoundTrip ==
    ASSUME NEW p, IsProblem(p)
    PROVE  /\ /\ Marshals(p)
              /\ \A i \in DOMAIN Rewritten(p) : ~IsRegistered(Rewritten(p)[i])
              => /\ Decodes(Marshal(p))
                 /\ Unmarshal(Marshal(p)).fields = p.fields
           /\ Plain(p.extensions) =>
                 /\ Marshals(p)
                 /\ Decodes(Marshal(p))
                 /\ Same(Unmarshal(Marshal(p)), p)
<1> DEFINE e == p.extensions
           read == AsRead(e)
           again == Rewritten(p)
<1>1. /\ p.fields = [k \in Registered |-> p.fields[k]]
      /\ AreMembers(e) /\ DOMAIN e \subseteq Nat \ {0}
  BY DEF IsProblem, AreMembers
<1>2. /\ again = [i \in DOMAIN again |-> again[i]]
      /\ DOMAIN again \subseteq Nat \ {0}
  <2>1. DOMAIN read \subseteq Nat \ {0}
    BY <1>1, ReadPlaces
  <2>. QED
    BY <2>1, ReadPlaces DEF Rewritten
<1>3. Marshal(p) = Written(p, again)
  BY DEF Marshal, Written
<1>4. ASSUME \A i \in DOMAIN again : ~IsRegistered(again[i])
      PROVE  Decodes(Marshal(p)) /\ Unmarshal(Marshal(p)) = Problem(p.fields, again)
  <2> HIDE DEF again
  <2>. QED
    BY <1>1, <1>2, <1>3, <1>4, WrittenReads
<1>5. ASSUME Plain(e)
      PROVE  Marshals(p) /\ Decodes(Marshal(p)) /\ Same(Unmarshal(Marshal(p)), p)
  <2>1. /\ Parses(e) /\ AreMembers(read) /\ Plain(read)
        /\ \A i \in DOMAIN e : 4 * i \in DOMAIN read /\ read[4 * i] = e[i]
        /\ \A at \in DOMAIN read : \E i \in DOMAIN e : at = 4 * i
    BY <1>1, <1>5, PlainReads
  <2>2. /\ \A i \in DOMAIN read : 4 * i \in DOMAIN again /\ again[4 * i] = read[i]
        /\ \A at \in DOMAIN again : \E i \in DOMAIN read : at = 4 * i
    <3>1. again = AsRead(read)
      BY DEF Rewritten
    <3> HIDE DEF read, again
    <3>. QED
      BY <2>1, <3>1, PlainReads
  <2>3. Marshals(p)
    BY <2>1 DEF Marshals, Plain, Reading
  <2> HIDE DEF read, again, e
  <2>4. \A at \in DOMAIN again : \E i \in DOMAIN e : again[at] = e[i] /\ at = 16 * i
    <3> SUFFICES ASSUME NEW at \in DOMAIN again
                 PROVE  \E i \in DOMAIN e : again[at] = e[i] /\ at = 16 * i
      OBVIOUS
    <3>1. PICK k \in DOMAIN read : at = 4 * k
      BY <2>2
    <3>2. PICK i \in DOMAIN e : k = 4 * i
      BY <2>1
    <3>3. again[at] = e[i]
      BY <2>1, <2>2, <3>1, <3>2
    <3>4. at = 16 * i
      BY <1>1, <3>1, <3>2
    <3>. QED
      BY <3>3, <3>4
  <2>5. \A i \in DOMAIN e : 16 * i \in DOMAIN again /\ again[16 * i] = e[i]
    <3> SUFFICES ASSUME NEW i \in DOMAIN e
                 PROVE  16 * i \in DOMAIN again /\ again[16 * i] = e[i]
      OBVIOUS
    <3>1. 16 * i = 4 * (4 * i)
      BY <1>1
    <3>. QED
      BY <2>1, <2>2, <3>1
  <2>6. /\ Decodes(Marshal(p))
        /\ Unmarshal(Marshal(p)) = Problem(p.fields, again)
    <3>1. \A i \in DOMAIN e : ~IsRegistered(e[i])
      BY DEF IsProblem, e
    <3>. QED
      BY <1>4, <2>4, <3>1
  <2>7. Same(Problem(p.fields, again), p)
    <3> DEFINE q == Problem(p.fields, again)
               place == [at \in DOMAIN again |-> CHOOSE i \in DOMAIN e : at = 16 * i]
    <3>1. q.fields = p.fields /\ q.extensions = again
      BY DEF Problem
    <3>2. ASSUME NEW at \in DOMAIN again
          PROVE  place[at] \in DOMAIN e /\ at = 16 * place[at] /\ again[at] = e[place[at]]
      <4>1. place[at] \in DOMAIN e /\ at = 16 * place[at]
        BY <2>4
      <4>. QED
        BY <2>5, <4>1
    <3>3. place \in [DOMAIN again -> DOMAIN e]
      BY <3>2
    <3> HIDE DEF place, q
    <3>4. \A i, j \in DOMAIN again : i < j => place[i] < place[j]
      BY <1>1, <3>2
    <3>5. \A j \in DOMAIN e : \E i \in DOMAIN again : place[i] = j
      <4> SUFFICES ASSUME NEW j \in DOMAIN e
                   PROVE  \E i \in DOMAIN again : place[i] = j
        OBVIOUS
      <4>1. 16 * j \in DOMAIN again
        BY <2>5
      <4>2. place[16 * j] \in DOMAIN e /\ 16 * j = 16 * place[16 * j]
        BY <3>2, <4>1
      <4>3. place[16 * j] = j
        BY <1>1, <4>2
      <4>. QED
        BY <4>1, <4>3
    <3>6. \E at \in [DOMAIN q.extensions -> DOMAIN p.extensions] :
             /\ \A i, j \in DOMAIN q.extensions : i < j => at[i] < at[j]
             /\ \A j \in DOMAIN p.extensions : \E i \in DOMAIN q.extensions : at[i] = j
             /\ \A i \in DOMAIN q.extensions : p.extensions[at[i]] = q.extensions[i]
      BY <3>1, <3>2, <3>3, <3>4, <3>5 DEF e
    <3>. QED
      BY <3>1, <3>6 DEF Same, q
  <2>. QED
    BY <2>3, <2>6, <2>7
<1>6. Problem(p.fields, again).fields = p.fields
  BY DEF Problem
<1>. QED
  BY <1>4, <1>5, <1>6

\* What is read from a document is a problem (errors.go:326-388).
LEMMA UnmarshalIsProblem ==
    ASSUME NEW doc,
           \A i \in DOMAIN doc.members :
              ~IsRegistered(doc.members[i]) =>
                 /\ i \in Nat \ {0}
                 /\ doc.members[i] = Member(doc.members[i].key, doc.members[i].value)
    PROVE  IsProblem(Unmarshal(doc))
BY DEF IsProblem, AreMembers, Unmarshal, Problem

\* The problem of a handler's refusal: about:blank, with the response's status.
LEMMA OwnResponse ==
    ASSUME NEW status
    PROVE  LET response == ProblemResponse(status)
           IN  /\ response.status = status /\ response.type = "problem"
               /\ Decodes(response.body)
               /\ IsProblem(Unmarshal(response.body))
               /\ Unmarshal(response.body).fields["type"] = Blank
               /\ Unmarshal(response.body).fields["status"] = status
<1> DEFINE fields == [k \in Registered |->
                        CASE k = "type" -> Blank [] k = "title" -> status
                          [] k = "status" -> status [] k = "detail" -> Detail
                          [] OTHER -> 0]
           p == Problem(fields, <<>>)
<1>1. ProblemResponse(status) = Response(status, "problem", Marshal(p))
  BY DEF ProblemResponse
<1>2. fields["type"] = Blank /\ fields["status"] = status
  BY DEF Registered
<1>3. IsProblem(p)
  BY DEF IsProblem, AreMembers, Problem
<1> HIDE DEF fields
<1>4. p.fields = fields
  BY DEF Problem
<1> HIDE DEF p
<1>5. Decodes(Marshal(p)) /\ Unmarshal(Marshal(p)) = p
  <2>1. Rewritten(p) = <<>>
    <3>1. ASSUME NEW e, DOMAIN e = {}
          PROVE  DOMAIN AsRead(e) = {} /\ AsRead(e) = [at \in DOMAIN AsRead(e) |-> AsRead(e)[at]]
      BY <3>1 DEF AsRead, Reached
    <3>2. DOMAIN p.extensions = {}
      BY DEF p, Problem
    <3>3. DOMAIN Rewritten(p) = {} /\ Rewritten(p) = [at \in DOMAIN Rewritten(p) |-> Rewritten(p)[at]]
      BY <3>1, <3>2 DEF Rewritten
    <3>. QED
      BY <3>3
  <2>2. Marshal(p) = Written(p, <<>>)
    BY <2>1 DEF Marshal, Written
  <2>3. p = Problem(p.fields, <<>>)
    BY DEF p, Problem
  <2>4. <<>> = [i \in DOMAIN <<>> |-> <<>>[i]] /\ DOMAIN <<>> = {}
    OBVIOUS
  <2>5. p.fields = [k \in Registered |-> p.fields[k]]
    BY <1>3 DEF IsProblem
  <2>6. Decodes(Written(p, <<>>)) /\ Unmarshal(Written(p, <<>>)) = Problem(p.fields, <<>>)
    BY <2>4, <2>5, WrittenReads
  <2>. QED
    BY <2>2, <2>3, <2>6
<1>. QED
  BY <1>1, <1>2, <1>3, <1>4, <1>5 DEF Response

-----------------------------------------------------------------------------
(* Calls in the Transmitter's process *)

\* The store of the promise is the store.
LEMMA RemoteStore ==
    /\ Remote!EmptyStore = EmptyStore
    /\ \A s, id : Remote!GetStream(s, id) = GetStream(s, id)
    /\ \A s : Remote!ListStreams(s) = ListStreams(s)
    /\ \A s, cfg : Remote!CreateStream(s, cfg) = CreateStream(s, cfg)
    /\ \A s, cfg : Remote!UpdateStream(s, cfg) = UpdateStream(s, cfg)
    /\ \A s, id : Remote!DeleteStream(s, id) = DeleteStream(s, id)
    /\ \A s, id, subject :
          Remote!GetStreamStatus(s, id, subject) = GetStreamStatus(s, id, subject)
    /\ \A s, id, status, subject :
          Remote!SetStreamStatus(s, id, status, subject)
            = SetStreamStatus(s, id, status, subject)
    /\ \A s, id, subject :
          /\ Remote!AddSubject(s, id, subject) = AddSubject(s, id, subject)
          /\ Remote!RemoveSubject(s, id, subject) = RemoveSubject(s, id, subject)
<1> USE DEF Remote!Answer, Answer, Remote!Refuse, Refuse, Remote!EmptyMap, EmptyMap
<1>1. Remote!EmptyStore = EmptyStore
  BY DEF Remote!EmptyStore, EmptyStore
<1>2. \A s, id : Remote!GetStream(s, id) = GetStream(s, id)
  BY DEF Remote!GetStream, GetStream
<1>3. \A s : Remote!ListStreams(s) = ListStreams(s)
  BY DEF Remote!ListStreams, ListStreams
<1>4. \A f, k, v : Remote!Put(f, k, v) = Put(f, k, v) /\ Remote!Drop(f, k) = Drop(f, k)
  BY DEF Remote!Put, Put, Remote!Drop, Drop
<1>5. \A s, cfg, n : Remote!Seeded(s, cfg, n) = Seeded(s, cfg, n)
  BY <1>4 DEF Remote!Seeded, Seeded, Remote!EmptyStatus, EmptyStatus, Remote!Whole, Whole
<1>6. \A s, cfg : Remote!CreateStream(s, cfg) = CreateStream(s, cfg)
  BY <1>5 DEF Remote!CreateStream, CreateStream, Remote!MintedID, MintedID
<1>7. \A s, cfg : Remote!UpdateStream(s, cfg) = UpdateStream(s, cfg)
  BY <1>4 DEF Remote!UpdateStream, UpdateStream
<1>8. \A s, id : Remote!DeleteStream(s, id) = DeleteStream(s, id)
  BY <1>4 DEF Remote!DeleteStream, DeleteStream
<1>9. \A subject : /\ Remote!CanonicalKey(subject) = CanonicalKey(subject)
                   /\ Remote!Key(subject) = Key(subject)
  BY DEF Remote!CanonicalKey, CanonicalKey, Remote!Key, Key, Remote!Float, Float,
         Remote!Whole, Whole
<1>10. \A s, id, subject :
          Remote!GetStreamStatus(s, id, subject) = GetStreamStatus(s, id, subject)
  BY <1>9 DEF Remote!GetStreamStatus, GetStreamStatus, Remote!Whole, Whole
<1>11. \A s, id, status, subject :
          Remote!SetStreamStatus(s, id, status, subject)
            = SetStreamStatus(s, id, status, subject)
  BY <1>4, <1>9 DEF Remote!SetStreamStatus, SetStreamStatus
<1>12. \A s, id, subject :
          /\ Remote!AddSubject(s, id, subject) = AddSubject(s, id, subject)
          /\ Remote!RemoveSubject(s, id, subject) = RemoveSubject(s, id, subject)
  BY <1>9 DEF Remote!AddSubject, AddSubject, Remote!RemoveSubject, RemoveSubject
<1>. QED
  BY <1>1, <1>2, <1>3, <1>6, <1>7, <1>8, <1>10, <1>11, <1>12

\* What a call in the same process is, by its method.
LEMMA InProcessByMethod ==
    ASSUME NEW s, NEW k,
           k.op \in {"CreateConfig", "UpdateConfig", "UpdateStatus", "AddSubject",
                     "RemoveSubject"} => k.body # None
    PROVE  /\ k.op = "GetConfig" => Remote!InProcess(s, k) = GetStream(s, k.id)
           /\ k.op = "ListConfig" =>
                 Remote!InProcess(s, k)
                   = Answer(s, "nil", [streams |-> ListStreams(s).out])
           /\ k.op = "CreateConfig" => Remote!InProcess(s, k) = CreateStream(s, k.body)
           /\ k.op = "UpdateConfig" => Remote!InProcess(s, k) = UpdateStream(s, k.body)
           /\ k.op = "DeleteConfig" => Remote!InProcess(s, k) = DeleteStream(s, k.id)
           /\ k.op = "GetStatus" =>
                 Remote!InProcess(s, k) = GetStreamStatus(s, k.id, k.subject)
           /\ k.op = "UpdateStatus" =>
                 Remote!InProcess(s, k)
                   = SetStreamStatus(s, k.id, k.body.status, k.body.subject)
           /\ k.op = "AddSubject" =>
                 Remote!InProcess(s, k) = AddSubject(s, k.id, k.body.subject)
           /\ k.op = "RemoveSubject" =>
                 Remote!InProcess(s, k) = RemoveSubject(s, k.id, k.body.subject)
           /\ k.op = "Verify" => Remote!InProcess(s, k) = Verify(s)
           /\ k.op = "PollEvents" => Remote!InProcess(s, k) = PollEvents(s, k.id)
<1> USE RemoteStore DEF Remote!InProcess
<1>1. k.op = "GetConfig" => Remote!InProcess(s, k) = GetStream(s, k.id)
  OBVIOUS
<1>2. k.op = "ListConfig" =>
         Remote!InProcess(s, k) = Answer(s, "nil", [streams |-> ListStreams(s).out])
  BY DEF ListStreams, Answer
<1>3. k.op = "CreateConfig" => Remote!InProcess(s, k) = CreateStream(s, k.body)
  OBVIOUS
<1>4. k.op = "UpdateConfig" => Remote!InProcess(s, k) = UpdateStream(s, k.body)
  OBVIOUS
<1>5. k.op = "DeleteConfig" => Remote!InProcess(s, k) = DeleteStream(s, k.id)
  OBVIOUS
<1>6. k.op = "GetStatus" =>
         Remote!InProcess(s, k) = GetStreamStatus(s, k.id, k.subject)
  OBVIOUS
<1>7. k.op = "UpdateStatus" =>
         Remote!InProcess(s, k)
           = SetStreamStatus(s, k.id, k.body.status, k.body.subject)
  OBVIOUS
<1>8. k.op = "AddSubject" =>
         Remote!InProcess(s, k) = AddSubject(s, k.id, k.body.subject)
  OBVIOUS
<1>9. k.op = "RemoveSubject" =>
         Remote!InProcess(s, k) = RemoveSubject(s, k.id, k.body.subject)
  OBVIOUS
<1>10. k.op = "Verify" => Remote!InProcess(s, k) = Verify(s)
  BY DEF Verify, Remote!Refuse, Refuse, Remote!Answer, Answer
<1>11. k.op = "PollEvents" => Remote!InProcess(s, k) = PollEvents(s, k.id)
  BY DEF PollEvents, Remote!Refuse, Refuse, Remote!Answer, Answer
<1>. QED
  BY <1>1, <1>2, <1>3, <1>4, <1>5, <1>6, <1>7, <1>8, <1>9, <1>10, <1>11

\* Calls that pass a pointer need one.
NeedsBody == {"CreateConfig", "UpdateConfig", "UpdateStatus", "AddSubject", "RemoveSubject"}

\* A call without its body is refused.
LEMMA RefusedWithoutBody ==
    ASSUME NEW s, NEW k, k.op \in NeedsBody, k.body = None
    PROVE  Remote!InProcess(s, k) = Refuse(s, "ErrInvalidConfig")
BY DEF Remote!InProcess, NeedsBody, Remote!Refuse, Refuse, Remote!Answer, Answer

\* What the store and interop.MemstoreTransmitter answer with.
Shaped(answer) ==
    /\ answer = Answer(answer.store, answer.err, answer.out)
    /\ answer.err \in {"nil", "ErrInvalidConfig", "ErrStreamNotFound", "ErrNotImplemented"}

\* A new stream's entries leave the rest as it is.
LEMMA SeededTyped ==
    ASSUME NEW s, Typed(s), NEW cfg \in Configs, NEW nextID \in Nat
    PROVE  Typed(Seeded(s, cfg, nextID))
<1> DEFINE t == Seeded(s, cfg, nextID)
<1>1. /\ t.nextID = nextID /\ t.streams = Put(s.streams, cfg.id, cfg)
      /\ t.statuses = Put(s.statuses, cfg.id, EmptyStatus)
  BY DEF Seeded
<1>2. Whole \in DOMAIN EmptyStatus /\ \A key \in DOMAIN EmptyStatus : EmptyStatus[key] \in Responses
  BY DEF EmptyStatus, Responses, Statuses
<1> HIDE DEF t
<1>3. \A id \in DOMAIN t.streams : t.streams[id] \in Configs
  BY <1>1 DEF Put, Typed
<1>4. \A id \in DOMAIN t.statuses :
         t.statuses[id] = EmptyStatus \/ (id \in DOMAIN s.statuses /\ t.statuses[id] = s.statuses[id])
  BY <1>1 DEF Put
<1>. QED
  <2>1. t = [streams |-> t.streams, statuses |-> t.statuses, subjects |-> t.subjects,
             queues |-> t.queues, nextID |-> t.nextID]
    BY DEF t, Seeded
  <2>2. Typed(t)
    BY <1>1, <1>2, <1>3, <1>4, <2>1 DEF Typed
  <2>. QED
    BY <2>2 DEF t

\* Entries that change, in a store as a record.
LEMMA StoreFields ==
    ASSUME NEW s, Typed(s), NEW v
    PROVE  /\ [s EXCEPT !.streams = v]
                 = [streams |-> v, statuses |-> s.statuses, subjects |-> s.subjects,
                    queues |-> s.queues, nextID |-> s.nextID]
           /\ [s EXCEPT !.statuses = v]
                 = [streams |-> s.streams, statuses |-> v, subjects |-> s.subjects,
                    queues |-> s.queues, nextID |-> s.nextID]
           /\ [s EXCEPT !.subjects = v]
                 = [streams |-> s.streams, statuses |-> s.statuses, subjects |-> v,
                    queues |-> s.queues, nextID |-> s.nextID]
<1>1. PICK a, b, c, d, e :
         s = [streams |-> a, statuses |-> b, subjects |-> c, queues |-> d, nextID |-> e]
  BY DEF Typed
<1>2. /\ s.streams = a /\ s.statuses = b /\ s.subjects = c /\ s.queues = d
      /\ s.nextID = e
  BY <1>1
<1>3. [s EXCEPT !.streams = v]
         = [streams |-> v, statuses |-> b, subjects |-> c, queues |-> d, nextID |-> e]
  BY <1>1
<1>4. [s EXCEPT !.statuses = v]
         = [streams |-> a, statuses |-> v, subjects |-> c, queues |-> d, nextID |-> e]
  BY <1>1
<1>5. [s EXCEPT !.subjects = v]
         = [streams |-> a, statuses |-> b, subjects |-> v, queues |-> d, nextID |-> e]
  BY <1>1
<1>. QED
  BY <1>2, <1>3, <1>4, <1>5

\* DeleteStream takes the stream out of all four maps (memstore.go).
LEMMA DeletedFields ==
    ASSUME NEW s, Typed(s), NEW id
    PROVE  DeleteStream(s, id).store
             = [streams |-> Drop(s.streams, id), statuses |-> Drop(s.statuses, id),
                subjects |-> Drop(s.subjects, id), queues |-> Drop(s.queues, id),
                nextID |-> s.nextID]
<1>1. PICK a, b, c, d, e :
         s = [streams |-> a, statuses |-> b, subjects |-> c, queues |-> d, nextID |-> e]
  BY DEF Typed
<1> DEFINE one == [s EXCEPT !.streams = Drop(s.streams, id)]
           two == [one EXCEPT !.statuses = Drop(s.statuses, id)]
           three == [two EXCEPT !.subjects = Drop(s.subjects, id)]
<1>2. DeleteStream(s, id).store = [three EXCEPT !.queues = Drop(s.queues, id)]
  BY DEF DeleteStream, Answer
<1> HIDE DEF one, two, three
<1>3. one = [streams |-> Drop(s.streams, id), statuses |-> b, subjects |-> c,
             queues |-> d, nextID |-> e]
  BY <1>1 DEF one
<1>4. two = [streams |-> Drop(s.streams, id), statuses |-> Drop(s.statuses, id),
             subjects |-> c, queues |-> d, nextID |-> e]
  BY <1>3 DEF two
<1>5. three = [streams |-> Drop(s.streams, id), statuses |-> Drop(s.statuses, id),
               subjects |-> Drop(s.subjects, id), queues |-> d, nextID |-> e]
  BY <1>4 DEF three
<1>6. s.nextID = e
  BY <1>1
<1>. QED
  BY <1>2, <1>5, <1>6

\* Every call in the Transmitter's process leaves shapes as they are, while the
\* minted ids keep their bound.
LEMMA InProcessTyped ==
    ASSUME NEW s, Typed(s), NEW k, IsCall(k),
           Remote!InProcess(s, k).store.nextID <= MaxMint
    PROVE  Typed(Remote!InProcess(s, k).store)
<1> DEFINE t == Remote!InProcess(s, k).store
<1> USE DEF Refuse, Answer, NeedsBody
<1>1. CASE k.op \in NeedsBody /\ k.body = None
  BY <1>1, RefusedWithoutBody
<1> SUFFICES ASSUME k.op \in NeedsBody => k.body # None
             PROVE  Typed(t)
  BY <1>1
<1>2. CASE k.op \in {"GetConfig", "ListConfig", "GetStatus", "AddSubject", "RemoveSubject",
                    "Verify", "PollEvents"}
  <2>1. t = s \/ \E v : t = [s EXCEPT !.subjects = v]
    <3>1. CASE k.op \in {"GetConfig", "ListConfig", "GetStatus", "Verify", "PollEvents"}
      BY <3>1, InProcessByMethod DEF GetStream, GetStreamStatus, Verify, PollEvents
    <3> DEFINE key == CanonicalKey(k.body.subject)
    <3>2. CASE k.op = "AddSubject"
      <4>1. t = AddSubject(s, k.id, k.body.subject).store
        BY <3>2, InProcessByMethod
      <4>. QED
        BY <4>1 DEF AddSubject
    <3>3. CASE k.op = "RemoveSubject"
      <4>1. t = RemoveSubject(s, k.id, k.body.subject).store
        BY <3>3, InProcessByMethod
      <4>. QED
        BY <4>1 DEF RemoveSubject
    <3>. QED
      BY <1>2, <3>1, <3>2, <3>3
  <2>. QED
    BY <2>1, StoreFields DEF Typed
<1>3. CASE k.op = "CreateConfig"
  <2>1. Remote!InProcess(s, k) = CreateStream(s, k.body) /\ k.body \in Configs
    BY <1>3, InProcessByMethod DEF IsCall, Fitting
  <2> DEFINE stored == [k.body EXCEPT !.id = MintedID(s)]
  <2>2. CASE k.body.id = None
    <3>1. t = Seeded(s, stored, s.nextID + 1)
      BY <2>1, <2>2 DEF CreateStream
    <3>2. s.nextID \in Nat /\ s.nextID + 1 <= MaxMint
      BY <3>1 DEF Typed, Seeded
    <3>3. MintedID(s) \in StreamIDs
      BY <3>2, StoreAssumption DEF MintedID, StreamIDs, Minted
    <3>4. stored \in Configs
      BY <2>1, <3>3 DEF Configs
    <3>. QED
      BY <3>1, <3>2, <3>4, SeededTyped
  <2>3. CASE k.body.id # None /\ k.body.id \in DOMAIN s.streams
    BY <2>1, <2>3 DEF CreateStream
  <2>4. CASE k.body.id # None /\ k.body.id \notin DOMAIN s.streams
    <3>1. t = Seeded(s, k.body, s.nextID)
      BY <2>1, <2>4 DEF CreateStream
    <3>. QED
      BY <2>1, <3>1, SeededTyped DEF Typed
  <2>. QED
    BY <2>2, <2>3, <2>4
<1>4. CASE k.op = "UpdateConfig"
  <2>1. Remote!InProcess(s, k) = UpdateStream(s, k.body) /\ k.body \in Configs
    BY <1>4, InProcessByMethod DEF IsCall, Fitting
  <2>2. CASE k.body.id \in DOMAIN s.streams
    <3>1. t = [s EXCEPT !.streams = Put(@, k.body.id, k.body)]
      BY <2>1, <2>2 DEF UpdateStream
    <3>2. t = [streams |-> Put(s.streams, k.body.id, k.body), statuses |-> s.statuses,
               subjects |-> s.subjects, queues |-> s.queues, nextID |-> s.nextID]
      BY <3>1, StoreFields
    <3>3. \A id \in DOMAIN t.streams : t.streams[id] \in Configs
      BY <2>1, <2>2, <3>2 DEF Put, Typed
    <3>. QED
      BY <3>2, <3>3 DEF Typed
  <2>. QED
    BY <2>1, <2>2 DEF UpdateStream
<1>5. CASE k.op = "DeleteConfig"
  <2>1. Remote!InProcess(s, k) = DeleteStream(s, k.id)
    BY <1>5, InProcessByMethod
  <2>2. t = [streams |-> Drop(s.streams, k.id), statuses |-> Drop(s.statuses, k.id),
             subjects |-> Drop(s.subjects, k.id), queues |-> Drop(s.queues, k.id),
             nextID |-> s.nextID]
    BY <2>1, DeletedFields
  <2>3. \A id \in DOMAIN t.streams : id \in DOMAIN s.streams /\ t.streams[id] = s.streams[id]
    BY <2>2 DEF Drop
  <2>4. \A id \in DOMAIN t.statuses : id \in DOMAIN s.statuses /\ t.statuses[id] = s.statuses[id]
    BY <2>2 DEF Drop
  <2> HIDE DEF t
  <2>. QED
    BY <2>2, <2>3, <2>4 DEF Typed
<1>6. CASE k.op = "UpdateStatus"
  <2>1. /\ Remote!InProcess(s, k) = SetStreamStatus(s, k.id, k.body.status, k.body.subject)
        /\ k.body \in Responses
    BY <1>6, InProcessByMethod DEF IsCall, Fitting
  <2> DEFINE response == [status |-> k.body.status, subject |-> k.body.subject]
             key == Key(k.body.subject)
  <2>2. CASE k.id \in DOMAIN s.statuses /\ k.body.subject # Garbled
    <3>1. t = [s EXCEPT !.statuses[k.id] = Put(@, key, response)]
      BY <2>1, <2>2 DEF SetStreamStatus
    <3>2. response \in Responses
      BY <2>1 DEF Responses
    <3> HIDE DEF key, response
    <3> DEFINE new == [s.statuses EXCEPT ![k.id] = Put(s.statuses[k.id], key, response)]
    <3>3. t = [streams |-> s.streams, statuses |-> new, subjects |-> s.subjects,
               queues |-> s.queues, nextID |-> s.nextID]
      BY <3>1, StoreFields
    <3>5. /\ DOMAIN new = DOMAIN s.statuses
          /\ \A id \in DOMAIN s.statuses :
                new[id] = IF id = k.id THEN Put(s.statuses[k.id], key, response)
                          ELSE s.statuses[id]
      OBVIOUS
    <3> HIDE DEF t, new
    <3>4. ASSUME NEW id \in DOMAIN new
          PROVE  /\ Whole \in DOMAIN new[id]
                 /\ \A x \in DOMAIN new[id] : new[id][x] \in Responses
      <4>1. new[id] = s.statuses[id] \/ new[id] = Put(s.statuses[id], key, response)
        BY <3>5
      <4>2. Whole \in DOMAIN s.statuses[id]
              /\ \A x \in DOMAIN s.statuses[id] : s.statuses[id][x] \in Responses
        BY <3>5 DEF Typed
      <4>. QED
        BY <3>2, <4>1, <4>2 DEF Put
    <3>. QED
      BY <3>3, <3>4 DEF Typed
  <2>. QED
    BY <2>1, <2>2 DEF SetStreamStatus
<1>. QED
  BY <1>2, <1>3, <1>4, <1>5, <1>6 DEF IsCall, Target

\* The answer of a call in the same process.
LEMMA InProcessShaped ==
    ASSUME NEW s, NEW k, k.op \in DOMAIN Target
    PROVE  Shaped(Remote!InProcess(s, k))
<1> USE DEF NeedsBody
<1>1. ASSUME NEW t, NEW out
      PROVE  /\ Shaped(Answer(t, "nil", out))
             /\ Shaped(Refuse(t, "ErrInvalidConfig"))
             /\ Shaped(Refuse(t, "ErrStreamNotFound"))
             /\ Shaped(Refuse(t, "ErrNotImplemented"))
  BY DEF Shaped, Answer, Refuse
<1>2. CASE k.op \in NeedsBody /\ k.body = None
  BY <1>1, <1>2, RefusedWithoutBody
<1> SUFFICES ASSUME k.op \in NeedsBody => k.body # None
             PROVE  Shaped(Remote!InProcess(s, k))
  BY <1>2
<1>3. /\ \A id : Shaped(GetStream(s, id))
      /\ Shaped(Answer(s, "nil", [streams |-> ListStreams(s).out]))
      /\ \A id, subject : Shaped(GetStreamStatus(s, id, subject))
  BY <1>1 DEF GetStream, GetStreamStatus
<1>4. \A id, subject : Shaped(AddSubject(s, id, subject)) /\ Shaped(RemoveSubject(s, id, subject))
  BY <1>1 DEF AddSubject, RemoveSubject
<1>5. Shaped(Verify(s)) /\ \A id : Shaped(PollEvents(s, id))
  BY <1>1 DEF Verify, PollEvents
<1>6. \A cfg, id : /\ Shaped(CreateStream(s, cfg)) /\ Shaped(UpdateStream(s, cfg))
                   /\ Shaped(DeleteStream(s, id))
  BY <1>1 DEF CreateStream, UpdateStream, DeleteStream
<1>7. \A id, status, subject : Shaped(SetStreamStatus(s, id, status, subject))
  BY <1>1 DEF SetStreamStatus
<1>. QED
  BY <1>3, <1>4, <1>5, <1>6, <1>7, InProcessByMethod DEF Target

-----------------------------------------------------------------------------
(* Calls over the wire *)

\* The errors of a Transmitter and of a handler.
Errors == {"ErrValidation", "ErrInvalidConfig", "ErrUnauthorized", "ErrStreamNotFound",
           "ErrNotImplemented", "backend", "marshal"}

\* A refusal tells its cause, as far as it can be told, and changes nothing.
LEMMA RefusalExplains ==
    ASSUME NEW op, NEW s, NEW err \in Errors, NEW out
    PROVE  LET h == Refusal(s, err)
           IN  /\ h.store = s /\ ~Is2xx(h.response.status)
               /\ Explains(op, h.response, Remote!Outcome(err, out))
<1>1. StatusOf(err) \notin 200..299 /\ Remote!Told(err) = MapStatusToSentinel(StatusOf(err))
  <2>1. CASE err \in {"ErrValidation", "ErrInvalidConfig"}
    BY <2>1 DEF StatusOf, Remote!Told, MapStatusToSentinel
  <2>2. CASE err = "ErrUnauthorized"
    BY <2>2 DEF StatusOf, Remote!Told, MapStatusToSentinel
  <2>3. CASE err = "ErrStreamNotFound"
    BY <2>3 DEF StatusOf, Remote!Told, MapStatusToSentinel
  <2>4. CASE err = "ErrNotImplemented"
    BY <2>4 DEF StatusOf, Remote!Told, MapStatusToSentinel
  <2>5. CASE err \in {"backend", "marshal"}
    BY <2>5 DEF StatusOf, Remote!Told, MapStatusToSentinel
  <2>. QED
    BY <2>1, <2>2, <2>3, <2>4, <2>5 DEF Errors
<1>2. /\ Refusal(s, err).store = s
      /\ Refusal(s, err).response = ProblemResponse(StatusOf(err))
  BY DEF Refusal, Handled
<1>3. ProblemResponse(StatusOf(err)).status = StatusOf(err)
  BY OwnResponse
<1>4. err # "nil"
  BY DEF Errors
<1>. QED
  BY <1>1, <1>2, <1>3, <1>4 DEF Explains, Is2xx, Remote!Outcome

\* What a client reads from a success.
LEMMA ReadNothing ==
    ASSUME NEW op \in Valueless, NEW status \in {200, 204}, NEW body
    PROVE  Value(op, Response(status, "json", body)) = None
<1>1. status \in 200..299
  OBVIOUS
<1>. QED
  BY <1>1 DEF Value, Receive, Response, Is2xx, Success, Result

\* A method with a value reads it from the body of a success.
LEMMA ReadValue ==
    ASSUME NEW op, op \notin Valueless, NEW status \in {200, 201}, NEW body, body # None
    PROVE  Value(op, Response(status, "json", body)) = DecodeAs(op, body)
<1>1. status \in 200..299 /\ status # 204
  OBVIOUS
<1>. QED
  BY <1>1 DEF Value, Receive, Response, Is2xx, Success, Result

\* A body of the kind its method asks for decodes to itself.
LEMMA DecodeSame ==
    \A op, body : op = "ListConfig" \/ "streams" \notin DOMAIN body => DecodeAs(op, body) = body
BY DEF DecodeAs

\* A success tells its value.
LEMMA SuccessExplains ==
    ASSUME NEW op, NEW s, NEW status \in {200, 201, 204}, NEW body, NEW out,
           Value(op, Response(status, "json", body)) = out
    PROVE  Explains(op, Response(status, "json", body), Remote!Outcome("nil", out))
<1>1. Response(status, "json", body).status \in 200..299
  BY DEF Response
<1>. QED
  BY <1>1 DEF Explains, Is2xx

\* Values that go over the wire, and those that cannot.
LEMMA Speakable ==
    /\ \A cfg \in Configs :
          /\ cfg # None /\ "streams" \notin DOMAIN cfg
          /\ Remote!Unspeakable(cfg) <=> ~Encodable(cfg)
    /\ \A streams \in SUBSET Configs :
          /\ [streams |-> streams] # None
          /\ Remote!Unspeakable([streams |-> streams])
                <=> ~(\A cfg \in streams : Encodable(cfg))
    /\ \A response \in Responses :
          /\ response # None /\ "streams" \notin DOMAIN response
          /\ ~Remote!Unspeakable(response)
    /\ [sets |-> {}] # None /\ "streams" \notin DOMAIN [sets |-> {}]
    /\ ~Remote!Unspeakable([sets |-> {}])
<1> USE DEF Remote!Unspeakable, Encodable
<1>1. ASSUME NEW cfg \in Configs
      PROVE  /\ cfg # None /\ "streams" \notin DOMAIN cfg
             /\ Remote!Unspeakable(cfg) <=> ~Encodable(cfg)
  <2>1. DOMAIN cfg = {"id", "aud"}
    BY DEF Configs
  <2>2. cfg # None
    BY ManagementAssumption
  <2>. QED
    BY <2>1, <2>2
<1>2. ASSUME NEW streams \in SUBSET Configs
      PROVE  /\ [streams |-> streams] # None
             /\ Remote!Unspeakable([streams |-> streams])
                   <=> ~(\A cfg \in streams : Encodable(cfg))
  <2>1. [streams |-> streams] # None
    BY ManagementAssumption
  <2>2. DOMAIN [streams |-> streams] = {"streams"} /\ [streams |-> streams].streams = streams
    OBVIOUS
  <2>. QED
    BY <2>1, <2>2
<1>3. ASSUME NEW response \in Responses
      PROVE  /\ response # None /\ "streams" \notin DOMAIN response
             /\ ~Remote!Unspeakable(response)
  <2>1. DOMAIN response = {"status", "subject"}
    BY DEF Responses
  <2>2. response # None
    BY ManagementAssumption
  <2>. QED
    BY <2>1, <2>2
<1>4. /\ [sets |-> {}] # None /\ "streams" \notin DOMAIN [sets |-> {}]
      /\ ~Remote!Unspeakable([sets |-> {}])
  <2>1. DOMAIN [sets |-> {}] = {"sets"}
    OBVIOUS
  <2>2. [sets |-> {}] # None
    BY ManagementAssumption
  <2>. QED
    BY <2>1, <2>2
<1>. QED
  BY <1>1, <1>2, <1>3, <1>4

\* The promise of a call that a handler takes up.
LEMMA PerformUsual ==
    ASSUME NEW s, NEW k, ~Remote!Malformed(k), ~(k.op = "GetConfig" /\ k.id = None)
    PROVE  LET r == Remote!InProcess(s, k)
           IN  Remote!Perform(s, k)
                 = IF r.err = "nil" /\ r.out # None /\ Remote!Unspeakable(r.out)
                   THEN Answer(r.store, "marshal", None) ELSE r
BY DEF Remote!Perform, Remote!Answer, Answer

\* GetConfig without an id lists, and returns the zero configuration.
LEMMA PerformListing ==
    ASSUME Typed(store), NEW k, IsCall(k), k.op = "GetConfig", k.id = None
    PROVE  LET listed == [streams |-> ListStreams(store).out]
           IN  Remote!Perform(store, k)
                 = IF Remote!Unspeakable(listed) THEN Answer(store, "marshal", None)
                   ELSE Answer(store, "nil", ZeroConfig)
<1> DEFINE asked == [k EXCEPT !.op = "ListConfig"]
           listed == [streams |-> ListStreams(store).out]
<1>1. PICK id, subject, body : k = [op |-> "GetConfig", id |-> id, subject |-> subject, body |-> body]
  BY DEF IsCall, Call
<1>2. asked.op = "ListConfig" /\ asked # k
  BY <1>1
<1>3. Remote!InProcess(store, asked) = Answer(store, "nil", listed)
  BY <1>2, InProcessByMethod
<1>4. ~Remote!Malformed(k)
  BY DEF Remote!Malformed
<1>5. listed # None
  BY Speakable DEF ListStreams, Answer, Typed
<1>6. Remote!ZeroConfig = ZeroConfig
  BY DEF Remote!ZeroConfig, ZeroConfig
<1> HIDE DEF asked, listed
<1>7. Remote!Perform(store, k)
        = LET r == Remote!InProcess(store, asked)
          IN  IF r.err = "nil" /\ r.out # None /\ Remote!Unspeakable(r.out)
              THEN Answer(r.store, "marshal", None)
              ELSE [r EXCEPT !.out = ZeroConfig]
  BY <1>2, <1>4, <1>6 DEF Remote!Perform, Remote!Answer, Answer, asked
<1>. QED
  BY <1>3, <1>5, <1>7 DEF Answer, listed

\* What a request for a call of each method is.
LEMMA RequestOf ==
    ASSUME NEW k, k.op \in DOMAIN Target
    PROVE  LET r == NewRequest(k)
           IN  /\ r.body = k.body
               /\ r.path # "elsewhere"
               /\ k.op = "GetConfig" => r.path = "config" /\ r.method = "GET" /\ r.id = k.id
               /\ k.op = "ListConfig" => r.path = "config" /\ r.method = "GET" /\ r.id = None
               /\ k.op = "CreateConfig" => r.path = "config" /\ r.method = "POST"
               /\ k.op = "UpdateConfig" =>
                     r.path = "config" /\ r.method = "PATCH" /\ r.id = k.body.id
               /\ k.op = "DeleteConfig" =>
                     r.path = "config" /\ r.method = "DELETE" /\ r.id = k.id
               /\ k.op = "GetStatus" =>
                     r.path = "status" /\ r.method = "GET" /\ r.id = k.id /\ r.subject = k.subject
               /\ k.op = "UpdateStatus" => r.path = "status" /\ r.method = "POST" /\ r.id = k.id
               /\ k.op = "AddSubject" => r.path = "add" /\ r.method = "POST" /\ r.id = k.id
               /\ k.op = "RemoveSubject" => r.path = "remove" /\ r.method = "POST" /\ r.id = k.id
               /\ k.op = "Verify" => r.path = "verify" /\ r.method = "POST" /\ r.id = k.id
               /\ k.op = "PollEvents" => r.path = "poll" /\ r.method = "POST" /\ r.id = k.id
BY DEF NewRequest, Target

\* A call that is sent has the body its method takes, and nothing a handler
\* could not read.
LEMMA SentBody ==
    ASSUME NEW k \in AnyCalls, LocalError(k) = "nil"
    PROVE  /\ IsCall(k)
           /\ k.op \in {"CreateConfig", "UpdateConfig", "UpdateStatus", "AddSubject",
                        "RemoveSubject", "Verify", "PollEvents"} => ~BadBody(k.body)
           /\ k.op \in {"CreateConfig", "UpdateConfig"} =>
                 k.body \in Configs /\ Encodable(k.body)
           /\ k.op = "UpdateConfig" => k.body.id # None
           /\ k.op = "UpdateStatus" => k.body \in Responses
           /\ k.op \in {"AddSubject", "RemoveSubject"} =>
                 k.body \in [subject : Subjects \cup {None}]
<1>1. IsCall(k)
  BY ManagementAssumption
<1>2. TakesBody(k.op) <=> k.op \in {"CreateConfig", "UpdateConfig", "UpdateStatus", "AddSubject",
                        "RemoveSubject", "Verify", "PollEvents"}
  BY <1>1 DEF IsCall, TakesBody, Target
<1>3. TakesBody(k.op) => k.body # None /\ BodyMarshals(k)
  BY DEF LocalError
<1>4. k.op = "UpdateConfig" => k.body.id # None
  BY <1>2, <1>3 DEF LocalError
<1>5. k.op \in {"CreateConfig", "UpdateConfig"} => k.body \in Configs /\ Encodable(k.body)
  BY <1>1, <1>2, <1>3 DEF IsCall, Fitting, BodyMarshals, Encodable
<1>6. k.op = "UpdateStatus" => k.body \in Responses
  BY <1>1, <1>2, <1>3 DEF IsCall, Fitting
<1>7. k.op \in {"AddSubject", "RemoveSubject"} => k.body \in [subject : Subjects \cup {None}]
  BY <1>1, <1>2, <1>3 DEF IsCall, Fitting
<1>8. k.op \in {"Verify", "PollEvents"} => k.body \notin {Unread, Junk}
  BY <1>1, <1>2, <1>3 DEF IsCall, Fitting
<1>9. Unread \notin Configs \cup Responses \cup [subject : Subjects \cup {None}]
  BY ManagementAssumption
<1>10. Junk \notin Configs \cup Responses \cup [subject : Subjects \cup {None}]
  BY ManagementAssumption
<1>11. TakesBody(k.op) => ~BadBody(k.body)
  BY <1>2, <1>3, <1>5, <1>6, <1>7, <1>8, <1>9, <1>10 DEF BadBody
<1>. QED
  BY <1>1, <1>2, <1>4, <1>5, <1>6, <1>7, <1>11

\* Its own id does not change a configuration.
LEMMA SameId ==
    ASSUME NEW cfg \in Configs
    PROVE  [cfg EXCEPT !.id = cfg.id] = cfg
BY DEF Configs

\* The response of the handler behind a call that is well formed.
LEMMA RouteExplains ==
    ASSUME Typed(store), NEW k \in AnyCalls, LocalError(k) = "nil",
           ~Remote!Malformed(k), NEW works \in BOOLEAN,
           Route(store, works, NewRequest(k)).store.nextID <= MaxMint
    PROVE  LET h == Route(store, works, NewRequest(k))
               p == Remote!Perform(store, k)
           IN  /\ works => /\ h.store = p.store
                           /\ Explains(k.op, h.response, Remote!Outcome(p.err, p.out))
               /\ ~works => /\ h.store = store
                            /\ Explains(k.op, h.response, Remote!Outcome("backend", None))
<1> DEFINE r == NewRequest(k)
           h == Route(store, works, r)
           p == Remote!Perform(store, k)
           answer == Remote!InProcess(store, k)
           Goal == /\ works => /\ h.store = p.store
                               /\ Explains(k.op, h.response, Remote!Outcome(p.err, p.out))
                   /\ ~works => /\ h.store = store
                                /\ Explains(k.op, h.response, Remote!Outcome("backend", None))
<1> SUFFICES Goal
  OBVIOUS
<1>1. IsCall(k) /\ k.op \in DOMAIN Target
  BY SentBody DEF IsCall
<1>2. Shaped(answer)
  BY <1>1, InProcessShaped
<1>3. k.op \in {"CreateConfig", "UpdateConfig", "UpdateStatus", "AddSubject", "RemoveSubject"}
        => k.body # None
  BY SentBody DEF BadBody
<1>4. \A t, err, response : /\ Handled(t, response).store = t
                            /\ Handled(t, response).response = response
  BY DEF Handled
<1>5. CASE k.op = "GetConfig" /\ k.id = None
  <2> DEFINE streams == ListStreams(store).out
             listed == [streams |-> streams]
  <2>1. p = IF Remote!Unspeakable(listed) THEN Answer(store, "marshal", None)
            ELSE Answer(store, "nil", ZeroConfig)
    BY <1>1, <1>5, PerformListing
  <2>2. streams \subseteq Configs
    BY DEF ListStreams, Answer, Typed
  <2>3. /\ ~works => h = Refusal(store, "backend")
        /\ works /\ ~(\A cfg \in streams : Encodable(cfg)) => h = Refusal(store, "marshal")
        /\ works /\ (\A cfg \in streams : Encodable(cfg)) =>
              h = Handled(store, Response(200, "json", listed))
    BY <1>1, <1>5, RequestOf
       DEF Route, ConfigHandler, ListConfig, WriteJSON, Try, ListStreams, Answer, Refuse
  <2>4. /\ listed # None
        /\ Remote!Unspeakable(listed) <=> ~(\A cfg \in streams : Encodable(cfg))
    BY <2>2, Speakable
  <2>5. k.op \notin Valueless /\ DecodeAs(k.op, listed) = ZeroConfig
    BY <1>5 DEF Valueless, DecodeAs
  <2>6. /\ p.store = store
        /\ Remote!Unspeakable(listed) => p.err = "marshal"
        /\ ~Remote!Unspeakable(listed) => p.err = "nil" /\ p.out = ZeroConfig
    BY <2>1 DEF Answer
  <2> HIDE DEF h, p, listed, streams
  <2>7. Value(k.op, Response(200, "json", listed)) = ZeroConfig
    BY <2>4, <2>5, ReadValue
  <2>8. Explains(k.op, Response(200, "json", listed), Remote!Outcome("nil", ZeroConfig))
    BY <2>7, SuccessExplains
  <2>9. /\ Refusal(store, "backend").store = store
        /\ Refusal(store, "marshal").store = store
        /\ Explains(k.op, Refusal(store, "backend").response, Remote!Outcome("backend", None))
        /\ Explains(k.op, Refusal(store, "marshal").response, Remote!Outcome("marshal", p.out))
    <3>1. "backend" \in Errors /\ "marshal" \in Errors
      BY DEF Errors
    <3>. QED
      BY <3>1, RefusalExplains
  <2>. QED
    BY <1>4, <2>3, <2>4, <2>6, <2>8, <2>9
<1> SUFFICES ASSUME ~(k.op = "GetConfig" /\ k.id = None)
             PROVE  Goal
  BY <1>5
<1>6. /\ p.store = answer.store
      /\ answer.err # "nil" => p.err = answer.err
      /\ answer.err = "nil" /\ answer.out # None /\ Remote!Unspeakable(answer.out)
            => p.err = "marshal"
      /\ answer.err = "nil" /\ ~(answer.out # None /\ Remote!Unspeakable(answer.out))
            => p.err = "nil" /\ p.out = answer.out
  <2>1. p = IF answer.err = "nil" /\ answer.out # None /\ Remote!Unspeakable(answer.out)
            THEN Answer(answer.store, "marshal", None) ELSE answer
    BY PerformUsual
  <2>. QED
    BY <2>1 DEF Answer
\* All that is left to know of a method: its handler, and what the client
\* makes of the handler's value.
<1>7. ASSUME ~works => h = Refusal(store, "backend"),
             works /\ answer.err # "nil" => h = Refusal(answer.store, answer.err),
             works /\ answer.err = "nil" =>
                IF answer.out # None /\ Remote!Unspeakable(answer.out)
                THEN h = Refusal(answer.store, "marshal")
                ELSE \E status, body :
                        /\ status \in {200, 201, 204}
                        /\ h = Handled(answer.store, Response(status, "json", body))
                        /\ Value(k.op, Response(status, "json", body)) = answer.out
      PROVE  Goal
  <2>1. "backend" \in Errors /\ "marshal" \in Errors
    BY DEF Errors
  <2>2. answer.err # "nil" => answer.err \in Errors
    BY <1>2 DEF Shaped, Errors
  <2> HIDE DEF h, p, answer
  <2>3. CASE ~works
    BY <1>7, <2>1, <2>3, RefusalExplains
  <2>4. CASE works /\ answer.err # "nil"
    BY <1>6, <1>7, <2>2, <2>4, RefusalExplains
  <2>5. CASE works /\ answer.err = "nil" /\ answer.out # None /\ Remote!Unspeakable(answer.out)
    <3>1. /\ Refusal(answer.store, "marshal").store = answer.store
          /\ Explains(k.op, Refusal(answer.store, "marshal").response,
                      Remote!Outcome("marshal", p.out))
      BY <2>1, RefusalExplains
    <3>. QED
      BY <1>6, <1>7, <2>5, <3>1
  <2>6. CASE works /\ answer.err = "nil" /\ ~(answer.out # None /\ Remote!Unspeakable(answer.out))
    <3>1. PICK status, body :
             /\ status \in {200, 201, 204}
             /\ h = Handled(answer.store, Response(status, "json", body))
             /\ Value(k.op, Response(status, "json", body)) = answer.out
      BY <1>7, <2>6
    <3>2. Explains(k.op, Response(status, "json", body), Remote!Outcome("nil", answer.out))
      BY <3>1, SuccessExplains
    <3>. QED
      BY <1>4, <1>6, <2>6, <3>1, <3>2
  <2>. QED
    BY <2>3, <2>4, <2>5, <2>6
<1>8. ASSUME NEW status \in {200, 201}, NEW out, k.op \notin Valueless,
             out \in Configs \/ out \in Responses \/ out = [sets |-> {}]
      PROVE  Value(k.op, Response(status, "json", out)) = out
  <2>1. out # None /\ "streams" \notin DOMAIN out
    BY <1>8, Speakable
  <2>. QED
    BY <1>8, <2>1, ReadValue, DecodeSame
<1> HIDE DEF p
<1>9. CASE k.op = "ListConfig"
  <2> DEFINE streams == ListStreams(store).out
             listed == [streams |-> streams]
  <2>1. answer = Answer(store, "nil", listed)
    BY <1>9, InProcessByMethod
  <2>2. streams \subseteq Configs
    BY DEF ListStreams, Answer, Typed
  <2>3. /\ ~works => h = Refusal(store, "backend")
        /\ works /\ ~(\A cfg \in streams : Encodable(cfg)) => h = Refusal(store, "marshal")
        /\ works /\ (\A cfg \in streams : Encodable(cfg)) =>
              h = Handled(store, Response(200, "json", listed))
    BY <1>1, <1>9, RequestOf
       DEF Route, ConfigHandler, ListConfig, WriteJSON, Try, ListStreams, Answer, Refuse
  <2>4. /\ listed # None
        /\ Remote!Unspeakable(listed) <=> ~(\A cfg \in streams : Encodable(cfg))
    BY <2>2, Speakable
  <2>5. k.op \notin Valueless /\ DecodeAs(k.op, listed) = listed
    BY <1>9 DEF Valueless, DecodeAs
  <2>6. answer.store = store /\ answer.err = "nil" /\ answer.out = listed
    BY <2>1 DEF Answer
  <2> HIDE DEF h, answer, listed, streams
  <2>7. Value(k.op, Response(200, "json", listed)) = listed
    BY <2>4, <2>5, ReadValue
  <2>. QED
    BY <1>7, <2>3, <2>4, <2>6, <2>7<1>10. CASE k.op = "GetConfig"
  <2>1. answer = GetStream(store, k.id)
    BY <1>10, InProcessByMethod
  <2>2. answer.err = "nil" => answer.out \in Configs
    BY <2>1 DEF GetStream, Answer, Refuse, Typed
  <2>3. /\ ~works => h = Refusal(store, "backend")
        /\ works /\ answer.err # "nil" => h = Refusal(answer.store, answer.err)
        /\ works /\ answer.err = "nil" /\ ~Encodable(answer.out) =>
              h = Refusal(answer.store, "marshal")
        /\ works /\ answer.err = "nil" /\ Encodable(answer.out) =>
              h = Handled(answer.store, Response(200, "json", answer.out))
    <3> HIDE DEF answer
    <3>. QED
      BY <1>1, <1>5, <1>10, <2>1, RequestOf
         DEF Route, ConfigHandler, GetConfig, WriteJSON, Try, Refuse, Answer
  <2>4. k.op \notin Valueless
    BY <1>10 DEF Valueless
  <2> HIDE DEF h, answer
  <2>5. answer.err = "nil" =>
           /\ answer.out # None
           /\ Remote!Unspeakable(answer.out) <=> ~Encodable(answer.out)
           /\ Value(k.op, Response(200, "json", answer.out)) = answer.out
    BY <1>8, <2>2, <2>4, Speakable
  <2>. QED
    BY <1>7, <2>3, <2>5
<1>11. CASE k.op = "CreateConfig"
  <2>1. answer = CreateStream(store, k.body)
    BY <1>3, <1>11, InProcessByMethod
  <2>2. k.body \in Configs /\ Encodable(k.body) /\ ~BadBody(k.body)
    BY <1>11, SentBody
  <2>3. /\ ~works => h = Refusal(store, "backend")
        /\ works /\ answer.err # "nil" => h = Refusal(answer.store, answer.err)
        /\ works /\ answer.err = "nil" /\ ~Encodable(answer.out) =>
              h = Refusal(answer.store, "marshal")
        /\ works /\ answer.err = "nil" /\ Encodable(answer.out) =>
              h = Handled(answer.store, Response(201, "json", answer.out))
    <3> HIDE DEF answer
    <3>. QED
      BY <1>1, <1>11, <2>1, <2>2, RequestOf
         DEF Route, ConfigHandler, CreateConfig, WriteJSON, Try, Refuse, Answer
  <2>4. works /\ answer.err = "nil" => answer.out \in Configs
    <3>1. SUFFICES ASSUME works, answer.err = "nil" PROVE answer.out \in Configs
      OBVIOUS
    <3>2. h.store = answer.store
      <4>1. \A err : Refusal(answer.store, err).store = answer.store
        BY DEF Refusal, Handled
      <4> HIDE DEF h, answer
      <4>. QED
        BY <1>4, <2>3, <3>1, <4>1
    <3>3. CASE k.body.id = None
      <4>1. /\ answer.out = [k.body EXCEPT !.id = MintedID(store)]
            /\ answer.store.nextID = store.nextID + 1
        BY <2>1, <3>3 DEF CreateStream, Answer, Seeded
      <4>2. store.nextID \in Nat /\ store.nextID + 1 <= MaxMint
        BY <3>2, <4>1 DEF Typed
      <4>3. MintedID(store) \in StreamIDs
        BY <4>2, StoreAssumption DEF MintedID, StreamIDs, Minted
      <4>. QED
        BY <2>2, <4>1, <4>3 DEF Configs
    <3>4. CASE k.body.id # None
      BY <2>1, <2>2, <3>1, <3>4 DEF CreateStream, Answer, Refuse
    <3>. QED
      BY <3>3, <3>4
  <2>5. k.op \notin Valueless
    BY <1>11 DEF Valueless
  <2> HIDE DEF h, answer
  <2>6. works /\ answer.err = "nil" =>
           /\ answer.out # None
           /\ Remote!Unspeakable(answer.out) <=> ~Encodable(answer.out)
           /\ Value(k.op, Response(201, "json", answer.out)) = answer.out
    BY <1>8, <2>4, <2>5, Speakable
  <2>. QED
    BY <1>7, <2>3, <2>6
<1>12. CASE k.op = "UpdateConfig"
  <2>1. answer = UpdateStream(store, k.body)
    BY <1>3, <1>12, InProcessByMethod
  <2>2. k.body \in Configs /\ Encodable(k.body) /\ ~BadBody(k.body) /\ k.body.id # None
    BY <1>12, SentBody
  <2>3. [k.body EXCEPT !.id = k.body.id] = k.body
    BY <2>2, SameId
  <2>4. h = UpdateConfig(store, works, k.body.id, k.body)
    BY <1>1, <1>12, RequestOf DEF Route, ConfigHandler
  <2>5. /\ ~works => h = Refusal(store, "backend")
        /\ works /\ answer.err # "nil" => h = Refusal(answer.store, answer.err)
        /\ works /\ answer.err = "nil" =>
              h = Handled(answer.store, Response(200, "json", k.body)) /\ answer.out = k.body
    <3>1. answer.err = "nil" => answer.out = k.body
      BY <2>1 DEF UpdateStream, Answer, Refuse
    <3> HIDE DEF answer, h
    <3>. QED
      BY <2>1, <2>2, <2>3, <2>4, <3>1 DEF UpdateConfig, WriteJSON, Try, Refuse, Answer
  <2>6. k.op \notin Valueless
    BY <1>12 DEF Valueless
  <2>7. /\ ~Remote!Unspeakable(k.body)
        /\ Value(k.op, Response(200, "json", k.body)) = k.body
    BY <1>8, <2>2, <2>6, Speakable
  <2> HIDE DEF h, answer
  <2>. QED
    BY <1>7, <2>5, <2>7
<1>13. CASE k.op = "DeleteConfig"
  <2>1. answer = DeleteStream(store, k.id)
    BY <1>13, InProcessByMethod
  <2>2. k.id # None
    BY <1>13 DEF Remote!Malformed
  <2>3. answer.err = "nil" /\ answer.out = None
    BY <2>1 DEF DeleteStream, Answer
  <2>4. /\ ~works => h = Refusal(store, "backend")
        /\ works => h = Handled(answer.store, Response(204, "json", None))
    <3> HIDE DEF answer
    <3>. QED
      BY <1>1, <1>13, <2>1, <2>2, <2>3, RequestOf
         DEF Route, ConfigHandler, DeleteConfig, WriteJSON, Try, Refuse, Answer
  <2>5. Value(k.op, Response(204, "json", None)) = None
    BY <1>13, ReadNothing DEF Valueless
  <2> HIDE DEF h, answer
  <2>. QED
    BY <1>7, <2>3, <2>4, <2>5
<1>14. CASE k.op = "GetStatus"
  <2>1. answer = GetStreamStatus(store, k.id, k.subject)
    BY <1>14, InProcessByMethod
  <2>2. k.id # None /\ k.subject # Garbled
    BY <1>14 DEF Remote!Malformed
  <2>3. answer.err = "nil" => answer.out \in Responses
    <3>1. SUFFICES ASSUME k.id \in DOMAIN store.statuses
                   PROVE  answer.out \in Responses
      BY <2>1 DEF GetStreamStatus, Refuse, Answer
    <3> DEFINE bucket == store.statuses[k.id]
               key == Key(k.subject)
    <3>2. Whole \in DOMAIN bucket /\ \A x \in DOMAIN bucket : bucket[x] \in Responses
      BY <3>1 DEF Typed
    <3>3. k.subject \in Subjects \cup {None}
      BY <1>1 DEF IsCall
    <3> HIDE DEF bucket, key
    <3>4. [bucket[Whole] EXCEPT !.subject = k.subject] \in Responses
      BY <3>2, <3>3 DEF Responses
    <3>5. answer.out = IF key \in DOMAIN bucket THEN bucket[key]
                       ELSE [bucket[Whole] EXCEPT !.subject = k.subject]
      BY <2>1, <2>2, <3>1 DEF GetStreamStatus, Answer, bucket, key
    <3>. QED
      BY <3>2, <3>4, <3>5
  <2>4. h = GetStatus(store, works, r) /\ r.id = k.id /\ r.subject = k.subject
    BY <1>1, <1>14, <2>2, RequestOf DEF Route, StatusHandler
  <2>5. /\ ~works => h = Refusal(store, "backend")
        /\ works /\ answer.err # "nil" => h = Refusal(answer.store, answer.err)
        /\ works /\ answer.err = "nil" =>
              h = Handled(answer.store, Response(200, "json", answer.out))
    <3> HIDE DEF answer, h, r
    <3>. QED
      BY <2>1, <2>2, <2>4 DEF GetStatus, WriteJSON, Try, Refuse, Answer
  <2>6. k.op \notin Valueless
    BY <1>14 DEF Valueless
  <2> HIDE DEF h, answer
  <2>7. answer.err = "nil" =>
           /\ ~Remote!Unspeakable(answer.out)
           /\ Value(k.op, Response(200, "json", answer.out)) = answer.out
    BY <1>8, <2>3, <2>6, Speakable
  <2>. QED
    BY <1>7, <2>5, <2>7
<1>15. CASE k.op = "UpdateStatus"
  <2>1. answer = SetStreamStatus(store, k.id, k.body.status, k.body.subject)
    BY <1>3, <1>15, InProcessByMethod
  <2>2. k.id # None /\ k.body \in Responses /\ ~BadBody(k.body)
    BY <1>15, SentBody DEF Remote!Malformed
  <2>3. answer.err = "nil" => answer.out \in Responses
    BY <2>1, <2>2 DEF SetStreamStatus, Refuse, Answer, Responses
  <2>4. h = UpdateStatus(store, works, r) /\ r.id = k.id /\ r.body = k.body
    BY <1>1, <1>15, <2>2, RequestOf DEF Route, StatusHandler
  <2>5. /\ ~works => h = Refusal(store, "backend")
        /\ works /\ answer.err # "nil" => h = Refusal(answer.store, answer.err)
        /\ works /\ answer.err = "nil" =>
              h = Handled(answer.store, Response(200, "json", answer.out))
    <3> HIDE DEF answer, h, r
    <3>. QED
      BY <2>1, <2>2, <2>4 DEF UpdateStatus, WriteJSON, Try, Refuse, Answer
  <2>6. k.op \notin Valueless
    BY <1>15 DEF Valueless
  <2> HIDE DEF h, answer
  <2>7. answer.err = "nil" =>
           /\ ~Remote!Unspeakable(answer.out)
           /\ Value(k.op, Response(200, "json", answer.out)) = answer.out
    BY <1>8, <2>3, <2>6, Speakable
  <2>. QED
    BY <1>7, <2>5, <2>7
<1>16. CASE k.op \in {"AddSubject", "RemoveSubject"}
  <2>1. answer = IF k.op = "AddSubject" THEN AddSubject(store, k.id, k.body.subject)
                 ELSE RemoveSubject(store, k.id, k.body.subject)
    BY <1>3, <1>16, InProcessByMethod
  <2>2. k.id # None /\ k.body.subject \notin {None, Garbled} /\ ~BadBody(k.body)
    BY <1>16, SentBody DEF Remote!Malformed
  <2>3. answer.err = "nil" => answer.out = None
    BY <2>1 DEF AddSubject, RemoveSubject, Refuse, Answer
  <2>4. /\ h = IF k.op = "AddSubject" THEN AddSubjectHandler(store, works, r)
               ELSE RemoveSubjectHandler(store, works, r)
        /\ r.id = k.id /\ r.body = k.body /\ r.method = "POST"
    BY <1>1, <1>16, RequestOf DEF Route
  <2>5. HasIdentifier(r)
    BY <2>2, <2>4 DEF HasIdentifier
  <2>6. /\ ~works => h = Refusal(store, "backend")
        /\ works /\ answer.err # "nil" => h = Refusal(answer.store, answer.err)
        /\ works /\ answer.err = "nil" =>
              h = Handled(answer.store, Response(200, "json", answer.out))
    <3> HIDE DEF answer, h, r
    <3>1. CASE k.op = "AddSubject"
      BY <2>1, <2>2, <2>4, <2>5, <3>1
         DEF AddSubjectHandler, PostHandler, WriteJSON, Try, Refuse, Answer
    <3>2. CASE k.op = "RemoveSubject"
      BY <2>1, <2>2, <2>4, <2>5, <3>2
         DEF RemoveSubjectHandler, PostHandler, WriteJSON, Try, Refuse, Answer
    <3>. QED
      BY <1>16, <3>1, <3>2
  <2>7. Value(k.op, Response(200, "json", None)) = None
    BY <1>16, ReadNothing DEF Valueless
  <2> HIDE DEF h, answer
  <2>. QED
    BY <1>7, <2>3, <2>6, <2>7
<1>17. CASE k.op = "Verify"
  <2>1. answer = Verify(store)
    BY <1>17, InProcessByMethod
  <2>2. k.id # None /\ ~BadBody(k.body)
    BY <1>17, SentBody DEF Remote!Malformed
  <2>3. answer.err # "nil"
    BY <2>1 DEF Verify, Refuse, Answer
  <2>4. h = VerificationHandler(store, works, r) /\ r.id = k.id /\ r.body = k.body /\ r.method = "POST"
    BY <1>1, <1>17, RequestOf DEF Route
  <2>5. /\ ~works => h = Refusal(store, "backend")
        /\ works => h = Refusal(answer.store, answer.err)
    <3> HIDE DEF answer, h, r
    <3>. QED
      BY <2>1, <2>2, <2>3, <2>4
         DEF VerificationHandler, PostHandler, WriteJSON, Try, Refuse, Answer
  <2> HIDE DEF h, answer
  <2>. QED
    BY <1>7, <2>3, <2>5
<1>18. CASE k.op = "PollEvents"
  <2>1. answer = PollEvents(store, k.id)
    BY <1>18, InProcessByMethod
  <2>2. k.id # None /\ ~BadBody(k.body)
    BY <1>18, SentBody DEF Remote!Malformed
  <2>3. answer.err = "nil" => answer.out = [sets |-> {}]
    BY <2>1 DEF PollEvents, Refuse, Answer
  <2>4. h = PollHandler(store, works, r) /\ r.id = k.id /\ r.body = k.body /\ r.method = "POST"
    BY <1>1, <1>18, RequestOf DEF Route
  <2>5. /\ ~works => h = Refusal(store, "backend")
        /\ works /\ answer.err # "nil" => h = Refusal(answer.store, answer.err)
        /\ works /\ answer.err = "nil" =>
              h = Handled(answer.store, Response(200, "json", answer.out))
    <3> HIDE DEF answer, h, r
    <3>. QED
      BY <2>1, <2>2, <2>4 DEF PollHandler, PostHandler, WriteJSON, Try, Refuse, Answer
  <2>6. k.op \notin Valueless
    BY <1>18 DEF Valueless
  <2> HIDE DEF h, answer
  <2>7. answer.err = "nil" =>
           /\ ~Remote!Unspeakable(answer.out)
           /\ Value(k.op, Response(200, "json", answer.out)) = answer.out
    BY <1>8, <2>3, <2>6, Speakable
  <2>. QED
    BY <1>7, <2>5, <2>7
<1> HIDE DEF Goal
<1>. QED
  BY <1>1, <1>9, <1>10, <1>11, <1>12, <1>13, <1>14, <1>15, <1>16, <1>17, <1>18 DEF Target

\* A call that is not well formed is refused before anything is done.
LEMMA MalformedRefused ==
    ASSUME NEW k \in AnyCalls, LocalError(k) = "nil", Remote!Malformed(k),
           NEW works \in BOOLEAN
    PROVE  /\ Route(store, works, NewRequest(k)) = Refusal(store, "ErrValidation")
           /\ Remote!Perform(store, k) = Refuse(store, "ErrValidation")
<1> DEFINE r == NewRequest(k)
           h == Route(store, works, r)
<1>1. IsCall(k) /\ k.op \in DOMAIN Target
  BY SentBody DEF IsCall
<1>2. Remote!Perform(store, k) = Refuse(store, "ErrValidation")
  BY DEF Remote!Perform, Remote!Refuse, Refuse, Remote!Answer, Answer
<1>3. CASE k.op = "DeleteConfig"
  <2>1. k.id = None
    BY <1>3 DEF Remote!Malformed
  <2>. QED
    BY <1>1, <1>2, <1>3, <2>1, RequestOf DEF Route, ConfigHandler, DeleteConfig
<1>4. CASE k.op = "GetStatus"
  <2>1. k.id = None \/ k.subject = Garbled
    BY <1>4 DEF Remote!Malformed
  <2>. QED
    BY <1>1, <1>2, <1>4, <2>1, RequestOf DEF Route, StatusHandler, GetStatus
<1>5. CASE k.op = "UpdateStatus"
  <2>1. k.id = None
    BY <1>5 DEF Remote!Malformed
  <2>. QED
    BY <1>1, <1>2, <1>5, <2>1, RequestOf DEF Route, StatusHandler
<1>6. CASE k.op \in {"AddSubject", "RemoveSubject"}
  <2>1. k.id = None \/ k.body.subject \in {None, Garbled}
    BY <1>6 DEF Remote!Malformed
  <2>2. ~BadBody(k.body)
    BY <1>6, SentBody
  <2>3. r.id = k.id /\ r.body = k.body /\ r.method = "POST"
    BY <1>1, <1>6, RequestOf
  <2>4. r.id = None \/ ~HasIdentifier(r)
    BY <2>1, <2>2, <2>3 DEF HasIdentifier
  <2>5. CASE k.op = "AddSubject"
    BY <1>1, <1>2, <2>3, <2>4, <2>5, RequestOf DEF Route, AddSubjectHandler, PostHandler
  <2>6. CASE k.op = "RemoveSubject"
    BY <1>1, <1>2, <2>3, <2>4, <2>6, RequestOf DEF Route, RemoveSubjectHandler, PostHandler
  <2>. QED
    BY <1>6, <2>5, <2>6
<1>7. CASE k.op = "Verify"
  <2>1. k.id = None
    BY <1>7 DEF Remote!Malformed
  <2>. QED
    BY <1>1, <1>2, <1>7, <2>1, RequestOf DEF Route, VerificationHandler, PostHandler
<1>8. CASE k.op = "PollEvents"
  <2>1. k.id = None
    BY <1>8 DEF Remote!Malformed
  <2>. QED
    BY <1>1, <1>2, <1>8, <2>1, RequestOf DEF Route, PollHandler, PostHandler
<1>9. k.op \notin {"GetConfig", "ListConfig", "CreateConfig", "UpdateConfig"}
  BY DEF Remote!Malformed
<1>. QED
  BY <1>1, <1>3, <1>4, <1>5, <1>6, <1>7, <1>8, <1>9 DEF Target

\* Whatever befalls a request, its response tells of what was done for it.
LEMMA HandleExplains ==
    ASSUME Typed(store), NEW k \in AnyCalls, LocalError(k) = "nil", NEW fault \in Faults,
           HandleFor(NewRequest(k), fault).store.nextID <= MaxMint
    PROVE  LET h == HandleFor(NewRequest(k), fault)
               p == Remote!Perform(store, k)
               done == Performed(k, fault)
           IN  /\ Explains(k.op, h.response, done)
               /\ \/ h.store = p.store /\ done = Remote!Outcome(p.err, p.out)
                  \/ /\ h.store = store
                     /\ \E err \in {"ErrUnauthorized", "backend"} :
                           done = Remote!Outcome(err, None)
<1> DEFINE r == NewRequest(k)
           h == HandleFor(r, fault)
           p == Remote!Perform(store, k)
           done == Performed(k, fault)
           Goal == /\ Explains(k.op, h.response, done)
                   /\ \/ h.store = p.store /\ done = Remote!Outcome(p.err, p.out)
                      \/ /\ h.store = store
                         /\ \E err \in {"ErrUnauthorized", "backend"} :
                               done = Remote!Outcome(err, None)
<1> SUFFICES Goal
  OBVIOUS
<1>1. IsCall(k) /\ k.op \in DOMAIN Target
  BY SentBody DEF IsCall
<1>2. r.path # "elsewhere"
  BY <1>1, RequestOf
<1>3. CASE fault = "auth"
  <2>1. h = Refusal(store, "ErrUnauthorized")
    BY <1>2, <1>3 DEF HandleFor, Handle
  <2>2. done = Remote!Outcome("ErrUnauthorized", None)
    BY <1>3 DEF Performed
  <2>3. "ErrUnauthorized" \in Errors
    BY DEF Errors
  <2> HIDE DEF h, done, p
  <2>. QED
    BY <2>1, <2>2, <2>3, RefusalExplains
<1>4. CASE fault # "auth"
  <2> DEFINE works == fault # "backend"
  <2>1. h = Route(store, works, r)
    BY <1>2, <1>4 DEF HandleFor, Handle
  <2>2. works \in BOOLEAN
    OBVIOUS
  <2>3. CASE Remote!Malformed(k)
    <3>1. Route(store, works, r) = Refusal(store, "ErrValidation")
      BY <2>2, <2>3, MalformedRefused
    <3>2. p = Refuse(store, "ErrValidation")
      BY <2>3, MalformedRefused
    <3>3. done = Remote!Outcome(p.err, p.out)
      BY <1>4, <2>3 DEF Performed
    <3>4. p.store = store /\ p.err = "ErrValidation"
      BY <3>2 DEF Refuse, Answer
    <3>5. "ErrValidation" \in Errors
      BY DEF Errors
    <3>6. h = Refusal(store, "ErrValidation")
      BY <2>1, <3>1
    <3> HIDE DEF h, done, p
    <3>. QED
      BY <3>3, <3>4, <3>5, <3>6, RefusalExplains
  <2>4. CASE ~Remote!Malformed(k)
    <3>1. Route(store, works, r).store.nextID <= MaxMint
      BY <2>1
    <3>2. /\ works => /\ h.store = p.store
                      /\ Explains(k.op, h.response, Remote!Outcome(p.err, p.out))
          /\ ~works => /\ h.store = store
                       /\ Explains(k.op, h.response, Remote!Outcome("backend", None))
      BY <2>1, <2>2, <2>4, <3>1, RouteExplains
    <3>3. /\ works => done = Remote!Outcome(p.err, p.out)
          /\ ~works => done = Remote!Outcome("backend", None)
      BY <1>4, <2>4 DEF Performed
    <3> HIDE DEF h, done, p
    <3>. QED
      BY <3>2, <3>3
  <2>. QED
    BY <2>3, <2>4
<1>. QED
  BY <1>3, <1>4

-----------------------------------------------------------------------------
(* Requests of other programs *)

\* The store after a performance keeps its shape.
LEMMA PerformTyped ==
    ASSUME NEW s, Typed(s), NEW k, IsCall(k), Remote!Perform(s, k).store.nextID <= MaxMint
    PROVE  Typed(Remote!Perform(s, k).store)
<1>1. CASE Remote!Malformed(k)
  BY <1>1 DEF Remote!Perform, Remote!Refuse, Remote!Answer
<1>2. CASE ~Remote!Malformed(k) /\ ~(k.op = "GetConfig" /\ k.id = None)
  <2>1. Remote!Perform(s, k).store = Remote!InProcess(s, k).store
    BY <1>2, PerformUsual DEF Answer
  <2>. QED
    BY <2>1, InProcessTyped
<1>3. CASE k.op = "GetConfig" /\ k.id = None
  <2> DEFINE asked == [k EXCEPT !.op = "ListConfig"]
  <2>1. asked.op = "ListConfig"
    BY DEF IsCall, Call
  <2>2. Remote!InProcess(s, asked) = Answer(s, "nil", [streams |-> ListStreams(s).out])
    BY <2>1, InProcessByMethod
  <2>3. ~Remote!Malformed(k)
    BY <1>3 DEF Remote!Malformed
  <2> HIDE DEF asked
  <2>4. Remote!Perform(s, k).store = s
    BY <1>3, <2>2, <2>3 DEF Remote!Perform, Remote!Answer, Answer, asked
  <2>. QED
    BY <2>4
<1>. QED
  BY <1>1, <1>2, <1>3

\* What a request asks for is a call.
LEMMA AskedIsCall ==
    ASSUME NEW r \in ForeignRequests
    PROVE  IsCall(Asked(r))
<1>1. /\ r.id \in StreamIDs \cup {None}
      /\ BadBody(r.body) \/ Decodable(r.path, r.body)
  BY ManagementAssumption
<1>2. \A k : k.op \in DOMAIN Target /\ k = Call(k.op, k.id, k.subject, k.body)
             /\ k.id \in StreamIDs \cup {None} /\ k.subject = None /\ Fitting(k.op, k.body)
             => IsCall(k)
  BY DEF IsCall
<1>3. \A op, id, subject, body :
         LET k == Call(op, id, subject, body)
         IN  /\ k = Call(k.op, k.id, k.subject, k.body)
             /\ k.op = op /\ k.id = id /\ k.subject = subject /\ k.body = body
  BY DEF Call
<1>4. CASE r.path = "config" /\ r.method = "DELETE"
  BY <1>1, <1>2, <1>3, <1>4 DEF Asked, Fitting, Target
<1>5. CASE r.path = "config" /\ r.method = "POST" /\ ~BadBody(r.body)
  <2>1. r.body \in Configs
    BY <1>1, <1>5 DEF Decodable
  <2>2. Asked(r) = Call("CreateConfig", None, None, r.body)
    BY <1>5 DEF Asked
  <2>. QED
    BY <1>2, <1>3, <2>1, <2>2 DEF Fitting, Target
<1>6. CASE r.path = "config" /\ r.method = "PATCH" /\ ~BadBody(r.body)
  <2>1. r.body \in Configs
    BY <1>1, <1>6 DEF Decodable
  <2>2. [r.body EXCEPT !.id = r.id] \in Configs
    BY <1>1, <2>1 DEF Configs
  <2>3. Asked(r) = Call("UpdateConfig", r.id, None, [r.body EXCEPT !.id = r.id])
    BY <1>6 DEF Asked
  <2> DEFINE body == [r.body EXCEPT !.id = r.id]
  <2> HIDE DEF body
  <2>4. body \in Configs /\ Asked(r) = Call("UpdateConfig", r.id, None, body)
    BY <2>2, <2>3 DEF body
  <2>. QED
    BY <1>1, <1>2, <1>3, <2>4 DEF Fitting, Target
<1>7. CASE r.path = "status" /\ r.method = "POST" /\ ~BadBody(r.body)
  <2>1. r.body \in Responses
    BY <1>1, <1>7 DEF Decodable
  <2>2. Asked(r) = Call("UpdateStatus", r.id, None, r.body)
    BY <1>7 DEF Asked
  <2>. QED
    BY <1>1, <1>2, <1>3, <2>1, <2>2 DEF Fitting, Target
<1>8. CASE r.path \in {"add", "remove"} /\ r.method = "POST" /\ ~BadBody(r.body)
  <2>1. r.body \in [subject : Subjects \cup {None}]
    BY <1>1, <1>8 DEF Decodable
  <2>2. \/ Asked(r) = Call("AddSubject", r.id, None, r.body)
        \/ Asked(r) = Call("RemoveSubject", r.id, None, r.body)
    BY <1>8 DEF Asked
  <2>. QED
    BY <1>1, <1>2, <1>3, <2>1, <2>2 DEF Fitting, Target
<1>9. \/ Asked(r) = Call("ListConfig", None, None, None)
      \/ r.path = "config" /\ r.method = "DELETE"
      \/ r.path = "config" /\ r.method \in {"POST", "PATCH"} /\ ~BadBody(r.body)
      \/ r.path \in {"status", "add", "remove"} /\ r.method = "POST" /\ ~BadBody(r.body)
  BY DEF Asked
<1>10. IsCall(Call("ListConfig", None, None, None))
  BY <1>1, <1>2, <1>3 DEF Fitting, Target
<1>. QED
  BY <1>4, <1>5, <1>6, <1>7, <1>8, <1>9, <1>10

\* A request has no effect, or that of the call it asks for.
LEMMA ForeignStore ==
    ASSUME NEW r \in ForeignRequests, NEW fault \in Faults
    PROVE  \/ HandleFor(r, fault).store = store
           \/ HandleFor(r, fault).store = Remote!InProcess(store, Asked(r)).store
<1> DEFINE works == fault # "backend"
           h == HandleFor(r, fault)
           routed == Route(store, works, r)
           asked == Remote!InProcess(store, Asked(r)).store
           Goal == h.store = store \/ h.store = asked
<1> SUFFICES Goal
  OBVIOUS
<1>1. r.path \in {"config", "status", "add", "remove", "verify", "poll", "elsewhere"}
  BY ManagementAssumption
<1>2. CASE r.path = "elsewhere" \/ fault = "auth"
  BY <1>2 DEF HandleFor, Handle, Handled, Refusal
<1> SUFFICES ASSUME r.path # "elsewhere", fault # "auth" PROVE Goal
  BY <1>2
<1>3. h = routed
  BY DEF HandleFor, Handle
<1>4. \A op, id, subject, body :
         LET k == Call(op, id, subject, body)
         IN  k.op = op /\ k.id = id /\ k.subject = subject /\ k.body = body
  BY DEF Call
<1>5. ~BadBody(r.body) => r.body # None
  BY DEF BadBody
<1> USE DEF Refusal, Handled, Refuse, Answer, WriteJSON, Try
<1>6. CASE r.path = "config" /\ r.method = "DELETE"
  <2>1. asked = DeleteStream(store, r.id).store
    BY <1>4, <1>6, InProcessByMethod DEF Asked
  <2>2. routed = DeleteConfig(store, works, r.id)
    BY <1>6 DEF Route, ConfigHandler
  <2>3. routed.store = store \/ routed.store = DeleteStream(store, r.id).store
    BY <2>2 DEF DeleteConfig
  <2>. QED
    BY <1>3, <2>1, <2>3
<1>7. CASE r.path = "config" /\ r.method = "POST"
  <2>1. ~BadBody(r.body) => asked = CreateStream(store, r.body).store
    BY <1>4, <1>5, <1>7, InProcessByMethod DEF Asked
  <2>2. routed = CreateConfig(store, works, r.body)
    BY <1>7 DEF Route, ConfigHandler
  <2>3. routed.store = store \/ (~BadBody(r.body) /\ routed.store = CreateStream(store, r.body).store)
    BY <2>2 DEF CreateConfig
  <2>. QED
    BY <1>3, <2>1, <2>3
<1>8. CASE r.path = "config" /\ r.method = "PATCH"
  <2> DEFINE body == [r.body EXCEPT !.id = r.id]
  <2>0. ~BadBody(r.body) => body # None
    <3>1. ~BadBody(r.body) => r.body \in Configs /\ r.id \in StreamIDs \cup {None}
      BY <1>8, ManagementAssumption DEF Decodable
    <3>2. r.body \in Configs /\ r.id \in StreamIDs \cup {None} => body \in Configs
      BY DEF Configs
    <3>. QED
      BY <3>1, <3>2, ManagementAssumption
  <2>1. ~BadBody(r.body) => asked = UpdateStream(store, body).store
    <3>1. ~BadBody(r.body) => Asked(r) = Call("UpdateConfig", r.id, None, body)
      BY <1>8 DEF Asked
    <3> HIDE DEF body
    <3>. QED
      BY <1>4, <2>0, <3>1, InProcessByMethod
  <2>2. routed = UpdateConfig(store, works, r.id, r.body)
    BY <1>8 DEF Route, ConfigHandler
  <2>3. routed.store = store \/ (~BadBody(r.body) /\ routed.store = UpdateStream(store, body).store)
    BY <2>2 DEF UpdateConfig
  <2>. QED
    BY <1>3, <2>1, <2>3
<1>9. CASE r.path = "config" /\ r.method \notin {"DELETE", "POST", "PATCH"}
  <2>1. routed.store = store
    BY <1>9 DEF Route, ConfigHandler, ListConfig, GetConfig, ListStreams, GetStream
  <2>. QED
    BY <1>3, <2>1
<1>10. CASE r.path = "status"
  <2>1. r.method = "POST" /\ ~BadBody(r.body) =>
          asked = SetStreamStatus(store, r.id, r.body.status, r.body.subject).store
    BY <1>4, <1>5, <1>10, InProcessByMethod DEF Asked
  <2>2. routed = StatusHandler(store, works, r)
    BY <1>10 DEF Route
  <2>3. \/ routed.store = store
        \/ /\ r.method = "POST" /\ ~BadBody(r.body)
           /\ routed.store = SetStreamStatus(store, r.id, r.body.status, r.body.subject).store
    BY <2>2 DEF StatusHandler, GetStatus, GetStreamStatus, UpdateStatus
  <2>. QED
    BY <1>3, <2>1, <2>3
<1>11. CASE r.path = "add"
  <2>1. r.method = "POST" /\ ~BadBody(r.body) =>
          asked = AddSubject(store, r.id, r.body.subject).store
    BY <1>4, <1>5, <1>11, InProcessByMethod DEF Asked
  <2>2. routed = AddSubjectHandler(store, works, r)
    BY <1>11 DEF Route
  <2>3. \/ routed.store = store
        \/ /\ r.method = "POST" /\ ~BadBody(r.body)
           /\ routed.store = AddSubject(store, r.id, r.body.subject).store
    BY <2>2 DEF AddSubjectHandler, PostHandler
  <2>. QED
    BY <1>3, <2>1, <2>3
<1>12. CASE r.path = "remove"
  <2>1. r.method = "POST" /\ ~BadBody(r.body) =>
          asked = RemoveSubject(store, r.id, r.body.subject).store
    BY <1>4, <1>5, <1>12, InProcessByMethod DEF Asked
  <2>2. routed = RemoveSubjectHandler(store, works, r)
    BY <1>12 DEF Route
  <2>3. \/ routed.store = store
        \/ /\ r.method = "POST" /\ ~BadBody(r.body)
           /\ routed.store = RemoveSubject(store, r.id, r.body.subject).store
    BY <2>2 DEF RemoveSubjectHandler, PostHandler
  <2>. QED
    BY <1>3, <2>1, <2>3
<1>13. CASE r.path \in {"verify", "poll"}
  <2>1. routed.store = store
    BY <1>13 DEF Route, VerificationHandler, PollHandler, PostHandler, Verify, PollEvents
  <2>. QED
    BY <1>3, <2>1
<1>. QED
  BY <1>1, <1>6, <1>7, <1>8, <1>9, <1>10, <1>11, <1>12, <1>13

\* An error answer without faults leaves the store alone, for whatever body a
\* handler can decode.
LEMMA RefusedUnchanged ==
    ASSUME NEW r,
           r.path \in {"config", "status", "add", "remove", "verify", "poll", "elsewhere"},
           BadBody(r.body) \/ Decodable(r.path, r.body),
           ~Is2xx(HandleFor(r, "none").response.status)
    PROVE  HandleFor(r, "none").store = store
<1> DEFINE h == HandleFor(r, "none")
           routed == Route(store, TRUE, r)
<1>1. CASE r.path = "elsewhere"
  BY <1>1 DEF HandleFor, Handle, Handled
<1> SUFFICES ASSUME r.path # "elsewhere" PROVE h.store = store
  BY <1>1
<1>2. h = routed /\ ~Is2xx(h.response.status)
  BY DEF HandleFor, Handle
<1> HIDE DEF h, routed
<1>3. \A err : Refusal(store, err).store = store
  BY DEF Refusal, Handled
<1>4. \A t, body :
         /\ Is2xx(Handled(t, Response(200, "json", body)).response.status)
         /\ Is2xx(Handled(t, Response(201, "json", body)).response.status)
         /\ Is2xx(Handled(t, Response(204, "json", body)).response.status)
  BY DEF Handled, Response, Is2xx
<1>5. \A t, response : Handled(t, response).store = t
  BY DEF Handled
<1> USE DEF WriteJSON, Try, Refuse, Answer
<1>6. CASE r.path = "config"
  <2>1. CASE r.method = "GET"
    <3>1. routed = IF r.id = None THEN ListConfig(store, TRUE) ELSE GetConfig(store, TRUE, r.id)
      BY <1>6, <2>1 DEF routed, Route, ConfigHandler
    <3>. QED
      BY <1>2, <1>3, <1>5, <3>1 DEF ListConfig, GetConfig, ListStreams, GetStream
  <2>2. CASE r.method = "POST"
    <3>1. routed = CreateConfig(store, TRUE, r.body)
      BY <1>6, <2>2 DEF routed, Route, ConfigHandler
    <3> DEFINE answer == CreateStream(store, r.body)
    <3>2. ~BadBody(r.body) =>
            \/ answer.err # "nil" /\ answer.store = store
            \/ answer.err = "nil" /\ Encodable(answer.out)
      <4>1. ~BadBody(r.body) => r.body \in Configs /\ r.body.aud # "junk"
        BY <1>6 DEF Decodable
      <4>2. r.body \in Configs => [r.body EXCEPT !.id = MintedID(store)].aud = r.body.aud
        BY DEF Configs
      <4>. QED
        BY <4>1, <4>2 DEF CreateStream, Encodable
    <3> HIDE DEF answer
    <3>3. BadBody(r.body) \/ answer.err # "nil" => routed.store = store
      BY <1>3, <3>1, <3>2 DEF CreateConfig, answer
    <3>4. ~BadBody(r.body) /\ answer.err = "nil" =>
            routed = Handled(answer.store, Response(201, "json", answer.out))
      BY <3>1, <3>2 DEF CreateConfig, answer
    <3>. QED
      BY <1>2, <1>4, <3>3, <3>4
  <2>3. CASE r.method = "PATCH"
    <3>1. routed = UpdateConfig(store, TRUE, r.id, r.body)
      BY <1>6, <2>3 DEF routed, Route, ConfigHandler
    <3> DEFINE answer == UpdateStream(store, [r.body EXCEPT !.id = r.id])
    <3>2. ~BadBody(r.body) =>
            \/ answer.err # "nil" /\ answer.store = store
            \/ answer.err = "nil" /\ Encodable(answer.out)
      <4>1. ~BadBody(r.body) => r.body \in Configs /\ r.body.aud # "junk"
        BY <1>6 DEF Decodable
      <4>2. r.body \in Configs => [r.body EXCEPT !.id = r.id].aud = r.body.aud
        BY DEF Configs
      <4>. QED
        BY <4>1, <4>2 DEF UpdateStream, Encodable
    <3> HIDE DEF answer
    <3>3. r.id = None \/ BadBody(r.body) \/ answer.err # "nil" => routed.store = store
      BY <1>3, <3>1, <3>2 DEF UpdateConfig, answer
    <3>4. ~(r.id = None \/ BadBody(r.body)) /\ answer.err = "nil" =>
            routed = Handled(answer.store, Response(200, "json", answer.out))
      BY <3>1, <3>2 DEF UpdateConfig, answer
    <3>. QED
      BY <1>2, <1>4, <3>3, <3>4
  <2>4. CASE r.method = "DELETE"
    <3>1. routed = DeleteConfig(store, TRUE, r.id)
      BY <1>6, <2>4 DEF routed, Route, ConfigHandler
    <3>. QED
      BY <1>2, <1>3, <1>4, <3>1 DEF DeleteConfig, DeleteStream
  <2>5. CASE r.method \notin {"GET", "POST", "PATCH", "DELETE"}
    BY <1>2, <1>5, <1>6, <2>5 DEF routed, Route, ConfigHandler
  <2>. QED
    BY <2>1, <2>2, <2>3, <2>4, <2>5
<1>7. CASE r.path = "status"
  <2>1. routed = StatusHandler(store, TRUE, r)
    BY <1>7 DEF routed, Route
  <2> DEFINE answer == SetStreamStatus(store, r.id, r.body.status, r.body.subject)
  <2>2. answer.err # "nil" => answer.store = store
    BY DEF SetStreamStatus
  <2>3. GetStreamStatus(store, r.id, r.subject).store = store
    BY DEF GetStreamStatus
  <2>4. CASE r.id # None /\ r.method = "POST"
    <3>1. routed = UpdateStatus(store, TRUE, r)
      BY <2>1, <2>4 DEF StatusHandler
    <3> HIDE DEF answer
    <3>2. BadBody(r.body) \/ answer.err # "nil" => routed.store = store
      BY <1>3, <2>2, <3>1 DEF UpdateStatus, answer
    <3>3. ~BadBody(r.body) /\ answer.err = "nil" =>
            routed = Handled(answer.store, Response(200, "json", answer.out))
      BY <3>1 DEF UpdateStatus, answer
    <3>. QED
      BY <1>2, <1>4, <3>2, <3>3
  <2>5. CASE r.id # None /\ r.method = "GET"
    <3>1. routed = GetStatus(store, TRUE, r)
      BY <2>1, <2>5 DEF StatusHandler
    <3>. QED
      BY <1>2, <1>3, <1>5, <2>3, <3>1 DEF GetStatus
  <2>6. CASE r.id = None \/ r.method \notin {"GET", "POST"}
    BY <1>2, <1>3, <1>5, <2>1, <2>6 DEF StatusHandler
  <2>. QED
    BY <2>4, <2>5, <2>6
<1>8. ASSUME NEW answer, NEW decodes \in BOOLEAN, answer.err # "nil" => answer.store = store,
             routed = PostHandler(store, r, decodes, answer)
      PROVE  h.store = store
  <2>1. \/ routed.store = store
        \/ routed = Handled(answer.store, Response(200, "json", answer.out))
    BY <1>3, <1>5, <1>8 DEF PostHandler
  <2>. QED
    BY <1>2, <1>4, <2>1
<1>9. CASE r.path = "add"
  <2> DEFINE answer == AddSubject(store, r.id, r.body.subject)
  <2>1. answer.err # "nil" => answer.store = store
    BY DEF AddSubject
  <2>2. routed = PostHandler(store, r, HasIdentifier(r), answer)
    BY <1>9 DEF routed, Route, AddSubjectHandler
  <2>3. HasIdentifier(r) \in BOOLEAN
    BY DEF HasIdentifier, BadBody
  <2>. QED
    BY <1>8, <2>1, <2>2, <2>3
<1>10. CASE r.path = "remove"
  <2> DEFINE answer == RemoveSubject(store, r.id, r.body.subject)
  <2>1. answer.err # "nil" => answer.store = store
    BY DEF RemoveSubject
  <2>2. routed = PostHandler(store, r, HasIdentifier(r), answer)
    BY <1>10 DEF routed, Route, RemoveSubjectHandler
  <2>3. HasIdentifier(r) \in BOOLEAN
    BY DEF HasIdentifier, BadBody
  <2>. QED
    BY <1>8, <2>1, <2>2, <2>3
<1>11. CASE r.path \in {"verify", "poll"}
  <2>1. routed = PostHandler(store, r, TRUE, IF r.path = "verify" THEN Verify(store)
                                            ELSE PollEvents(store, r.id))
    BY <1>11 DEF routed, Route, VerificationHandler, PollHandler
  <2>2. Verify(store).store = store /\ PollEvents(store, r.id).store = store
    BY DEF Verify, PollEvents
  <2>. QED
    BY <1>8, <2>1, <2>2
<1>. QED
  BY <1>6, <1>7, <1>9, <1>10, <1>11

-----------------------------------------------------------------------------
(* Every step keeps the invariant *)

\* What a method returns of a response.
LEMMA ReceiveReports ==
    ASSUME NEW op, NEW response, NEW broken \in BOOLEAN
    PROVE  LET r == Receive(op, response, broken)
           IN  /\ r.problem # None =>
                     /\ ~Is2xx(response.status) /\ r.problem = Unmarshal(response.body)
                     /\ r.status = response.status
                     /\ r.sentinel = MapStatusToSentinel(response.status)
               /\ r.err = "nil" => Is2xx(response.status) /\ r.out = Value(op, response)
<1> DEFINE r == Receive(op, response, broken)
<1> USE DEF Failed, Success, Result
<1>1. CASE ~Is2xx(response.status)
  <2>1. r = ParseHTTPError(response, broken)
    BY <1>1 DEF Receive
  <2>. QED
    BY <1>1, <2>1 DEF ParseHTTPError
<1>2. CASE Is2xx(response.status)
  BY <1>2 DEF Receive, Value
<1>. QED
  BY <1>1, <1>2

\* A client nothing happens to but that more was done for its call.
LEMMA OthersKeep ==
    ASSUME NEW c, Requested(c), Answered(c), Reported(c),
           call'[c] = call[c], wire'[c] = wire[c], reply'[c] = reply[c],
           result'[c] = result[c], outcomes[c] \subseteq outcomes'[c]
    PROVE  (Requested(c) /\ Answered(c) /\ Reported(c))'
<1>1. Requested(c)'
  BY DEF Requested, Waits
<1>2. Answered(c)'
  BY DEF Answered, Waits
<1>3. Reported(c)'
  BY DEF Reported
<1>. QED
  BY <1>1, <1>2, <1>3

\* The invariant of every client.
PerClient == \A c \in Clients : Requested(c) /\ Answered(c) /\ Reported(c)

\* One client's step: the others' part is OthersKeep.
LEMMA OneClientSteps ==
    ASSUME PerClient, NEW c \in Clients,
           \A d \in Clients \ {c} :
              /\ call'[d] = call[d] /\ wire'[d] = wire[d] /\ reply'[d] = reply[d]
              /\ result'[d] = result[d] /\ outcomes'[d] = outcomes[d],
           (Requested(c) /\ Answered(c) /\ Reported(c))'
    PROVE  PerClient'
<1>1. ASSUME NEW d \in Clients \ {c}
      PROVE  (Requested(d) /\ Answered(d) /\ Reported(d))'
  BY OthersKeep DEF PerClient
<1>. QED
  BY <1>1 DEF PerClient

\* The store is empty and no client has called.
LEMMA InitInvariant == Init => IInv
<1> SUFFICES ASSUME Init PROVE IInv
  OBVIOUS
<1>1. Typed(store)
  BY DEF Init, Typed, EmptyStore, EmptyMap
<1>2. Shapes
  BY DEF Init, Shapes
<1>3. PerClient
  BY DEF Init, PerClient, Requested, Answered, Reported
<1>. QED
  BY <1>1, <1>2, <1>3 DEF IInv, Init, PerClient

\* The store after a step is a performance's, or as it was.
LEMMA TypedStep ==
    ASSUME IInv, [Next]_vars
    PROVE  Typed(store)'
<1>1. Typed(store) /\ Shapes /\ PerClient /\ \A k \in late : LocalError(k) = "nil"
  BY DEF IInv, PerClient
<1>2. CASE store' = store
  BY <1>1, <1>2 DEF Typed
<1>3. ASSUME NEW k, IsCall(k), store' = Remote!Perform(store, k).store, Bounded
      PROVE  Typed(store)'
  <2>1. Typed(Remote!Perform(store, k).store)
    BY <1>1, <1>3, PerformTyped DEF Bounded
  <2>. QED
    BY <1>3, <2>1 DEF Typed
<1>4. ASSUME NEW k, IsCall(k), store' = Remote!InProcess(store, k).store, Bounded
      PROVE  Typed(store)'
  <2>1. Typed(Remote!InProcess(store, k).store)
    BY <1>1, <1>4, InProcessTyped DEF Bounded
  <2>. QED
    BY <1>4, <2>1 DEF Typed
<1>5. ASSUME NEW c \in Clients, NEW fault \in Faults, Serve(c, fault)
      PROVE  Typed(store)'
  <2>1. /\ wire[c] # None /\ store' = HandleFor(wire[c], fault).store /\ Bounded
    BY <1>5 DEF Serve
  <2>2. call[c] \in AnyCalls /\ LocalError(call[c]) = "nil" /\ wire[c] = NewRequest(call[c])
    BY <1>1, <2>1 DEF PerClient, Requested, Waits, Shapes
  <2>3. HandleFor(NewRequest(call[c]), fault).store.nextID <= MaxMint
    BY <2>1, <2>2 DEF Bounded
  <2>4. store' = store \/ store' = Remote!Perform(store, call[c]).store
    BY <1>1, <2>1, <2>2, <2>3, HandleExplains
  <2>5. IsCall(call[c])
    BY <2>2, SentBody
  <2>. QED
    BY <1>2, <1>3, <2>1, <2>4, <2>5
<1>6. ASSUME NEW k \in AnyCalls, NEW fault \in Faults, ServeLate(k, fault)
      PROVE  Typed(store)'
  <2>1. LocalError(k) = "nil" /\ store' = HandleFor(NewRequest(k), fault).store /\ Bounded
    BY <1>1, <1>6 DEF ServeLate
  <2>2. HandleFor(NewRequest(k), fault).store.nextID <= MaxMint
    BY <2>1 DEF Bounded
  <2>3. store' = store \/ store' = Remote!Perform(store, k).store
    BY <1>1, <2>1, <2>2, HandleExplains
  <2>4. IsCall(k)
    BY <2>1, SentBody
  <2>. QED
    BY <1>2, <1>3, <2>1, <2>3, <2>4
<1>7. ASSUME NEW k \in LocalCalls, CallLocally(k)
      PROVE  Typed(store)'
  <2>1. IsCall(k)
    BY ManagementAssumption
  <2>. QED
    BY <1>4, <1>7, <2>1 DEF CallLocally
<1>8. ASSUME NEW r \in ForeignRequests, NEW fault \in Faults, ServeForeign(r, fault)
      PROVE  Typed(store)'
  <2>1. store' = store \/ store' = Remote!InProcess(store, Asked(r)).store
    BY <1>8, ForeignStore DEF ServeForeign
  <2>2. IsCall(Asked(r))
    BY AskedIsCall
  <2>. QED
    BY <1>2, <1>4, <1>8, <2>1, <2>2 DEF ServeForeign
<1>9. ASSUME NEW c \in Clients,
             \/ Invoke(c) \/ FailLocally(c) \/ Send(c) \/ Delay(c) \/ Lose(c) \/ GiveUp(c)
             \/ Leave(c) \/ (\E response \in Intermediary : Intercept(c, response))
             \/ (\E broken \in BOOLEAN : Return(c, broken))
      PROVE  store' = store
  BY <1>9 DEF Invoke, FailLocally, Send, Delay, Lose, GiveUp, Leave, Intercept, Return
<1>10. CASE UNCHANGED vars
  BY <1>2, <1>10 DEF vars
<1>. QED
  BY <1>2, <1>5, <1>6, <1>7, <1>8, <1>9, <1>10 DEF Next

\* Shapes, and only calls that made a request travel late.
Traffic == Shapes /\ \A k \in late : LocalError(k) = "nil"

\* No step makes up a call: what travels late was sent by a client.
LEMMA ShapesStep ==
    ASSUME IInv, [Next]_vars
    PROVE  Traffic'
<1>1. Shapes /\ PerClient /\ \A k \in late : LocalError(k) = "nil"
  BY DEF IInv, PerClient
<1>2. ASSUME NEW c \in Clients, Invoke(c)
      PROVE  Traffic'
  BY <1>1, <1>2 DEF Invoke, Shapes, Traffic
<1>3. ASSUME NEW c \in Clients, FailLocally(c) \/ GiveUp(c)
      PROVE  Traffic'
  BY <1>1, <1>3 DEF FailLocally, GiveUp, Shapes, Traffic
<1>15. ASSUME NEW c \in Clients, NEW broken \in BOOLEAN, Return(c, broken)
       PROVE  Traffic'
  <2>1. /\ \E v : result' = [result EXCEPT ![c] = v]
        /\ reply' = [reply EXCEPT ![c] = None]
        /\ UNCHANGED <<call, wire, outcomes, late>>
    BY <1>15 DEF Return
  <2>. QED
    BY <1>1, <2>1 DEF Shapes, Traffic
<1>4. ASSUME NEW c \in Clients, Send(c)
      PROVE  Traffic'
  BY <1>1, <1>4 DEF Send, Shapes, Traffic
<1>5. ASSUME NEW c \in Clients, NEW fault \in Faults, Serve(c, fault)
      PROVE  Traffic'
  <2>1. /\ reply' = [reply EXCEPT ![c] = reply'[c]]
        /\ outcomes' = [outcomes EXCEPT ![c] = outcomes'[c]]
        /\ wire' = [wire EXCEPT ![c] = None]
        /\ UNCHANGED <<call, result, late>>
    BY <1>1, <1>5 DEF Serve, Shapes, Traffic
  <2>. QED
    BY <1>1, <2>1 DEF Shapes, Traffic
<1>6. ASSUME NEW c \in Clients, NEW response \in Intermediary, Intercept(c, response)
      PROVE  Traffic'
  BY <1>1, <1>6 DEF Intercept, Shapes, Traffic
<1>7. ASSUME NEW c \in Clients, Delay(c)
      PROVE  Traffic'
  <2>1. call[c] \in AnyCalls /\ LocalError(call[c]) = "nil"
    BY <1>1, <1>7 DEF Delay, PerClient, Requested, Waits, Shapes
  <2>. QED
    BY <1>1, <1>7, <2>1 DEF Delay, Shapes, Traffic
<1>8. ASSUME NEW c \in Clients, Lose(c)
      PROVE  Traffic'
  BY <1>1, <1>8 DEF Lose, Shapes, Traffic
<1>9. ASSUME NEW c \in Clients, Leave(c)
      PROVE  Traffic'
  BY <1>1, <1>9 DEF Leave, Shapes, Traffic
<1>10. ASSUME NEW k \in AnyCalls, NEW fault \in Faults, ServeLate(k, fault)
       PROVE  Traffic'
  BY <1>1, <1>10 DEF ServeLate, Shapes, Traffic
<1>11. ASSUME UNCHANGED <<call, wire, reply, result, outcomes, late>>
       PROVE  Traffic'
  BY <1>1, <1>11 DEF Shapes, Traffic
<1>12. ASSUME NEW k \in LocalCalls, CallLocally(k)
       PROVE  Traffic'
  BY <1>11, <1>12 DEF CallLocally
<1>13. ASSUME NEW r \in ForeignRequests, NEW fault \in Faults, ServeForeign(r, fault)
       PROVE  Traffic'
  BY <1>11, <1>13 DEF ServeForeign
<1>14. CASE UNCHANGED vars
  BY <1>11, <1>14 DEF vars
<1>16. ASSUME NEW c \in Clients,
              \/ Invoke(c) \/ FailLocally(c) \/ Send(c)
              \/ \E fault \in Faults : Serve(c, fault)
              \/ \E response \in Intermediary : Intercept(c, response)
              \/ Delay(c) \/ Lose(c) \/ GiveUp(c) \/ Leave(c)
              \/ \E broken \in BOOLEAN : Return(c, broken)
       PROVE  Traffic'
  BY <1>2, <1>3, <1>4, <1>5, <1>6, <1>7, <1>8, <1>9, <1>15, <1>16
<1>. QED
  BY <1>10, <1>12, <1>13, <1>14, <1>16 DEF Next

\* A step of one client, of a handler or of the network keeps what is known of
\* every client: a request leaves wire when it is served, answered by a gateway,
\* delayed or lost, and only a response makes a result with a problem.
LEMMA PerClientStep ==
    ASSUME IInv, [Next]_vars
    PROVE  PerClient'
<1>1. Typed(store) /\ Shapes /\ PerClient
  BY DEF IInv, PerClient
<1>2. ASSUME NEW c \in Clients
      PROVE  /\ Requested(c) /\ Answered(c) /\ Reported(c)
             /\ \A f, v, d : f = [x \in Clients |-> f[x]] /\ d \in Clients =>
                   [f EXCEPT ![c] = v][d] = IF d = c THEN v ELSE f[d]
  BY <1>1, Zenon DEF PerClient
<1>3. ASSUME NEW c \in Clients, Invoke(c)
      PROVE  PerClient'
  <2>1. PICK k \in AnyCalls : call' = [call EXCEPT ![c] = k]
    BY <1>3 DEF Invoke
  <2>2. wire[c] = None /\ reply[c] = None
    BY <1>2, <1>3 DEF Invoke, Requested, Answered, Waits
  <2>3. (Requested(c) /\ Answered(c) /\ Reported(c))'
    BY <1>2, <1>3, <2>2 DEF Invoke, Requested, Answered, Reported
  <2>4. \A d \in Clients \ {c} : call'[d] = call[d]
    BY <1>1, <2>1 DEF Shapes
  <2>. QED
    BY <1>1, <1>3, <2>3, <2>4, OneClientSteps DEF Invoke
<1>4. ASSUME NEW c \in Clients, FailLocally(c) \/ GiveUp(c)
      PROVE  PerClient'
  <2>1. PICK err : result' = [result EXCEPT ![c] = Failed(err)]
    BY <1>4 DEF FailLocally, GiveUp
  <2>2. wire[c] = None /\ reply[c] = None /\ UNCHANGED <<call, wire, reply, outcomes>>
    BY <1>4 DEF FailLocally, GiveUp
  <2>3. result'[c] = Failed(err) /\ \A d \in Clients \ {c} : result'[d] = result[d]
    BY <1>1, <2>1 DEF Shapes
  <2>4. Failed(err).problem = None
    BY DEF Failed, Result
  <2>5. (Requested(c) /\ Answered(c) /\ Reported(c))'
    BY <2>2, <2>3, <2>4 DEF Requested, Answered, Reported
  <2>. QED
    BY <1>1, <2>2, <2>3, <2>5, OneClientSteps
<1>5. ASSUME NEW c \in Clients, Send(c)
      PROVE  PerClient'
  <2>1. /\ wire'[c] = NewRequest(call[c])
        /\ \A d \in Clients \ {c} : wire'[d] = wire[d]
    BY <1>1, <1>5 DEF Send, Shapes
  <2>2. (Requested(c) /\ Answered(c) /\ Reported(c))'
    BY <1>2, <1>5, <2>1 DEF Send, Requested, Answered, Reported, Waits
  <2>. QED
    BY <1>1, <1>5, <2>1, <2>2, OneClientSteps DEF Send
<1>6. ASSUME NEW c \in Clients, NEW fault \in Faults, Serve(c, fault)
      PROVE  PerClient'
  <2> DEFINE k == call[c]
             h == HandleFor(wire[c], fault)
  <2>1. /\ k \in AnyCalls /\ LocalError(k) = "nil" /\ wire[c] = NewRequest(k)
        /\ Waits(c)
    BY <1>1, <1>2, <1>6 DEF Serve, Requested, Waits, Shapes
  <2>2. h.store.nextID <= MaxMint
    BY <1>6 DEF Serve, Bounded
  <2>3. Explains(k.op, h.response, Performed(k, fault))
    BY <1>1, <2>1, <2>2, HandleExplains
  <2>4. /\ wire'[c] = None /\ reply'[c] = h.response
        /\ outcomes'[c] = outcomes[c] \cup {Performed(k, fault)}
        /\ UNCHANGED <<call, result>>
        /\ \A d \in Clients \ {c} : /\ wire'[d] = wire[d] /\ reply'[d] = reply[d]
                                     /\ outcomes'[d] = outcomes[d]
    BY <1>1, <1>6 DEF Serve, Shapes
  <2> HIDE DEF h
  <2>5. Answered(c)'
    BY <2>1, <2>3, <2>4 DEF Answered, Waits
  <2>6. Requested(c)' /\ Reported(c)'
    BY <1>2, <2>4 DEF Requested, Reported
  <2>. QED
    BY <1>1, <2>4, <2>5, <2>6, OneClientSteps
<1>7. ASSUME NEW c \in Clients, NEW response \in Intermediary, Intercept(c, response)
      PROVE  PerClient'
  <2>1. Waits(c)
    BY <1>2, <1>7 DEF Intercept, Requested
  <2>2. /\ wire'[c] = None /\ reply'[c] = response /\ UNCHANGED <<call, result, outcomes>>
        /\ \A d \in Clients \ {c} : wire'[d] = wire[d] /\ reply'[d] = reply[d]
    BY <1>1, <1>7 DEF Intercept, Shapes
  <2>3. (Requested(c) /\ Answered(c) /\ Reported(c))'
    BY <1>2, <2>1, <2>2 DEF Requested, Answered, Reported, Waits
  <2>. QED
    BY <1>1, <2>2, <2>3, OneClientSteps
<1>8. ASSUME NEW c \in Clients, Delay(c) \/ Lose(c)
      PROVE  PerClient'
  <2>1. /\ wire'[c] = None /\ reply'[c] \in {reply[c], None}
        /\ UNCHANGED <<call, result, outcomes>>
        /\ \A d \in Clients \ {c} : wire'[d] = wire[d] /\ reply'[d] = reply[d]
    BY <1>1, <1>8 DEF Delay, Lose, Shapes
  <2>2. (Requested(c) /\ Answered(c) /\ Reported(c))'
    BY <1>2, <2>1 DEF Requested, Answered, Reported, Waits
  <2>. QED
    BY <1>1, <2>1, <2>2, OneClientSteps
<1>9. ASSUME NEW c \in Clients, NEW broken \in BOOLEAN, Return(c, broken)
      PROVE  PerClient'
  <2> DEFINE r == Receive(call[c].op, reply[c], broken)
  <2>1. /\ reply[c] # None /\ reply'[c] = None /\ result'[c] = r
        /\ UNCHANGED <<call, wire, outcomes>>
        /\ \A d \in Clients \ {c} : result'[d] = result[d] /\ reply'[d] = reply[d]
    BY <1>1, <1>9 DEF Return, Shapes
  <2>2. wire[c] = None
    BY <1>2, <2>1 DEF Requested
  <2>3. r.problem # None =>
           /\ ~Is2xx(reply[c].status) /\ r.problem = Unmarshal(reply[c].body)
           /\ r.status = reply[c].status
    BY ReceiveReports
  <2>4. ~Is2xx(reply[c].status) => Sent(reply[c])
    BY <1>2, <2>1 DEF Answered, Explains, Sent
  <2> HIDE DEF r
  <2>5. (Requested(c) /\ Answered(c))'
    BY <2>1, <2>2 DEF Requested, Answered
  <2>6. Reported(c)'
    BY <2>1, <2>3, <2>4 DEF Reported
  <2>. QED
    BY <1>1, <2>1, <2>5, <2>6, OneClientSteps
<1>10. ASSUME NEW c \in Clients, Leave(c)
       PROVE  PerClient'
  <2>1. wire[c] = None /\ reply[c] = None
    BY <1>2, <1>10 DEF Leave, Requested, Answered, Waits
  <2>2. /\ result'[c] = None /\ UNCHANGED <<wire, reply>>
        /\ \A d \in Clients \ {c} : /\ call'[d] = call[d] /\ result'[d] = result[d]
                                     /\ outcomes'[d] = outcomes[d]
    BY <1>1, <1>10 DEF Leave, Shapes
  <2>3. (Requested(c) /\ Answered(c) /\ Reported(c))'
    BY <2>1, <2>2 DEF Requested, Answered, Reported
  <2>. QED
    BY <1>1, <2>2, <2>3, OneClientSteps
<1>11. ASSUME UNCHANGED <<call, wire, reply, result, outcomes>>
       PROVE  PerClient'
  BY <1>1, <1>11, OthersKeep DEF PerClient
<1>12. ASSUME \/ \E k \in AnyCalls, fault \in Faults : ServeLate(k, fault)
              \/ \E k \in LocalCalls : CallLocally(k)
              \/ \E r \in ForeignRequests, fault \in Faults : ServeForeign(r, fault)
       PROVE  PerClient'
  BY <1>11, <1>12 DEF ServeLate, CallLocally, ServeForeign
<1>13. CASE UNCHANGED vars
  BY <1>11, <1>13 DEF vars
<1>. QED
  BY <1>3, <1>4, <1>5, <1>6, <1>7, <1>8, <1>9, <1>10, <1>12, <1>13 DEF Next

\* The invariant holds in every behaviour of clients, handlers and network.
THEOREM Invariance == Spec => []IInv
<1>1. IInv /\ [Next]_vars => IInv'
  BY TypedStep, ShapesStep, PerClientStep DEF IInv, PerClient, Traffic
<1>. QED
  BY InitInvariant, <1>1, PTL DEF Spec

-----------------------------------------------------------------------------
(* Errors and problems *)

\* What a client sends has the body that its handler asks for (client.go:667-683).
LEMMA SentDecodes ==
    ASSUME NEW k \in AnyCalls, LocalError(k) = "nil"
    PROVE  LET r == NewRequest(k)
           IN  /\ r.path \in {"config", "status", "add", "remove", "verify", "poll"}
               /\ BadBody(r.body) \/ Decodable(r.path, r.body)
<1>1. IsCall(k) /\ k.op \in DOMAIN Target /\ NewRequest(k).body = k.body
  BY SentBody, RequestOf DEF IsCall
<1>2. Fitting(k.op, k.body)
  BY <1>1 DEF IsCall
<1>3. CASE k.op \in {"GetConfig", "ListConfig", "DeleteConfig", "GetStatus"}
  <2>1. k.body = None
    BY <1>2, <1>3 DEF Fitting
  <2>. QED
    BY <1>1, <1>3, <2>1, RequestOf DEF BadBody
<1>4. CASE k.op \in {"CreateConfig", "UpdateConfig"}
  BY <1>1, <1>4, SentBody, RequestOf DEF Decodable, Encodable
<1>5. CASE k.op = "UpdateStatus"
  BY <1>1, <1>5, SentBody, RequestOf DEF Decodable
<1>6. CASE k.op \in {"AddSubject", "RemoveSubject"}
  BY <1>1, <1>6, SentBody, RequestOf DEF Decodable
<1>7. CASE k.op \in {"Verify", "PollEvents"}
  BY <1>1, <1>7, RequestOf DEF Decodable
<1>. QED
  BY <1>1, <1>3, <1>4, <1>5, <1>6, <1>7 DEF Target

\* Of every request there is, an error answer says that nothing was changed.
LEMMA ErrorsChangeNothingHolds ==
    ASSUME IInv
    PROVE  ErrorsChangeNothing
<1>1. ASSUME NEW r \in ForeignRequests, ~Is2xx(HandleFor(r, "none").response.status)
      PROVE  HandleFor(r, "none").store = store
  BY <1>1, RefusedUnchanged, ManagementAssumption
<1>2. ASSUME NEW c \in Clients, wire[c] # None,
             ~Is2xx(HandleFor(wire[c], "none").response.status)
      PROVE  HandleFor(wire[c], "none").store = store
  <2>1. wire[c] = NewRequest(call[c]) /\ LocalError(call[c]) = "nil" /\ call[c] \in AnyCalls
    BY <1>2 DEF IInv, Requested, Waits, Shapes
  <2>2. /\ wire[c].path \in {"config", "status", "add", "remove", "verify", "poll"}
        /\ BadBody(wire[c].body) \/ Decodable(wire[c].path, wire[c].body)
    BY <2>1, SentDecodes
  <2>. QED
    BY <1>2, <2>2, RefusedUnchanged
<1>. QED
  BY <1>1, <1>2 DEF ErrorsChangeNothing

\* A request that is answered with an error changes nothing, whatever came
\* before it and whoever sent it (handlers.go:82-108, 279-422, 491-500).
THEOREM ErrorAnswers == Spec => []ErrorsChangeNothing
<1>1. IInv => ErrorsChangeNothing
  BY ErrorsChangeNothingHolds
<1>. QED
  BY Invariance, <1>1, PTL

\* A problem that was sent, by a handler or an intermediary, is one that
\* UnmarshalJSON makes, and the Transmitter's own carries its status.
LEMMA SentProblem ==
    ASSUME NEW response, Sent(response)
    PROVE  LET p == Unmarshal(response.body)
           IN  /\ IsProblem(p)
               /\ p.fields["type"] = Blank => p.fields["status"] = response.status
<1>1. CASE response \in Intermediary
  BY <1>1, ManagementAssumption, UnmarshalIsProblem
<1>2. CASE response = ProblemResponse(response.status)
  <2> DEFINE status == response.status
  <2>1. /\ IsProblem(Unmarshal(ProblemResponse(status).body))
        /\ Unmarshal(ProblemResponse(status).body).fields["status"] = status
    BY OwnResponse
  <2>. QED
    BY <1>2, <2>1
<1>. QED
  BY <1>1, <1>2 DEF Sent

\* The problem a caller holds was sent, so it is one that survives the wire.
LEMMA ProblemSurvivesHolds ==
    ASSUME IInv
    PROVE  ProblemSurvives
<1> SUFFICES ASSUME NEW c \in Clients, result[c] # None, result[c].problem # None
             PROVE  /\ Remote!OwnProblem(result[c]) =>
                          result[c].problem.fields["status"] = result[c].status
                    /\ LET problem == result[c].problem
                       IN  /\ /\ Marshals(problem)
                              /\ \A i \in DOMAIN Rewritten(problem) :
                                    ~IsRegistered(Rewritten(problem)[i])
                              => /\ Decodes(Marshal(problem))
                                 /\ Unmarshal(Marshal(problem)).fields = problem.fields
                           /\ Plain(problem.extensions) =>
                                 /\ Marshals(problem)
                                 /\ Decodes(Marshal(problem))
                                 /\ Same(Unmarshal(Marshal(problem)), problem)
  BY DEF ProblemSurvives
<1>1. PICK response :
         /\ Sent(response)
         /\ result[c].problem = Unmarshal(response.body)
         /\ result[c].status = response.status
  BY DEF IInv, Reported
<1>2. /\ IsProblem(result[c].problem)
      /\ result[c].problem.fields["type"] = Blank =>
            result[c].problem.fields["status"] = result[c].status
  BY <1>1, SentProblem
<1>. QED
  BY <1>2, RoundTrip DEF Remote!OwnProblem, Blank

\* Every problem that a method of the Client returns in its HTTPError is one
\* that survives the wire, and the Transmitter's own says its status
\* (errors.go:240-388, client/errors.go:85-143).
THEOREM Problems == Spec => []ProblemSurvives
<1>1. IInv => ProblemSurvives
  BY ProblemSurvivesHolds
<1>. QED
  BY Invariance, <1>1, PTL

-----------------------------------------------------------------------------
(* The promise of RemoteTransmitter *)

\* What a method makes of a response is an error of its own, or tells of
\* something that was done for the call (client.go:738-768, client/errors.go:85-173).
LEMMA ReceiveSound ==
    ASSUME IInv, NEW c \in Clients, reply[c] # None, NEW broken \in BOOLEAN
    PROVE  Remote!Sound(Receive(call[c].op, reply[c], broken), outcomes[c])
<1> DEFINE op == call[c].op
           r == Receive(op, reply[c], broken)
<1>1. /\ r.problem # None =>
            /\ ~Is2xx(reply[c].status) /\ r.problem = Unmarshal(reply[c].body)
            /\ r.status = reply[c].status
            /\ r.sentinel = MapStatusToSentinel(reply[c].status)
      /\ r.err = "nil" => Is2xx(reply[c].status) /\ r.out = Value(op, reply[c])
  BY ReceiveReports
<1>2. \/ reply[c] \in Intermediary
      \/ \E outcome \in outcomes[c] : Explains(op, reply[c], outcome)
  BY DEF IInv, Answered
<1> SUFFICES Remote!Sound(r, outcomes[c])
  OBVIOUS
<1> HIDE DEF r, op
<1>3. CASE reply[c] \in Intermediary
  <2>1. ~Is2xx(reply[c].status) /\ Unmarshal(reply[c].body).fields["type"] # Blank
    BY <1>3, ManagementAssumption DEF Is2xx
  <2>. QED
    BY <1>1, <2>1 DEF Remote!Sound, Remote!OwnProblem, Blank
<1>4. ASSUME NEW outcome \in outcomes[c], Explains(op, reply[c], outcome)
      PROVE  Remote!Sound(r, outcomes[c])
  <2>1. r.err = "nil" => Remote!Outcome("nil", r.out) \in outcomes[c]
    BY <1>1, <1>4 DEF Explains
  <2>2. r.problem # None => outcome.err # "nil" /\ Remote!Told(outcome.err) = r.sentinel
    BY <1>1, <1>4 DEF Explains
  <2>. QED
    BY <2>1, <2>2 DEF Remote!Sound, Remote!OwnProblem
<1>. QED
  BY <1>2, <1>3, <1>4

\* A method that returns is a Return of the promise; a result equal to None
\* would be none.
LEMMA Returns ==
    ASSUME IInv, NEW c \in Clients, Waits(c), NEW r, Remote!Sound(r, outcomes[c]),
           result' = [result EXCEPT ![c] = r],
           UNCHANGED <<store, call, outcomes, late>>
    PROVE  Remote!Return(c) \/ UNCHANGED Remote!vars
<1>1. result = [d \in Clients |-> result[d]] /\ result[c] = None
  BY DEF IInv, Shapes, Waits
<1>2. result'[c] = r
  BY <1>1
<1>3. CASE r = None
  <2>1. result' = result
    BY <1>1, <1>3
  <2>. QED
    BY <2>1 DEF Remote!vars
<1>4. CASE r # None
  BY <1>2, <1>4 DEF Remote!Return, Remote!Waits, Waits
<1>. QED
  BY <1>3, <1>4

\* A handler that runs performs the call, or fails with nothing done.
LEMMA ServeExecutes ==
    ASSUME IInv, NEW c \in Clients, NEW fault \in Faults, Serve(c, fault)
    PROVE  Remote!Execute(c)
<1> DEFINE k == call[c]
           h == HandleFor(wire[c], fault)
           p == Remote!Perform(store, k)
           done == Performed(k, fault)
<1>1. /\ Typed(store) /\ Waits(c) /\ k \in AnyCalls /\ LocalError(k) = "nil"
      /\ wire[c] = NewRequest(k)
  BY DEF IInv, Requested, Waits, Shapes, Serve
<1>2. /\ store' = h.store /\ h.store.nextID <= MaxMint
      /\ outcomes' = [outcomes EXCEPT ![c] = @ \cup {done}]
      /\ UNCHANGED <<call, result, late>>
  BY DEF Serve, Bounded
<1>3. \/ h.store = p.store /\ done = Remote!Outcome(p.err, p.out)
      \/ /\ h.store = store
         /\ \E err \in {"ErrUnauthorized", "backend"} : done = Remote!Outcome(err, None)
  BY <1>1, <1>2, HandleExplains
<1> HIDE DEF h, p, done
<1>4. CASE h.store = p.store /\ done = Remote!Outcome(p.err, p.out)
  BY <1>1, <1>2, <1>4 DEF Remote!Execute, Remote!Waits, Waits, p
<1>5. CASE /\ h.store = store
           /\ \E err \in {"ErrUnauthorized", "backend"} : done = Remote!Outcome(err, None)
  BY <1>1, <1>2, <1>5 DEF Remote!Execute, Remote!Waits, Waits
<1>. QED
  BY <1>3, <1>4, <1>5

\* A late copy does what the call would do then, or nothing.
LEMMA LateExecutes ==
    ASSUME IInv, NEW k \in AnyCalls, NEW fault \in Faults, ServeLate(k, fault)
    PROVE  Remote!ExecuteLate
<1>1. Typed(store) /\ k \in late /\ LocalError(k) = "nil"
  BY DEF IInv, ServeLate
<1>2. store' = HandleFor(NewRequest(k), fault).store /\ Bounded
  BY DEF ServeLate
<1>3. HandleFor(NewRequest(k), fault).store.nextID <= MaxMint
  BY <1>2 DEF Bounded
<1>4. store' \in {store, Remote!Perform(store, k).store}
  BY <1>1, <1>2, <1>3, HandleExplains
<1>. QED
  BY <1>1, <1>4 DEF ServeLate, Remote!ExecuteLate

\* Every step is one of the promise, or nobody who holds the Client and
\* nothing in the store can tell that it was taken.
LEMMA StepKeepsPromise ==
    ASSUME IInv, [Next]_vars
    PROVE  [Remote!Next]_(Remote!vars)
<1>1. /\ Shapes /\ Typed(store)
      /\ \A c \in Clients : Requested(c) /\ Answered(c) /\ Reported(c)
  BY DEF IInv
<1>2. ASSUME NEW c \in Clients, Invoke(c)
      PROVE  Remote!Next
  BY <1>2 DEF Invoke, Remote!Next, Remote!Invoke
<1>3. ASSUME NEW c \in Clients, FailLocally(c)
      PROVE  [Remote!Next]_(Remote!vars)
  <2>1. Remote!Sound(Failed(LocalError(call[c])), outcomes[c])
    BY <1>3 DEF FailLocally, Remote!Sound, Remote!OwnProblem, Failed, Result
  <2>. QED
    BY <1>3, <2>1, Returns DEF FailLocally, Remote!Next
<1>4. ASSUME NEW c \in Clients, GiveUp(c)
      PROVE  [Remote!Next]_(Remote!vars)
  <2>1. Remote!Sound(Failed("transport"), outcomes[c])
    BY DEF Remote!Sound, Remote!OwnProblem, Failed, Result
  <2>. QED
    BY <1>4, <2>1, Returns DEF GiveUp, Remote!Next
<1>5. ASSUME NEW c \in Clients, NEW broken \in BOOLEAN, Return(c, broken)
      PROVE  [Remote!Next]_(Remote!vars)
  <2> DEFINE r == Receive(call[c].op, reply[c], broken)
  <2>1. Remote!Sound(r, outcomes[c])
    BY <1>5, ReceiveSound DEF Return
  <2>2. Waits(c) /\ result' = [result EXCEPT ![c] = r] /\ UNCHANGED <<store, call, outcomes, late>>
    BY <1>1, <1>5 DEF Return, Answered
  <2> HIDE DEF r
  <2>. QED
    BY <2>1, <2>2, Returns DEF Remote!Next
<1>6. ASSUME NEW c \in Clients, NEW fault \in Faults, Serve(c, fault)
      PROVE  Remote!Next
  BY <1>6, ServeExecutes DEF Remote!Next
<1>7. ASSUME NEW c \in Clients, Delay(c)
      PROVE  Remote!Next
  <2>1. Waits(c)
    BY <1>1, <1>7 DEF Delay, Requested
  <2>. QED
    BY <1>7, <2>1 DEF Delay, Remote!Next, Remote!Abandon, Remote!Waits, Waits
<1>8. ASSUME NEW c \in Clients, Leave(c)
      PROVE  Remote!Next
  BY <1>8 DEF Leave, Remote!Next, Remote!Leave
<1>9. ASSUME NEW c \in Clients,
             \/ Send(c) \/ Lose(c)
             \/ \E response \in Intermediary : Intercept(c, response)
      PROVE  UNCHANGED Remote!vars
  BY <1>9 DEF Send, Lose, Intercept, Remote!vars
<1>10. ASSUME NEW k \in AnyCalls, NEW fault \in Faults, ServeLate(k, fault)
       PROVE  Remote!Next
  BY <1>10, LateExecutes DEF Remote!Next
<1>11. ASSUME NEW k \in LocalCalls, CallLocally(k)
       PROVE  Remote!Next
  BY <1>11 DEF OtherCalls, CallLocally, Remote!Next, Remote!Elsewhere
<1>12. ASSUME NEW r \in ForeignRequests, NEW fault \in Faults, ServeForeign(r, fault)
       PROVE  [Remote!Next]_(Remote!vars)
  <2>1. store' = store \/ store' = Remote!InProcess(store, Asked(r)).store
    BY <1>12, ForeignStore DEF ServeForeign
  <2>2. UNCHANGED <<call, result, outcomes, late>>
    BY <1>12 DEF ServeForeign
  <2>. QED
    BY <2>1, <2>2 DEF OtherCalls, Remote!Next, Remote!Elsewhere, Remote!vars
<1>13. CASE UNCHANGED vars
  BY <1>13 DEF vars, Remote!vars
<1>. QED
  BY <1>2, <1>3, <1>4, <1>5, <1>6, <1>7, <1>8, <1>9, <1>10, <1>11, <1>12, <1>13 DEF Next

\* Clients over a network that loses, repeats and delays, with intermediaries
\* that answer in its stead, implement RemoteTransmitter: to whoever holds it
\* a Client behaves like the Transmitter (client.go:129-139, client/errors.go:85-111).
THEOREM ImplementsRemote == Spec => KeepsPromise
<1>1. Init => Remote!Init
  BY RemoteStore DEF Init, Remote!Init
<1>2. IInv /\ [Next]_vars => [Remote!Next]_(Remote!vars)
  BY StepKeepsPromise
<1>. QED
  BY <1>1, <1>2, Invariance, PTL DEF Spec, KeepsPromise, Remote!Spec

\* What a method returned stands for something that was done for its call as
\* long as the caller holds it: a nil error for a performance with that value,
\* a problem of the Transmitter's own for a failure with that cause
\* (client.go:738-768, client/errors.go:85-111).
THEOREM ResultsAreSound ==
    Spec => [](\A c \in Clients :
                  result[c] # None => Remote!Sound(result[c], outcomes[c]))
<1> DEFINE Held == \A c \in Clients :
                      result[c] # None => Remote!Sound(result[c], outcomes[c])
<1>1. Init => Held
  BY DEF Init
<1>2. ASSUME IInv, Held, [Next]_vars
      PROVE  Held'
  <2>1. /\ result = [c \in Clients |-> result[c]]
        /\ outcomes = [c \in Clients |-> outcomes[c]]
    BY <1>2 DEF IInv, Shapes
  <2>2. CASE UNCHANGED <<result, outcomes>>
    BY <1>2, <2>2
  <2>3. ASSUME NEW c \in Clients, Remote!Return(c)
        PROVE  Held'
    BY <1>2, <2>1, <2>3 DEF Remote!Return
  <2>4. ASSUME NEW c \in Clients, Remote!Execute(c)
        PROVE  Held'
    <3>1. /\ result' = result /\ result[c] = None
          /\ \A d \in Clients \ {c} : outcomes'[d] = outcomes[d]
      BY <2>1, <2>4 DEF Remote!Execute, Remote!Waits
    <3>. QED
      BY <1>2, <3>1
  <2>5. ASSUME NEW c \in Clients, Remote!Leave(c)
        PROVE  Held'
    <3>1. /\ result'[c] = None
          /\ \A d \in Clients \ {c} : result'[d] = result[d] /\ outcomes'[d] = outcomes[d]
      BY <2>1, <2>5 DEF Remote!Leave
    <3>. QED
      BY <1>2, <3>1
  <2>6. ASSUME NEW c \in Clients, Remote!Invoke(c) \/ Remote!Abandon(c)
        PROVE  Held'
    BY <2>2, <2>6 DEF Remote!Invoke, Remote!Abandon
  <2>7. CASE Remote!ExecuteLate \/ Remote!Elsewhere
    BY <2>2, <2>7 DEF Remote!ExecuteLate, Remote!Elsewhere
  <2>8. CASE UNCHANGED Remote!vars
    BY <2>2, <2>8 DEF Remote!vars
  <2>9. [Remote!Next]_(Remote!vars)
    BY <1>2, StepKeepsPromise
  <2>. QED
    BY <2>3, <2>4, <2>5, <2>6, <2>7, <2>8, <2>9 DEF Remote!Next
<1>. QED
  BY <1>1, <1>2, Invariance, PTL DEF Spec

-----------------------------------------------------------------------------
(* Repeated and late requests *)

\* A GET of any path, a verification request and a poll leave the store alone,
\* whatever they carry (handlers.go:82-145, 210-257, 279-422).
LEMMA SafeRequest ==
    ASSUME NEW r,
           r.path \in {"config", "status", "add", "remove", "verify", "poll", "elsewhere"},
           r.method = "GET" \/ r.path \in {"verify", "poll"},
           NEW fault \in Faults
    PROVE  HandleFor(r, fault).store = store
<1> DEFINE works == fault # "backend"
           h == HandleFor(r, fault)
           routed == Route(store, works, r)
<1> SUFFICES h.store = store
  OBVIOUS
<1> USE DEF Refusal, Handled, Refuse, Answer, WriteJSON, Try
<1>1. CASE r.path = "elsewhere" \/ fault = "auth"
  BY <1>1 DEF HandleFor, Handle
<1> SUFFICES ASSUME r.path # "elsewhere", fault # "auth" PROVE h.store = store
  BY <1>1
<1>2. h = routed
  BY DEF HandleFor, Handle
<1>3. CASE r.path = "config" /\ r.method = "GET"
  <2>1. routed.store = store
    BY <1>3 DEF Route, ConfigHandler, ListConfig, GetConfig, ListStreams, GetStream
  <2>. QED
    BY <1>2, <2>1
<1>4. CASE r.path = "status" /\ r.method = "GET"
  <2>1. routed = StatusHandler(store, works, r)
    BY <1>4 DEF Route
  <2>2. routed.store = store
    BY <1>4, <2>1 DEF StatusHandler, GetStatus, GetStreamStatus
  <2>. QED
    BY <1>2, <2>2
<1>5. CASE r.path \in {"add", "remove"} /\ r.method = "GET"
  <2>1. routed.store = store
    BY <1>5 DEF Route, AddSubjectHandler, RemoveSubjectHandler, PostHandler
  <2>. QED
    BY <1>2, <2>1
<1>6. CASE r.path \in {"verify", "poll"}
  <2>1. routed.store = store
    BY <1>6 DEF Route, VerificationHandler, PollHandler, PostHandler, Verify, PollEvents
  <2>. QED
    BY <1>2, <2>1
<1>. QED
  BY <1>3, <1>4, <1>5, <1>6

\* The copy of a read may arrive whenever it likes: none of the five methods of
\* Reads changes the store, which is why Delay need not let their copies travel
\* on (client.go:405-445, 527-543, 614-657).
THEOREM ReadsChangeNothing ==
    ASSUME NEW k, k.op \in Reads, NEW fault \in Faults
    PROVE  HandleFor(NewRequest(k), fault).store = store
<1>1. k.op \in DOMAIN Target
  BY DEF Reads, Target
<1>2. /\ NewRequest(k).path \in {"config", "status", "verify", "poll"}
      /\ NewRequest(k).method = "GET" \/ NewRequest(k).path \in {"verify", "poll"}
  BY <1>1, RequestOf DEF Reads
<1>. QED
  BY <1>2, SafeRequest

\* Writing what is there writes nothing.
LEMMA WrittenAgain ==
    ASSUME NEW f, NEW i, NEW v
    PROVE  LET g == [f EXCEPT ![i] = v]
           IN  /\ [g EXCEPT ![i] = v] = g
               /\ i \in DOMAIN f => g[i] = v /\ i \in DOMAIN g
               /\ i \notin DOMAIN f => i \notin DOMAIN g
OBVIOUS

\* A deletion leaves a store.
LEMMA DroppedTyped ==
    ASSUME NEW s, Typed(s), NEW id
    PROVE  Typed(DeleteStream(s, id).store)
<1> DEFINE t == DeleteStream(s, id).store
<1>1. t = [streams |-> Drop(s.streams, id), statuses |-> Drop(s.statuses, id),
           subjects |-> Drop(s.subjects, id), queues |-> Drop(s.queues, id),
           nextID |-> s.nextID]
  BY DeletedFields
<1> HIDE DEF t
<1>2. \A x \in DOMAIN t.streams : x \in DOMAIN s.streams /\ t.streams[x] = s.streams[x]
  BY <1>1 DEF Drop
<1>3. \A x \in DOMAIN t.statuses : x \in DOMAIN s.statuses /\ t.statuses[x] = s.statuses[x]
  BY <1>1 DEF Drop
<1>4. Typed(t)
  BY <1>1, <1>2, <1>3 DEF Typed
<1>. QED
  BY <1>4 DEF t

\* A call in the same process that is made a second time, with nothing in
\* between, leaves the store as the first time left it, unless it has the store
\* mint an id (memstore.go:97-310).
LEMMA InProcessTwice ==
    ASSUME NEW s, Typed(s), NEW k, IsCall(k),
           k.op = "CreateConfig" => k.body = None \/ k.body.id # None
    PROVE  LET once == Remote!InProcess(s, k).store
           IN  Remote!InProcess(once, k).store = once
<1> DEFINE t == Remote!InProcess(s, k).store
           Goal == Remote!InProcess(t, k).store = t
<1> SUFFICES Goal
  OBVIOUS
<1> USE DEF Refuse, Answer, NeedsBody
<1>1. CASE k.op \in NeedsBody /\ k.body = None
  BY <1>1, RefusedWithoutBody
<1> SUFFICES ASSUME k.op \in NeedsBody => k.body # None
             PROVE  Goal
  BY <1>1
<1>2. CASE k.op \in {"GetConfig", "ListConfig", "GetStatus", "Verify", "PollEvents"}
  <2>1. \A u : Remote!InProcess(u, k).store = u
    BY <1>2, InProcessByMethod DEF GetStream, GetStreamStatus, Verify, PollEvents
  <2>. QED
    BY <2>1
<1>3. CASE k.op = "CreateConfig"
  <2>1. k.body.id # None
    BY <1>3
  <2>2. ASSUME NEW u, k.body.id \in DOMAIN u.streams
        PROVE  Remote!InProcess(u, k).store = u
    <3>1. Remote!InProcess(u, k) = CreateStream(u, k.body)
      BY <1>3, InProcessByMethod
    <3>. QED
      BY <2>1, <2>2, <3>1 DEF CreateStream
  <2>3. CASE k.body.id \in DOMAIN s.streams
    BY <2>2, <2>3
  <2>4. CASE k.body.id \notin DOMAIN s.streams
    <3>1. Remote!InProcess(s, k) = CreateStream(s, k.body)
      BY <1>3, InProcessByMethod
    <3>2. t = Seeded(s, k.body, s.nextID)
      BY <2>1, <2>4, <3>1 DEF CreateStream
    <3>3. k.body.id \in DOMAIN t.streams
      BY <3>2 DEF Seeded, Put
    <3>. QED
      BY <2>2, <3>3
  <2>. QED
    BY <2>3, <2>4
<1>4. CASE k.op = "UpdateConfig"
  <2>1. \A u : Remote!InProcess(u, k) = UpdateStream(u, k.body)
    BY <1>4, InProcessByMethod
  <2>2. CASE k.body.id \notin DOMAIN s.streams
    BY <2>1, <2>2 DEF UpdateStream
  <2>3. CASE k.body.id \in DOMAIN s.streams
    <3> DEFINE new == Put(s.streams, k.body.id, k.body)
    <3>1. t = [s EXCEPT !.streams = new]
      BY <2>1, <2>3 DEF UpdateStream
    <3>2. t.streams = new
      BY <3>1, StoreFields
    <3>3. k.body.id \in DOMAIN new /\ Put(new, k.body.id, k.body) = new
      BY DEF Put
    <3> HIDE DEF new
    <3>4. [t EXCEPT !.streams = new] = t
      BY <3>1, StoreFields, WrittenAgain
    <3> HIDE DEF t
    <3>. QED
      BY <2>1, <3>2, <3>3, <3>4 DEF UpdateStream
  <2>. QED
    BY <2>2, <2>3
<1>5. CASE k.op = "DeleteConfig"
  <2>1. \A u : Remote!InProcess(u, k) = DeleteStream(u, k.id)
    BY <1>5, InProcessByMethod
  <2>2. PICK a, b, c, d, e :
           s = [streams |-> a, statuses |-> b, subjects |-> c, queues |-> d, nextID |-> e]
    BY DEF Typed
  <2>3. t = [streams |-> Drop(a, k.id), statuses |-> Drop(b, k.id),
             subjects |-> Drop(c, k.id), queues |-> Drop(d, k.id), nextID |-> e]
    BY <2>1, <2>2, DeletedFields
  <2>4. Typed(t)
    BY <2>1, <2>2, <2>3, DroppedTyped
  <2>5. \A f : Drop(Drop(f, k.id), k.id) = Drop(f, k.id)
    BY DEF Drop
  <2>6. DeleteStream(t, k.id).store
          = [streams |-> Drop(t.streams, k.id), statuses |-> Drop(t.statuses, k.id),
             subjects |-> Drop(t.subjects, k.id), queues |-> Drop(t.queues, k.id),
             nextID |-> t.nextID]
    BY <2>4, DeletedFields
  <2>7. DeleteStream(t, k.id).store = t
    BY <2>3, <2>5, <2>6
  <2>. QED
    BY <2>1, <2>7
<1>6. CASE k.op = "UpdateStatus"
  <2> DEFINE response == [status |-> k.body.status, subject |-> k.body.subject]
             key == Key(k.body.subject)
  <2>1. \A u : Remote!InProcess(u, k)
                 = SetStreamStatus(u, k.id, k.body.status, k.body.subject)
    BY <1>6, InProcessByMethod
  <2>2. CASE k.id \notin DOMAIN s.statuses \/ k.body.subject = Garbled
    BY <2>1, <2>2 DEF SetStreamStatus
  <2>3. CASE k.id \in DOMAIN s.statuses /\ k.body.subject # Garbled
    <3> DEFINE bucket == Put(s.statuses[k.id], key, response)
               new == [s.statuses EXCEPT ![k.id] = bucket]
    <3>0. Remote!InProcess(s, k) = SetStreamStatus(s, k.id, k.body.status, k.body.subject)
      BY <2>1
    <3>1. t = [s EXCEPT !.statuses[k.id] = bucket]
      BY <2>3, <3>0 DEF SetStreamStatus
    <3>2. Put(bucket, key, response) = bucket
      BY DEF Put
    <3> HIDE DEF key, response, bucket
    <3>3. t = [s EXCEPT !.statuses = new]
      BY <3>1
    <3>4. k.id \in DOMAIN new /\ new[k.id] = bucket /\ [new EXCEPT ![k.id] = bucket] = new
      BY <2>3, WrittenAgain
    <3> HIDE DEF new
    <3>5. t.statuses = new
      BY <3>3, StoreFields
    <3>7. [t EXCEPT !.statuses = new] = t
      BY <3>3, StoreFields, WrittenAgain
    <3> HIDE DEF t
    <3>6. [t EXCEPT !.statuses[k.id] = Put(t.statuses[k.id], key, response)]
            = [t EXCEPT !.statuses = [t.statuses EXCEPT ![k.id] = Put(t.statuses[k.id], key, response)]]
      OBVIOUS
    <3>. QED
      BY <2>1, <2>3, <3>2, <3>4, <3>5, <3>6, <3>7 DEF SetStreamStatus, key, response
  <2>. QED
    BY <2>2, <2>3
<1>7. ASSUME k.op \in {"AddSubject", "RemoveSubject"}
      PROVE  Goal
  <2> DEFINE key == CanonicalKey(k.body.subject)
             With(set) == IF k.op = "AddSubject" THEN set \cup {key} ELSE set \ {key}
  <2>1. ASSUME NEW u
        PROVE  Remote!InProcess(u, k).store
                 = IF k.id \in DOMAIN u.subjects /\ k.body.subject \notin {None, Garbled}
                   THEN [u EXCEPT !.subjects[k.id] = With(u.subjects[k.id])] ELSE u
    <3>1. CASE k.op = "AddSubject"
      <4>1. Remote!InProcess(u, k) = AddSubject(u, k.id, k.body.subject)
        BY <3>1, InProcessByMethod
      <4>. QED
        BY <3>1, <4>1 DEF AddSubject
    <3>2. CASE k.op = "RemoveSubject"
      <4>1. Remote!InProcess(u, k) = RemoveSubject(u, k.id, k.body.subject)
        BY <3>2, InProcessByMethod
      <4>. QED
        BY <3>2, <4>1 DEF RemoveSubject
    <3>. QED
      BY <1>7, <3>1, <3>2
  <2>2. \A set : With(With(set)) = With(set)
    OBVIOUS
  <2> HIDE DEF With
  <2>3. CASE ~(k.id \in DOMAIN s.subjects /\ k.body.subject \notin {None, Garbled})
    BY <2>1, <2>3
  <2>4. CASE k.id \in DOMAIN s.subjects /\ k.body.subject \notin {None, Garbled}
    <3> DEFINE set == With(s.subjects[k.id])
               new == [s.subjects EXCEPT ![k.id] = set]
    <3>1. t = [s EXCEPT !.subjects[k.id] = set]
      BY <2>1, <2>4
    <3>2. With(set) = set
      BY <2>2
    <3> HIDE DEF set
    <3>3. t = [s EXCEPT !.subjects = new]
      BY <3>1
    <3>4. k.id \in DOMAIN new /\ new[k.id] = set /\ [new EXCEPT ![k.id] = set] = new
      BY <2>4, WrittenAgain
    <3> HIDE DEF new
    <3>5. t.subjects = new
      BY <3>3, StoreFields
    <3>6. [t EXCEPT !.subjects = new] = t
      BY <3>3, StoreFields, WrittenAgain
    <3> HIDE DEF t
    <3>7. [t EXCEPT !.subjects[k.id] = With(t.subjects[k.id])]
            = [t EXCEPT !.subjects = [t.subjects EXCEPT ![k.id] = With(t.subjects[k.id])]]
      OBVIOUS
    <3>8. Remote!InProcess(t, k).store = [t EXCEPT !.subjects[k.id] = With(t.subjects[k.id])]
      BY <2>1, <2>4, <3>4, <3>5
    <3>9. Remote!InProcess(t, k).store = t
      BY <3>2, <3>4, <3>5, <3>6, <3>7, <3>8
    <3>. QED
      BY <3>9 DEF t
  <2>. QED
    BY <2>3, <2>4
<1>. QED
  BY <1>2, <1>3, <1>4, <1>5, <1>6, <1>7 DEF IsCall, Target

\* A doer that repeats a request whose answer was lost, with nothing in between,
\* does no harm with any method but a CreateConfig that has the store mint an id
\* (client.go:738-742, memstore.go:97-310).
THEOREM RepeatedIsOnce ==
    ASSUME NEW s, Typed(s), NEW k, IsCall(k),
           k.op = "CreateConfig" => k.body = None \/ k.body.id # None
    PROVE  LET once == Remote!Perform(s, k).store
           IN  Remote!Perform(once, k).store = once
<1>1. CASE Remote!Malformed(k)
  BY <1>1 DEF Remote!Perform, Remote!Refuse, Remote!Answer
<1>2. CASE ~Remote!Malformed(k) /\ ~(k.op = "GetConfig" /\ k.id = None)
  <2>1. \A u : Remote!Perform(u, k).store = Remote!InProcess(u, k).store
    BY <1>2, PerformUsual DEF Answer
  <2>. QED
    BY <2>1, InProcessTwice
<1>3. CASE k.op = "GetConfig" /\ k.id = None
  <2> DEFINE asked == [k EXCEPT !.op = "ListConfig"]
  <2>1. asked.op = "ListConfig"
    BY DEF IsCall, Call
  <2>2. ~Remote!Malformed(k)
    BY <1>3 DEF Remote!Malformed
  <2>3. ASSUME NEW u
        PROVE  Remote!Perform(u, k).store = u
    <3>1. Remote!InProcess(u, asked) = Answer(u, "nil", [streams |-> ListStreams(u).out])
      BY <2>1, InProcessByMethod
    <3> HIDE DEF asked
    <3>. QED
      BY <1>3, <2>2, <3>1 DEF Remote!Perform, Remote!Answer, Answer, asked
  <2>. QED
    BY <2>3
<1>. QED
  BY <1>1, <1>2, <1>3
=============================================================================

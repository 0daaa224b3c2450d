------------------------ MODULE MemstoreTransmitter ------------------------
(***************************************************************************)
(* interop.MemstoreTransmitter over memstore.InMemoryStore: the poll side  *)
(* of one stream.  The harness and the store keep their state per stream   *)
(* and no operation here touches two streams, so one stream is the whole   *)
(* story.  The harness and the store have a mutex each; an operation that  *)
(* uses both is two steps, and other handlers run in between.              *)
(***************************************************************************)
EXTENDS SetReports, Sequences

CONSTANT MaxEvents  \* the cap the poll request carries

ASSUME MaxEventsAssumption == MaxEvents \in Nat \ {0}

VARIABLES
    exists,       \* the store knows the stream
    stored,       \* SETs in the store's own queue, which no poll drains
    pending,      \* t.pending[stream]
    outstanding,  \* the keys of t.outstanding[stream]
    observed,     \* t.observedSetErrs[stream]
    enqueuing,    \* EnqueueForPoll calls between the store's lock and t.mu
    deleting,     \* DeleteConfig is between t.mu and the store's lock
    offered,      \* history: SETs ever appended to pending
    purged        \* history: SETs a DeleteConfig has disposed of

transmitterVars == <<exists, stored, pending, outstanding, observed,
                     enqueuing, deleting, offered, purged>>

Elements(seq) == {seq[i] : i \in 1..Len(seq)}

Held == Elements(pending) \cup outstanding

\* SETs the Transmitter has let go of because a poll acknowledged them.
Settled == offered \ (Held \cup purged)

TransmitterTypeOK ==
    /\ exists \in BOOLEAN
    /\ stored \subseteq JTI
    /\ pending \in Seq(JTI)
    /\ outstanding \subseteq JTI
    /\ observed \in Reports
    /\ enqueuing \subseteq JTI
    /\ deleting \in BOOLEAN
    /\ offered \subseteq JTI
    /\ purged \subseteq JTI

TransmitterInit ==
    /\ exists = TRUE
    /\ stored = {}
    /\ pending = <<>>
    /\ outstanding = {}
    /\ observed = NoErrs
    /\ enqueuing = {}
    /\ deleting = FALSE
    /\ offered = {}
    /\ purged = {}

-----------------------------------------------------------------------------
(* EnqueueForPoll.  JTIs are unique, as RFC 8417 requires of them.         *)

EnqueueInStore(j) ==
    /\ exists
    /\ j \notin offered \cup enqueuing
    /\ stored' = stored \cup {j}
    /\ enqueuing' = enqueuing \cup {j}
    /\ UNCHANGED <<exists, pending, outstanding, observed, deleting, offered,
                   purged>>

AppendPending(j) ==
    /\ j \in enqueuing
    /\ enqueuing' = enqueuing \ {j}
    /\ pending' = Append(pending, j)
    /\ offered' = offered \cup {j}
    /\ UNCHANGED <<exists, stored, outstanding, observed, deleting, purged>>

-----------------------------------------------------------------------------
(* DeleteConfig and CreateConfig.                                          *)

ClearHarness ==
    /\ ~deleting
    /\ deleting' = TRUE
    /\ pending' = <<>>
    /\ outstanding' = {}
    /\ observed' = NoErrs
    /\ purged' = offered
    /\ UNCHANGED <<exists, stored, enqueuing, offered>>

DeleteStream ==
    /\ deleting
    /\ deleting' = FALSE
    /\ exists' = FALSE
    /\ stored' = {}
    /\ UNCHANGED <<pending, outstanding, observed, enqueuing, offered, purged>>

\* The caller supplies the id of a stream that is gone.
CreateStream ==
    /\ ~exists
    /\ exists' = TRUE
    /\ UNCHANGED <<stored, pending, outstanding, observed, enqueuing, deleting,
                   offered, purged>>

-----------------------------------------------------------------------------
(* PollEvents, under t.mu: acks, setErrs, then the head of pending moves   *)
(* to outstanding and is returned.                                         *)

BatchSize == IF MaxEvents < Len(pending) THEN MaxEvents ELSE Len(pending)

Batch == {pending[i] : i \in 1..BatchSize}

BatchReply == [status |-> "ok", sets |-> Batch, more |-> BatchSize < Len(pending)]

\* Mutant: one entry too few leaves the queue.
UndrainedOffByOne ==
    SubSeq(pending, IF BatchSize = 0 THEN 1 ELSE BatchSize, Len(pending))

Undrained == SubSeq(pending, BatchSize + 1, Len(pending))

\* Mutant: a reported SET is dropped like an acknowledged one.
DrainDropsReported(acked, reported) ==
    /\ outstanding' = (outstanding \ (acked \cup
                        {j \in JTI : reported[j] # "none"})) \cup Batch
    /\ observed' = Overlay(observed, reported)
    /\ pending' = Undrained
    /\ UNCHANGED <<exists, stored, enqueuing, deleting, offered, purged>>

Drain(acked, reported) ==
    /\ outstanding' = (outstanding \ acked) \cup Batch
    /\ observed' = Overlay(observed, reported)
    /\ pending' = Undrained
    /\ UNCHANGED <<exists, stored, enqueuing, deleting, offered, purged>>
=============================================================================

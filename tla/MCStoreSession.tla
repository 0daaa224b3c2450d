-------------------------- MODULE MCStoreSession --------------------------
(***************************************************************************)
(* Values for StoreSession: push documents without an endpoint, documents  *)
(* of an extension method with one and with a member no factory knows.     *)
(***************************************************************************)
EXTENDS StoreSession, TLC

CONSTANTS push, ext, url, a, nowhere

NamesV == {a}

DocsV ==
    {[method |-> push, endpoint |-> nowhere, extra |-> FALSE],
     [method |-> ext, endpoint |-> url, extra |-> TRUE]}
=============================================================================

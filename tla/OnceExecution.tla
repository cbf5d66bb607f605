---------------------------- MODULE OnceExecution ----------------------------
(***************************************************************************)
(* What the mutation ledger promises, with no ledger in it: a request key  *)
(* is claimed by one request, runs at most once, may settle on one result, *)
(* and callers are told only that result, and only for that request.  A    *)
(* key may stay forever where it is: its outcome is then unknown.          *)
(***************************************************************************)
CONSTANTS
    Key,       \* durable request keys
    Content,   \* what a request asks for
    Result,    \* results of a run
    Nothing    \* not claimed, or no result

VARIABLES
    phase,     \* how far each key has come
    owner,     \* the request content that claimed it
    log,       \* the contents run under each key, in order
    result,    \* the settled result
    told       \* <<key, content, result>> given to callers

vars == <<phase, owner, log, result, told>>

Init ==
    /\ phase = [k \in Key |-> "new"]
    /\ owner = [k \in Key |-> Nothing]
    /\ log = [k \in Key |-> <<>>]
    /\ result = [k \in Key |-> Nothing]
    /\ told = {}

Claim(k, c) ==
    /\ phase[k] = "new"
    /\ phase' = [phase EXCEPT ![k] = "claimed"]
    /\ owner' = [owner EXCEPT ![k] = c]
    /\ UNCHANGED <<log, result, told>>

Run(k) ==
    /\ phase[k] = "claimed"
    /\ phase' = [phase EXCEPT ![k] = "ran"]
    /\ log' = [log EXCEPT ![k] = <<owner[k]>>]
    /\ UNCHANGED <<owner, result, told>>

Settle(k, r) ==
    /\ phase[k] = "ran"
    /\ phase' = [phase EXCEPT ![k] = "settled"]
    /\ result' = [result EXCEPT ![k] = r]
    /\ UNCHANGED <<owner, log, told>>

Tell(k, c) ==
    /\ phase[k] = "settled"
    /\ owner[k] = c
    /\ told' = told \cup {<<k, c, result[k]>>}
    /\ UNCHANGED <<phase, owner, log, result>>

Next ==
    \E k \in Key :
        \/ \E c \in Content : Claim(k, c) \/ Tell(k, c)
        \/ Run(k)
        \/ \E r \in Result : Settle(k, r)

Spec == Init /\ [][Next]_vars

=============================================================================

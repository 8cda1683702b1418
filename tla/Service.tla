-------------------------------- MODULE Service --------------------------------
(***************************************************************************)
(* The Taskboard behind its front door (service.py): admin requests that   *)
(* mint and revoke tokens, and the requests of agents, each of which is    *)
(* admitted on a token first and served later.                             *)
(*                                                                         *)
(* _require_session_auth() looks the token up in a connection of its own.  *)
(* Then the body of the request is read, for which the client has 15       *)
(* seconds, and then the handler opens its connection: the token may be    *)
(* revoked or expire in between, and the request is served all the same.   *)
(* Every token here has all scopes, which is the default.                  *)
(***************************************************************************)
EXTENDS Taskboard

CONSTANTS
    MaxTokens,   \* bound: tokens minted, with ids 1..MaxTokens
    MaxLife      \* bound: longest life of a session token, in ticks

ASSUME MaxTokensAssumption == MaxTokens \in Nat
ASSUME MaxLifeAssumption   == MaxLife \in Nat \ {0}

VARIABLES
    token,       \* the auth_tokens table
    request      \* per thread: the token its request was admitted on, NoToken if
                 \* it has none

svars == <<vars, token, request>>

Tokens == 1..MaxTokens
NoToken == 0

\* expires_ts, relative to now.  Zero once the token has expired or is revoked:
\* neither is undone, and nothing but a listing tells one from the other.
Never == MaxLife + 1
TokenRecord == [principal : MaybeAgent, left : 0..Never]

NotMinted == [principal |-> NoAgent, left |-> 0]

-----------------------------------------------------------------------------
(* Administration.                                                         *)

\* POST /v1/admin/tokens/mint.  A service token never expires.  If the answer is
\* lost the token is one that nobody ever uses.
Mint(k, a, life) ==
    /\ token[k] = NotMinted
    /\ \A j \in 1..(k - 1) : token[j] # NotMinted
    /\ token' = [token EXCEPT ![k] = [principal |-> a, left |-> life]]
    /\ UNCHANGED <<vars, request>>

Revoked(K) ==
    [k \in Tokens |-> IF k \in K THEN [token[k] EXCEPT !.left = 0] ELSE token[k]]

\* WHERE session_id = ?  Here a principal works under one session id.
OfSession(a) == {k \in Tokens : token[k].principal = a}

\* POST /v1/admin/tokens/revoke, which takes a token_id, a session_id, or both: then
\* it looks at the token_id alone.
Revoke(k, a) ==
    /\ token' = Revoked(IF k # NoToken THEN {k} ELSE OfSession(a))
    /\ UNCHANGED <<vars, request>>

-----------------------------------------------------------------------------
(* A request.                                                              *)

\* Mutant: the token of an expired session is good for ever.
Good_Minted(k) == token[k] # NotMinted

\* The WHERE clause of build_auth_context().
Good(k) == token[k].left > 0

\* _require_session_auth()
Admit(r, k) ==
    /\ request[r] = NoToken
    /\ Good(k)
    /\ request' = [request EXCEPT ![r] = k]
    /\ UNCHANGED <<vars, token>>

Admitted(r) == request[r] # NoToken /\ stale_rows[r] = NoRows
Done(r) == request' = [request EXCEPT ![r] = NoToken] /\ UNCHANGED token

\* The body does not come, the request is refused, or it reads and finds no claim
\* to expire.
NothingWritten(r) ==
    /\ Admitted(r)
    /\ Done(r)
    /\ UNCHANGED vars

\* A handler that holds the write lock, in the name of the token's principal.
Locked(r) ==
    /\ Admitted(r)
    /\ Done(r)
    /\ ExpiryPass \/ \E t \in Tasks : AgentRequest(token[request[r]].principal, t)

\* A handler that does not: its SELECT, and its transaction.
Select(r) ==
    /\ Admitted(r)
    /\ SelectStale(r)
    /\ UNCHANGED <<token, request>>

WriteBack(r) ==
    /\ stale_rows[r] # NoRows
    /\ Done(r)
    /\ FinishRead(r) \/ \E c \in Tasks : FinishComment(r, c)

\* It raises, or the service is killed.
Abort(r) ==
    /\ Done(r)
    /\ RollbackRead(r)

-----------------------------------------------------------------------------
(* The specification.                                                      *)

\* One second passes, for leases and for tokens.
TimePasses ==
    /\ Tick \/ ((\A t \in Tasks : task[t].lease < 0) /\ UNCHANGED vars)
    /\ token' = [k \in Tokens |-> IF token[k].left \in 1..MaxLife
                                  THEN [token[k] EXCEPT !.left = @ - 1] ELSE token[k]]
    /\ UNCHANGED request

ServiceInit ==
    /\ Init
    /\ token = [k \in Tokens |-> NotMinted]
    /\ request = [r \in Readers |-> NoToken]

Administer ==
    \/ \E k \in Tokens, a \in Agents, life \in 1..Never : Mint(k, a, life)
    \/ \E k \in Tokens \cup {NoToken}, a \in Agents : Revoke(k, a)

Ends(r) == NothingWritten(r) \/ Locked(r) \/ WriteBack(r) \/ Abort(r)

Serve(r) ==
    \/ \E k \in Tokens : Admit(r, k)
    \/ Select(r) \/ Ends(r)

ServiceNext ==
    \/ TimePasses
    \/ Administer
    \/ \E r \in Readers : Serve(r)

ServiceSpec == ServiceInit /\ [][ServiceNext]_svars

\* Time passes.  Who has a good token keeps asking, for a read among other
\* things; a request ends, because its socket has a timeout and SQLite's lock has
\* one; and of infinitely many reads one is not rolled back.
ServiceFairSpec ==
    /\ ServiceSpec
    /\ WF_svars(TimePasses)
    /\ \A r \in Readers :
          /\ WF_svars(\E k \in Tokens : Admit(r, k))
          /\ WF_svars(Ends(r))
          /\ SF_svars(Select(r))
          /\ SF_svars(FinishRead(r) /\ WriteBack(r))

-----------------------------------------------------------------------------
(* Properties.                                                             *)

\* The tables have their types, and whoever is served was let in as an agent: the
\* token of a request was minted, though it may be dead by now.
ServiceTypeOK ==
    /\ token \in [Tokens -> TokenRecord]
    /\ request \in [Readers -> Tokens \cup {NoToken}]
    /\ \A k \in Tokens : token[k].principal = NoAgent <=> token[k] = NotMinted
    /\ \A r \in Readers : request[r] # NoToken => token[request[r]].principal \in Agents

SomebodyIsIn == \E k \in Tokens : token[k].left > 0
IsOut(a) == \A k \in Tokens : token[k].principal = a => token[k].left = 0

\* An agent that is shut out loses its work: once all tokens of an agent have
\* expired or are revoked, and as long as somebody else is let in, no task stays
\* with it, whatever of its requests was admitted before.
ShutOutLosesWork ==
    \A a \in Agents :
        []<>SomebodyIsIn /\ <>[]IsOut(a) => <>[](\A t \in Tasks : task[t].claim_agent # a)

\* Work its holder abandoned returns.  Nobody sweeps the board, and nobody may read
\* it without a token: as long as somebody is let in, a task stays with one agent
\* for ever only if the agent renews its claim again and again.
ReadsBringWorkBack ==
    []<>SomebodyIsIn =>
        \A t \in Tasks, a \in Agents :
            <>[](task[t].claim_agent = a)
                => []<><<\E len \in 1..MaxLease : Claim(a, t, len) \/ Heartbeat(a, t, len)>>_vars
=============================================================================

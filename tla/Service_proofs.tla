---------------------------- MODULE Service_proofs ----------------------------
(***************************************************************************)
(* That the Service is a Taskboard: whoever is let in, and whatever        *)
(* becomes of tokens in the meantime, its tables behave as those of module *)
(* Taskboard, so that the theorems about it hold behind the front door.    *)
(***************************************************************************)
EXTENDS Service, Taskboard_proofs

\* A request is admitted on a token that was minted, and tokens keep their principal
\* until it is served.
THEOREM ServiceTypeCorrect == ServiceSpec => []ServiceTypeOK
<1> USE NoAgentAssumption, MaxLifeAssumption, MaxTokensAssumption
    DEF Tokens, NoToken, Never, TokenRecord, NotMinted, MaybeAgent
<1>1. ServiceInit => ServiceTypeOK
  BY DEF ServiceInit, ServiceTypeOK
<1>2. ServiceTypeOK /\ [ServiceNext]_svars => ServiceTypeOK'
  <2> SUFFICES ASSUME ServiceTypeOK, [ServiceNext]_svars
               PROVE  ServiceTypeOK'
    OBVIOUS
  <2> USE DEF ServiceTypeOK
  <2>1. CASE TimePasses
    BY <2>1 DEF TimePasses
  <2>2. ASSUME NEW k \in Tokens, NEW a \in Agents, NEW life \in 1..Never, Mint(k, a, life)
        PROVE  ServiceTypeOK'
    BY <2>2 DEF Mint
  <2>3. ASSUME NEW k \in Tokens \cup {NoToken}, NEW a \in Agents, Revoke(k, a)
        PROVE  ServiceTypeOK'
    BY <2>3 DEF Revoke, Revoked, OfSession
  <2>4. ASSUME NEW r \in Readers, NEW k \in Tokens, Admit(r, k)
        PROVE  ServiceTypeOK'
    BY <2>4 DEF Admit, Good
  <2>5. ASSUME NEW r \in Readers, Select(r)
        PROVE  ServiceTypeOK'
    BY <2>5 DEF Select
  <2>6. ASSUME NEW r \in Readers, Ends(r)
        PROVE  ServiceTypeOK'
    <3>1. Done(r)
      BY <2>6 DEF Ends, NothingWritten, Locked, WriteBack, Abort
    <3> QED
      BY <3>1 DEF Done
  <2>7. CASE UNCHANGED svars
    BY <2>7 DEF svars
  <2> QED
    BY <2>1, <2>2, <2>3, <2>4, <2>5, <2>6, <2>7 DEF ServiceNext, Administer, Serve
<1> QED
  BY <1>1, <1>2, PTL DEF ServiceSpec

\* Every step of the Service is a step of the Taskboard, taken in the name of an
\* agent, or leaves the Taskboard alone.
THEOREM ServiceIsTaskboard == ServiceSpec => Spec
<1>1. ServiceInit => Init
  BY DEF ServiceInit
<1>2. ServiceTypeOK /\ [ServiceNext]_svars => [Next]_vars
  <2> SUFFICES ASSUME ServiceTypeOK, ServiceNext
               PROVE  [Next]_vars
    BY DEF svars
  <2>1. CASE TimePasses
    BY <2>1 DEF TimePasses, Next
  <2>2. CASE Administer
    BY <2>2 DEF Administer, Mint, Revoke
  <2>3. ASSUME NEW r \in Readers, NEW k \in Tokens, Admit(r, k)
        PROVE  [Next]_vars
    BY <2>3 DEF Admit
  <2>4. ASSUME NEW r \in Readers, Select(r)
        PROVE  Next
    BY <2>4 DEF Select, Next, ReadRequest
  <2>5. ASSUME NEW r \in Readers, NothingWritten(r)
        PROVE  [Next]_vars
    BY <2>5 DEF NothingWritten
  <2>6. ASSUME NEW r \in Readers, Locked(r)
        PROVE  Next
    <3>1. token[request[r]].principal \in Agents
      BY <2>6 DEF Locked, Admitted, ServiceTypeOK
    <3>2. LockedRequest
      BY <2>6, <3>1 DEF Locked, LockedRequest
    <3> QED
      BY <3>2 DEF Next
  <2>7. ASSUME NEW r \in Readers, WriteBack(r) \/ Abort(r)
        PROVE  Next
    BY <2>7 DEF WriteBack, Abort, Next, ReadRequest
  <2> QED
    BY <2>1, <2>2, <2>3, <2>4, <2>5, <2>6, <2>7 DEF ServiceNext, Serve, Ends
<1>3. ServiceSpec => []ServiceTypeOK
  BY ServiceTypeCorrect
<1> QED
  BY <1>1, <1>2, <1>3, PTL DEF ServiceSpec, Spec

\* Behind the front door, too, a task is claimed exactly while it has a holder and a
\* lease, and its trail explains it.
COROLLARY ServiceRows == ServiceSpec => [](ClaimColumnsAgree /\ TrailExplainsBoard)
BY ServiceIsTaskboard, ClaimColumns, TrailIsEvidence, PTL

\* Nor does the front door let anybody disturb a live lease, a done task or a blocked
\* one outside a reader's window.
COROLLARY ServiceKeepsOutside == ServiceSpec => KeptOutsideWindows
BY ServiceIsTaskboard, KeptOutside
=============================================================================

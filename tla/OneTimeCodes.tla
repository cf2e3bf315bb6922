---------------------------- MODULE OneTimeCodes ----------------------------
(***************************************************************************)
(* uam-backend's one-time codes: e-mail link codes and form tokens         *)
(* (email-link.service.ts), OAuth states (oauth-pkce.service.ts), OAuth    *)
(* exchange codes (oauth-exchange.service.ts) and verification poll tokens *)
(* (verification-poll.service.ts).  Each lives in Redis while Redis is     *)
(* available and in the process's memory otherwise; the choice is made     *)
(* anew at every call.  A Redis command may be refused or fail: cacheSet   *)
(* and cacheDel then do nothing and cacheGet answers null, as it does for  *)
(* a code whose TTL has passed.                                            *)
(***************************************************************************)
EXTENDS Naturals

CONSTANTS
  Production,   \* config.nodeEnv = 'production': no memory fallback for new codes
  MaxFaults     \* bound: commands, answers, connections and processes that fail

VARIABLES
  ready,    \* isRedisAvailable()
  cache,    \* the codes in Redis
  memory,   \* the codes in the process's maps
  faults    \* how many of MaxFaults have happened

codeVars == <<ready, cache, memory, faults>>

\* The environment's choice between a good and a bad outcome.
Outcome(ok) == (ok \/ faults < MaxFaults) /\ faults' = IF ok THEN faults ELSE faults + 1

NoCode == [k |-> "none"]
Link(kind, s) == [k |-> "link", kind |-> kind, secret |-> s]
Form(kind, s, t) == [k |-> "form", kind |-> kind, secret |-> s, by |-> t]
State(s) == [k |-> "state", secret |-> s]
Exchange(s, n) == [k |-> "exchange", secret |-> s, pair |-> n]
Poll == [k |-> "poll"]

-----------------------------------------------------------------------------
(* Making a code *)

\* cacheSet while Redis is available, the process's map otherwise.  made is
\* FALSE where production refuses the map; a SET that failed still yields a
\* code.
Create(code, made) ==
  \/ /\ ready /\ made
     /\ \E ok \in BOOLEAN : Outcome(ok) /\ cache' = IF ok THEN cache \cup {code} ELSE cache
     /\ UNCHANGED <<ready, memory>>
  \/ /\ ~ready /\ made = ~Production
     /\ memory' = IF made THEN memory \cup {code} ELSE memory
     /\ UNCHANGED <<ready, cache, faults>>

CreateEmailLinkCode(link, made) == link.k = "link" /\ Create(link, made)

CreateOAuthState(s, made) == Create(State(s), made)

\* Bound to the OAuth state and carrying the token pair.
CreateOAuthExchangeCode(s, n, made) == Create(Exchange(s, n), made)

CreateVerificationPollToken(made) == Create(Poll, made)

\* redeemEmailLinkCode's form token: memory serves in production too.
Put(code) ==
  IF ready
    THEN /\ \E ok \in BOOLEAN : Outcome(ok) /\ cache' = IF ok THEN cache \cup {code} ELSE cache
         /\ UNCHANGED <<ready, memory>>
    ELSE memory' = memory \cup {code} /\ UNCHANGED <<ready, cache, faults>>

-----------------------------------------------------------------------------
(* Using one *)

\* cacheGet.  In memory the code is removed in the same step.
Get(code, found) ==
  IF ready
    THEN /\ \E ok \in BOOLEAN : Outcome(ok) /\ found = (ok /\ code \in cache)
         /\ UNCHANGED <<ready, cache, memory>>
    ELSE /\ found = (code \in memory)
         /\ memory' = memory \ {code}
         /\ UNCHANGED <<ready, cache, faults>>

\* The cacheDel that follows it.
Del(code) ==
  /\ \E ok \in BOOLEAN : Outcome(ok) /\ cache' = IF ready /\ ok THEN cache \ {code} ELSE cache
  /\ UNCHANGED <<ready, memory>>

-----------------------------------------------------------------------------
(* Redis *)

\* wireClientEvents: 'close' clears the ready flag, 'ready' sets it.
Disconnect == ready /\ Outcome(FALSE) /\ ready' = FALSE /\ UNCHANGED <<cache, memory>>
Reconnect == ~ready /\ ready' = TRUE /\ UNCHANGED <<cache, memory, faults>>
=============================================================================

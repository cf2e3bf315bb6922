----------------------------- MODULE Migration -----------------------------
(***************************************************************************)
(* uam-backend's e-mail migration handlers (migration.controller.ts) cut   *)
(* at their awaits, with the other handlers that write the same rows:      *)
(* login with a pending address, registration, updateBio and the cleanup   *)
(* job.  A finalisation moves an account to its new address; when another  *)
(* account holds that address, it is deleted first.                        *)
(*                                                                         *)
(* Link codes are used in one step (OneTimeCodes cuts them finer), callers *)
(* hold a current access token, passwords are right, and the session lists *)
(* a finalisation pushes to are those of Sessions.                         *)
(***************************************************************************)
EXTENDS IdentityIndex

CONSTANTS
  Slots,       \* requests that can be in flight together
  MaxFaults    \* bound: mails lost, deletes failed, crashes

VARIABLES
  req,       \* req[t]: the request in slot t
  minted,    \* how many mail secrets exist
  links,     \* the link codes in inboxes that can still be redeemed
  faults,    \* how many of MaxFaults have happened
  proof,     \* history: proof[u]: which links of u's current migration were used
  wanted,    \* history: wanted[u]: the address of u's last initiation
  crossed,   \* history: accounts whose initiation was saved over another
  merged,    \* history: the accounts and versions on which an update was applied
  clean      \* history: no two requests have overlapped since the last boot

dbVars == <<users, born, index>>
mailVars == <<minted, links, faults>>
ghostVars == <<proof, wanted, crossed, merged, clean>>

NewRow(u, email, verified) ==
  [email |-> email, previousEmail |-> None, migrationExpiry |-> FALSE,
   newEmailPending |-> None, migrationTokenExpires |-> FALSE,
   currentEmailToken |-> 0, newEmailToken |-> 0,
   currentEmailVerified |-> FALSE, newEmailVerified |-> FALSE,
   lastMigrationDate |-> FALSE,       \* less than 10 days ago
   lastMigrationEmailSent |-> FALSE,  \* less than 30 seconds ago
   isEmailVerified |-> verified, tokenVersion |-> 0,
   bio |-> <<u, 0>>,                  \* the account it was written for, and a text
   migrationHistory |-> <<>>]

Idle == [op |-> "none", pc |-> "idle", me |-> None, to |-> None, secret |-> 0, confirm |-> FALSE,
         version |-> 0, doc |-> NoDoc, bio |-> None, holder |-> None,
         who |-> None, todo |-> <<>>, keep |-> {}, next |-> "none"]

Begin(t, op, pc, fields) ==
  /\ req[t].op = "none"
  /\ req' = [req EXCEPT ![t] = Over(fields, [Idle EXCEPT !.op = op, !.pc = pc])]
  /\ clean' = (clean /\ \A u \in Slots : req[u].op = "none")

At(t, pc) == req[t].pc = pc
Go(t, fields) == req' = [req EXCEPT ![t] = Over(fields, @)]
End(t) == req' = [req EXCEPT ![t] = Idle]
Doc(t) == req[t].doc.values
Me(t) == users[req[t].me]

Outcome(ok) == (ok \/ faults < MaxFaults) /\ faults' = IF ok THEN faults ELSE faults + 1

\* save(): UPDATE ... WHERE id, which may meet no row.
SaveMe(t) == users' = [users EXCEPT ![req[t].me] = IF @ = None THEN None ELSE Saved(@, req[t].doc)]
Refreshed(t) == IF Me(t) = None THEN req[t].doc ELSE Whole(users'[req[t].me])

-----------------------------------------------------------------------------
(* syncIdentityIndexesFromUser inside a request *)

StartSync(u, values, next) ==
  [pc |-> "sync", next |-> next, who |-> u, todo |-> KeySeq(values), keep |-> ToSet(KeySeq(values))]

\* One upsert after the other, then the prune.  A row that is gone fails the
\* foreign key, and the request with it.
Sync(t) ==
  /\ At(t, "sync")
  /\ LET u == req[t].who IN
     \/ /\ req[t].todo # <<>> /\ users[u] = None
        /\ End(t) /\ UNCHANGED index
     \/ /\ req[t].todo # <<>> /\ users[u] # None
        /\ index' = Upsert(index, Head(req[t].todo), u)
        /\ Go(t, [todo |-> Tail(req[t].todo)])
     \/ /\ req[t].todo = <<>>
        /\ index' = Prune(index, u, req[t].keep)
        /\ IF req[t].next = "end" THEN End(t)
           ELSE Go(t, [pc |-> req[t].next, who |-> None, keep |-> {}, next |-> "none"])
  /\ UNCHANGED <<users, born, mailVars, ghostVars>>

-----------------------------------------------------------------------------
(* initiateMigration, resendMigrationEmails *)

\* authenticate and requireVerifiedEmail, and the checks initiateMigration
\* makes on the document they loaded.
Authenticate(t) ==
  /\ At(t, "auth")
  /\ IF /\ Me(t) # None /\ Me(t).tokenVersion = req[t].version /\ Me(t).isEmailVerified
        /\ req[t].op = "init" => /\ Me(t).newEmailPending = None
                                 /\ ~(Me(t).previousEmail # None /\ Me(t).migrationExpiry)
                                 /\ ~Me(t).lastMigrationDate
       THEN Go(t, IF req[t].op = "bio" THEN [pc |-> "load", doc |-> Select(Me(t), {})]
                  ELSE [pc |-> IF req[t].op = "init" THEN "exists" ELSE "load"])
       ELSE End(t)
  /\ UNCHANGED <<dbVars, mailVars, ghostVars>>

\* The account that has the address: itself, one to override, none.
InitExists(t) ==
  /\ At(t, "exists")
  /\ LET holder == Primary(req[t].to) IN
     IF holder = None \/ (holder # req[t].me /\ req[t].confirm)
       THEN Go(t, [pc |-> "load"]) ELSE End(t)
  /\ UNCHANGED <<dbVars, mailVars, ghostVars>>

\* Two new secrets, good for 24 hours.
Secrets ==
  [currentEmailToken |-> minted + 1, newEmailToken |-> minted + 2,
   migrationTokenExpires |-> TRUE, lastMigrationEmailSent |-> TRUE]

InitLoad(t) ==
  /\ At(t, "load") /\ req[t].op = "init"
  /\ LET entry == [toEmail |-> req[t].to, status |-> "pending", current |-> FALSE, new |-> FALSE] IN
     IF Me(t) = None THEN End(t) /\ UNCHANGED minted
     ELSE /\ Go(t, [pc |-> "save", doc |-> Assign(Select(Me(t), {}), Over(Secrets,
                [newEmailPending |-> req[t].to, currentEmailVerified |-> FALSE,
                 newEmailVerified |-> FALSE,
                 migrationHistory |-> Append(Me(t).migrationHistory, entry)]))])
          /\ minted' = minted + 2
  /\ UNCHANGED <<dbVars, links, faults, ghostVars>>

\* A pending migration that has not expired and was not mailed 30 seconds ago.
ResendLoad(t) ==
  /\ At(t, "load") /\ req[t].op = "resend"
  /\ IF /\ Me(t) # None
        /\ Me(t).newEmailPending # None /\ Me(t).migrationTokenExpires /\ ~Me(t).lastMigrationEmailSent
       THEN /\ Go(t, [pc |-> "save", doc |-> Assign(Select(Me(t), {}), Secrets)])
            /\ minted' = minted + 2
       ELSE End(t) /\ UNCHANGED minted
  /\ UNCHANGED <<dbVars, links, faults, ghostVars>>

\* An initiation is saved on the strength of checks made before: it crosses
\* another when they no longer hold.
InitSave(t) ==
  /\ At(t, "save") /\ req[t].op \in {"init", "resend"}
  /\ SaveMe(t)
  /\ Go(t, Over([doc |-> Refreshed(t)], StartSync(req[t].me, Refreshed(t).values, "mail")))
  /\ IF req[t].op = "init"
       THEN /\ proof' = [proof EXCEPT ![req[t].me] = {}]
            /\ wanted' = [wanted EXCEPT ![req[t].me] = req[t].to]
            /\ crossed' = IF Me(t) # None /\ (Me(t).newEmailPending # None \/ Me(t).lastMigrationDate)
                            THEN crossed \cup {req[t].me} ELSE crossed
       ELSE UNCHANGED <<proof, wanted, crossed>>
  /\ UNCHANGED <<born, index, mailVars, merged, clean>>

\* buildMigrationVerifyUrl and sendEmail, twice.
SendMails(t) ==
  /\ At(t, "mail")
  /\ LET both == {[kind |-> "current", secret |-> Doc(t).currentEmailToken],
                  [kind |-> "new", secret |-> Doc(t).newEmailToken]} IN
     \E sent \in SUBSET both : Outcome(sent = both) /\ links' = links \cup sent
  /\ End(t)
  /\ UNCHANGED <<dbVars, minted, ghostVars>>
=============================================================================

--------------------------- MODULE MigrationPages ---------------------------
(***************************************************************************)
(* The browsers of a migration (uam-frontend's MigrationPage and           *)
(* MigrationVerifyPage) in front of Finalize, the passing of time, and the *)
(* crash of the server, which comes back with backfillIdentityIndexes.     *)
(***************************************************************************)
EXTENDS Finalize

CONSTANT MaxOps   \* bound: requests sent

VARIABLES
  shown,   \* the accounts whose migration page shows a pending migration and polls
  ops      \* how many requests were sent

vars == <<dbVars, mailVars, ghostVars, req, shown, ops>>

-----------------------------------------------------------------------------
(* Initial states *)

\* An account part of the way through a migration.
Started(u, email, to, current, new) ==
  Over([newEmailPending |-> to, migrationTokenExpires |-> TRUE,
        currentEmailToken |-> 1, newEmailToken |-> 2,
        currentEmailVerified |-> current, newEmailVerified |-> new,
        migrationHistory |-> <<[toEmail |-> to, status |-> "pending", current |-> current, new |-> new]>>],
       NewRow(u, email, TRUE))

Table(rows) == [u \in Ids |-> IF u \in DOMAIN rows THEN rows[u] ELSE None]

\* Two accounts, or one; a migration under way, with or without an account at
\* its address, its unused links in the inboxes; a migration in its grace
\* period; an initiation that crossed the one before it, and one that is about
\* to: its checks were made before the other was saved.
InitRows(a, b) ==
  LET idle == [t \in Slots |-> Idle] IN
  \/ /\ users \in {Table(<<NewRow(1, a, TRUE), NewRow(2, b, TRUE)>>), Table(<<NewRow(1, a, TRUE)>>)}
     /\ req = idle /\ crossed = {} /\ clean = TRUE
  \/ /\ \E current, new \in BOOLEAN, holder \in {NewRow(2, b, TRUE), NewRow(2, b, FALSE), None} :
          /\ users = Table(<<Started(1, a, b, current, new), holder>>)
          /\ (~new /\ holder # None) => holder.isEmailVerified
     /\ req = idle /\ crossed = {} /\ clean = TRUE
  \/ /\ users = Table(<<Over([previousEmail |-> a, migrationExpiry |-> TRUE, lastMigrationDate |-> TRUE,
                              tokenVersion |-> 1], NewRow(1, b, TRUE))>>)
     /\ req = idle /\ crossed = {} /\ clean = TRUE
  \/ /\ \E current \in BOOLEAN :
          users = Table(<<Over([previousEmail |-> a, migrationExpiry |-> TRUE, lastMigrationDate |-> TRUE],
                               Started(1, b, b, current, TRUE))>>)
     /\ req = idle /\ crossed = {1} /\ clean = FALSE
  \/ /\ users = Table(<<Started(1, a, b, TRUE, FALSE), NewRow(2, b, TRUE)>>)
     /\ \E t \in Slots, to \in Emails \ {a} :
          req = [idle EXCEPT ![t] = [Idle EXCEPT !.op = "init", !.pc = "load", !.me = 1, !.to = to]]
     /\ crossed = {} /\ clean = FALSE

Init ==
  /\ \E a, b \in Emails : a # b /\ InitRows(a, b)
  /\ born = 2
  /\ index = Backfilled(<<>>)
  /\ minted = 2 /\ faults = 0
  /\ LET one == users[1] IN
     /\ links = IF one.newEmailPending = None THEN {} ELSE
                  (IF one.currentEmailVerified THEN {} ELSE {[kind |-> "current", secret |-> 1]})
                  \cup (IF one.newEmailVerified THEN {} ELSE {[kind |-> "new", secret |-> 2]})
     /\ proof = [u \in Ids |-> IF u # 1 THEN {} ELSE
                  (IF one.currentEmailVerified THEN {"current"} ELSE {})
                  \cup (IF one.newEmailVerified THEN {"new"} ELSE {})]
     /\ wanted = [u \in Ids |-> IF u = 1 THEN one.newEmailPending ELSE None]
  /\ merged = <<>> /\ shown = {}
  /\ ops = Cardinality({t \in Slots : req[t].op # "none"})

-----------------------------------------------------------------------------
(* Sending *)

Send(t, op, pc, fields) ==
  /\ ops < MaxOps /\ ops' = ops + 1
  /\ Begin(t, op, pc, fields)
  /\ UNCHANGED <<dbVars, minted, proof, wanted, crossed, merged>>

\* The owner of u is signed in with a current token.
Owner(u) == users[u] # None /\ users[u].isEmailVerified

\* handleSubmit, and handleConfirmOverride after the warning.
SendInit(t, u) ==
  /\ Owner(u)
  /\ \E to \in Emails, confirm \in BOOLEAN :
       Send(t, "init", "auth", [me |-> u, version |-> users[u].tokenVersion,
                                to |-> to, confirm |-> confirm])
  /\ UNCHANGED <<links, faults, shown>>

\* handleResendEmails: only when the page shows a pending migration.
SendResend(t, u) ==
  /\ Owner(u) /\ u \in shown
  /\ Send(t, "resend", "auth", [me |-> u, version |-> users[u].tokenVersion])
  /\ UNCHANGED <<links, faults, shown>>

\* getMigrationStatus.
HasPending(row) == row.newEmailPending # None /\ row.migrationTokenExpires

\* checkMigrationStatus, on mount and after a request: shows what the server
\* says, and asks it to finalise when both addresses are verified.
CheckStatus(t, u) ==
  /\ Owner(u)
  /\ IF BothVerified(users[u]) /\ HasPending(users[u])
       THEN /\ Send(t, "finalize", "auth", [me |-> u, version |-> users[u].tokenVersion])
            /\ shown' = shown \ {u}
            /\ UNCHANGED <<links, faults>>
       ELSE /\ shown' = IF HasPending(users[u]) THEN shown \cup {u} ELSE shown \ {u}
            /\ shown' # shown
            /\ UNCHANGED <<dbVars, mailVars, ghostVars, req, ops>>

\* The polling effect: it stops once both addresses are verified, and only
\* takes over a status that still is pending.
Poll(u) ==
  /\ Owner(u) /\ u \in shown
  /\ users[u].currentEmailVerified /\ users[u].newEmailVerified
  /\ shown' = shown \ {u}
  /\ UNCHANGED <<dbVars, mailVars, ghostVars, req, ops>>

\* MigrationVerifyPage: redeem the code, use the form token.  A link stays
\* good when the delete failed.
OpenLink(t) ==
  /\ \E link \in links, ok \in BOOLEAN :
       /\ Outcome(ok)
       /\ links' = IF ok THEN links \ {link} ELSE links
       /\ Send(t, IF link.kind = "current" THEN "verifyCurrent" ELSE "verifyNew", "find",
               [secret |-> link.secret])
  /\ UNCHANGED shown

\* Sign-in and registration with some address.
SendEmail(t) ==
  /\ \E op \in {"login", "register"}, email \in Emails : Send(t, op, "find", [to |-> email])
  /\ UNCHANGED <<links, faults, shown>>

\* handleSaveBio of the account page.
SendBio(t, u) ==
  /\ Owner(u)
  /\ Send(t, "bio", "auth", [me |-> u, version |-> users[u].tokenVersion])
  /\ UNCHANGED <<links, faults, shown>>

\* The daily cleanup job.
StartCleanup(t, u) ==
  /\ users[u] # None
  /\ Send(t, "cleanup", "load", [me |-> u])
  /\ UNCHANGED <<links, faults, shown>>

-----------------------------------------------------------------------------
(* Time, crashes *)

AllIdle == \A t \in Slots : req[t].op = "none"

\* 30 seconds, 24 hours, 5 days, 10 days.  What expires is a date in a row,
\* the index rows made from it, and the links in the inbox.
Elapse(k) ==
  /\ AllIdle /\ ops < MaxOps
  /\ LET over == [lastMigrationEmailSent |-> 1, migrationTokenExpires |-> 2,
                  migrationExpiry |-> 3, lastMigrationDate |-> 4]
         late == {f \in DOMAIN over : over[f] <= k}
         gone == (IF k >= 2 THEN {"pending_migration"} ELSE {})
                 \cup (IF k >= 3 THEN {"previous_email"} ELSE {}) IN
     /\ users' = [u \in Ids |-> IF users[u] = None THEN None
                                ELSE Over([f \in late |-> FALSE], users[u])]
     /\ users' # users
     /\ index' = RestrictDomain(index, LAMBDA key : key[1] \notin gone)
     /\ links' = IF k >= 2 THEN {} ELSE links
  /\ UNCHANGED <<born, minted, faults, ghostVars, req, shown, ops>>

\* The process dies and starts again.
Crash ==
  /\ ~AllIdle
  /\ Outcome(FALSE)
  /\ req' = [t \in Slots |-> Idle]
  /\ index' = Backfilled(index)
  /\ clean' = TRUE
  /\ UNCHANGED <<users, born, minted, links, proof, wanted, crossed, merged, shown, ops>>

-----------------------------------------------------------------------------

Serve(t) ==
  \/ Authenticate(t) \/ InitExists(t) \/ InitLoad(t) \/ ResendLoad(t) \/ InitSave(t)
  \/ Sync(t) \/ SendMails(t)
  \/ VerifyFind(t) \/ VerifyHolder(t) \/ Insert(t) \/ FlagSave(t) \/ HistoryLoad(t)
  \/ HistorySave(t) \/ Decide(t)
  \/ Recheck(t) \/ Lookup(t) \/ Release(t) \/ Delete(t) \/ Update(t) \/ Plain(t)
  \/ Finish(t) \/ BioCheck(t) \/ BioAgain(t) \/ Recover(t) \/ Answer(t)
  \/ LoginFind(t) \/ RegisterFind(t) \/ RegisterSave(t) \/ BioLoad(t)
  \/ CleanupLoad(t) \/ PlainSave(t)

Next ==
  \/ \E t \in Slots :
       \/ OpenLink(t) \/ SendEmail(t)
       \/ \E u \in Ids : SendInit(t, u) \/ SendResend(t, u) \/ CheckStatus(t, u)
                         \/ SendBio(t, u) \/ StartCleanup(t, u)
       \/ Serve(t) /\ UNCHANGED <<shown, ops>>
  \/ \E u \in Ids : Poll(u)
  \/ \E k \in 1..4 : Elapse(k)
  \/ Crash

Spec == Init /\ [][Next]_vars

-----------------------------------------------------------------------------
(* Properties *)

Rows == {u \in Ids : users[u] # None}

\* Type invariant.  Addresses are unique and every index row leads to a user.
TypeOK ==
  /\ born \in 0..MaxAccounts /\ faults \in 0..MaxFaults /\ ops \in 0..MaxOps
  /\ \A u \in Rows : DOMAIN users[u] = DOMAIN NewRow(u, None, TRUE)
  /\ \A u, v \in Rows : users[u].email = users[v].email => u = v
  /\ \A k \in DOMAIN index : index[k] \in Rows
  /\ \A t \in Slots : DOMAIN req[t] = DOMAIN Idle

\* An account moves only to the address its owner asked for, and only after
\* the link sent to the old address and the link sent to the new one were both
\* used, whatever overlaps and wherever the server crashes; except when an
\* initiation was saved over a later one on the strength of a stale check
\* (initiateMigration, bothVerified, finalizeMigrationInternal, login).
AddressesProven ==
  [][\A u \in Rows \ crossed : (users'[u] # None /\ users'[u].email # users[u].email)
       => proof[u] = {"current", "new"} /\ users'[u].email = wanted[u]]_vars

\* An update guarded by tokenVersion is applied at most once for a version, so
\* of finalisations that overlap only one merges (findOneAndUpdate in
\* finalizeMigrationInternal).
MergedOncePerVersion == \A i, j \in DOMAIN merged : merged[i] = merged[j] => i = j

\* A finalisation keeps the account's own bio: never the one of the account
\* it deletes, whatever overlaps (extractUserData, applyUserData).
BioIsOwn == \A u \in Rows : users[u].bio[1] = u

\* With no request in flight, and none having overlapped since the last start,
\* every index row is one its user implies, and every address leads to its
\* account; also right after a crash, by the backfill
\* (syncIdentityIndexesFromUser, backfillIdentityIndexes).
IndexAgrees ==
  AllIdle /\ clean =>
    /\ \A k \in DOMAIN index : k \in ToSet(KeySeq(users[index[k]]))
    /\ \A u \in Rows : Primary(users[u].email) = u

\* When a finalisation that nothing overlapped answers success, of a migration
\* that crossed no other, the account is found by both addresses ("You can
\* login with both emails for 5 days"), none of its own migrations is pending,
\* and the history shows this one as a success (finalizeMigrationInternal,
\* login).  Another account may be pending on the same address, which
\* initiateMigration does not look at, and an entry of a migration that login
\* finalised stays pending in the history.
FinalisedIsComplete ==
  \A t \in Slots : At(t, "finalized") /\ clean /\ req[t].me \notin crossed =>
    /\ Me(t).email = req[t].to /\ Resolve(Me(t).email) = req[t].me
    /\ Me(t).previousEmail # Me(t).email /\ Resolve(Me(t).previousEmail) = req[t].me
    /\ Me(t).newEmailPending = None /\ PendingHolder(req[t].to) # req[t].me
    /\ req[t].op # "login" =>
         \E i \in DOMAIN Me(t).migrationHistory :
           /\ Me(t).migrationHistory[i].toEmail = req[t].to
           /\ Me(t).migrationHistory[i].status = "success"
=============================================================================

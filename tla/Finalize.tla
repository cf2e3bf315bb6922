------------------------------ MODULE Finalize ------------------------------
(***************************************************************************)
(* The second half of a migration: verifyCurrentEmail, verifyNewEmail and  *)
(* finalizeMigrationInternal, and the ways round it: login with the new    *)
(* address, updateBio, register, the cleanup job.                          *)
(***************************************************************************)
EXTENDS Migration

-----------------------------------------------------------------------------
(* verifyCurrentEmail, verifyNewEmail *)

Kind(t) == IF req[t].op = "verifyCurrent" THEN "current" ELSE "new"
Flag(t) == IF Kind(t) = "current" THEN [currentEmailVerified |-> TRUE] ELSE [newEmailVerified |-> TRUE]

Matches(t, u) ==
  /\ users[u] # None /\ users[u].migrationTokenExpires
  /\ IF Kind(t) = "current" THEN users[u].currentEmailToken = req[t].secret
     ELSE users[u].newEmailToken = req[t].secret /\ users[u].newEmailPending # None

VerifyFind(t) ==
  /\ At(t, "find") /\ req[t].op \in {"verifyCurrent", "verifyNew"}
  /\ IF \E u \in Ids : Matches(t, u)
       THEN \E u \in Ids :
              /\ Matches(t, u)
              /\ Go(t, [me |-> u, doc |-> Assign(Select(users[u], {}), Flag(t)),
                        to |-> users[u].newEmailPending,
                        pc |-> IF Kind(t) = "current" THEN "flag" ELSE "holder"])
              /\ proof' = [proof EXCEPT ![u] = @ \cup {Kind(t)}]
       ELSE End(t) /\ UNCHANGED proof
  /\ UNCHANGED <<dbVars, mailVars, wanted, crossed, merged, clean>>

\* verifyNewEmail looks for an account with the new address ...
VerifyHolder(t) ==
  /\ At(t, "holder")
  /\ Go(t, [pc |-> IF Primary(req[t].to) = None THEN "placeholder" ELSE "flag"])
  /\ UNCHANGED <<dbVars, mailVars, ghostVars>>

\* ... and inserts a placeholder when there is none; register does the same
\* for a new account.
Insert(t) ==
  /\ At(t, "placeholder") /\ born < MaxAccounts
  /\ IF Taken(born + 1, req[t].to)
       THEN End(t) /\ UNCHANGED <<users, born>>
       ELSE /\ born' = born + 1
            /\ users' = [users EXCEPT ![born'] = NewRow(born', req[t].to, FALSE)]
            /\ Go(t, StartSync(born', users'[born'], IF req[t].op = "register" THEN "end" ELSE "flag"))
  /\ UNCHANGED <<index, mailVars, ghostVars>>

\* The address is marked verified.
FlagSave(t) ==
  /\ At(t, "flag")
  /\ SaveMe(t)
  /\ Go(t, [pc |-> "history", doc |-> Refreshed(t)])
  /\ UNCHANGED <<born, index, mailVars, ghostVars>>

\* The last history entry, reloaded, if it is this migration's.
HistoryLoad(t) ==
  /\ At(t, "history")
  /\ LET past == Me(t).migrationHistory IN
     IF Me(t) # None /\ Len(past) > 0 /\ Last(past).status = "pending"
          /\ Last(past).toEmail = Doc(t).newEmailPending
       THEN LET entry == IF Kind(t) = "current" THEN [Last(past) EXCEPT !.current = TRUE]
                         ELSE [Last(past) EXCEPT !.new = TRUE] IN
            Go(t, [pc |-> "record",
                   doc |-> Assign(Select(Me(t), {}),
                                  [migrationHistory |-> Append(Front(past), entry)])])
       ELSE Go(t, [pc |-> "reload"])
  /\ UNCHANGED <<dbVars, mailVars, ghostVars>>

HistorySave(t) ==
  /\ At(t, "record")
  /\ SaveMe(t)
  /\ Go(t, [pc |-> "reload", doc |-> NoDoc])
  /\ UNCHANGED <<born, index, mailVars, ghostVars>>

\* Mutant: one verified address is enough.
EitherVerified(row) ==
  row.newEmailPending # None /\ (row.currentEmailVerified \/ row.newEmailVerified)

\* bothVerified.
BothVerified(row) ==
  row.newEmailPending # None /\ row.currentEmailVerified /\ row.newEmailVerified

\* The verify handlers' last look at the row, and finalizeMigration's first.
Decide(t) ==
  /\ At(t, "reload") \/ (At(t, "load") /\ req[t].op = "finalize")
  /\ IF Me(t) # None /\ BothVerified(Me(t))
       THEN Go(t, [pc |-> "recheck", version |-> Me(t).tokenVersion, doc |-> NoDoc, secret |-> 0])
       ELSE End(t)
  /\ UNCHANGED <<dbVars, mailVars, ghostVars>>

-----------------------------------------------------------------------------
(* finalizeMigrationInternal *)

\* The version is compared once more; the flags are not.
Recheck(t) ==
  /\ At(t, "recheck")
  /\ IF Me(t) # None /\ Me(t).tokenVersion = req[t].version /\ Me(t).newEmailPending # None
       THEN Go(t, [pc |-> "lookup", doc |-> Select(Me(t), {}), to |-> Me(t).newEmailPending])
       ELSE End(t)
  /\ UNCHANGED <<dbVars, mailVars, ghostVars>>

\* Another account has the new address, this one has it, or none has.
Lookup(t) ==
  /\ At(t, "lookup")
  /\ LET holder == Primary(req[t].to) IN
     Go(t, [holder |-> holder,
            pc |-> CASE holder = None      -> "plain"
                     [] holder = req[t].me -> "update"
                     [] OTHER              -> "release",
            next |-> "update"])
  /\ UNCHANGED <<dbVars, mailVars, ghostVars>>

\* releaseUserIdentityIndexes, then findByIdAndDelete.
Release(t) ==
  /\ At(t, "release")
  /\ index' = Cascade(index, req[t].holder)
  /\ Go(t, [pc |-> "delete"])
  /\ UNCHANGED <<users, born, mailVars, ghostVars>>

Delete(t) ==
  /\ At(t, "delete")
  /\ users' = [users EXCEPT ![req[t].holder] = None]
  /\ index' = Cascade(index, req[t].holder)
  /\ IF req[t].next = "end" THEN End(t) ELSE Go(t, [pc |-> req[t].next])
  /\ UNCHANGED <<born, mailVars, ghostVars>>

\* Mutant: the previous address is taken after the new one was set.
MovedLate(values, to) ==
  [previousEmail |-> to, email |-> to, migrationExpiry |-> TRUE, lastMigrationDate |-> TRUE,
   isEmailVerified |-> TRUE, newEmailPending |-> None, currentEmailVerified |-> FALSE,
   newEmailVerified |-> FALSE, currentEmailToken |-> 0, newEmailToken |-> 0]

\* What every way of finalising writes.  Five days of grace, ten of cooldown.
Moved(values, to) ==
  [previousEmail |-> values.email, email |-> to, migrationExpiry |-> TRUE, lastMigrationDate |-> TRUE,
   isEmailVerified |-> TRUE, newEmailPending |-> None, currentEmailVerified |-> FALSE,
   newEmailVerified |-> FALSE, currentEmailToken |-> 0, newEmailToken |-> 0]

\* The first pending entry for the address becomes a success, or one is added.
Recorded(history, to) ==
  LET done     == [toEmail |-> to, status |-> "success", current |-> TRUE, new |-> TRUE]
      Mine(i)  == history[i].status = "pending" /\ history[i].toEmail = to
      pending  == {i \in DOMAIN history : Mine(i)} IN
  IF pending = {} THEN Append(history, done)
  ELSE [history EXCEPT ![CHOOSE i \in pending : \A j \in pending : i <= j] = done]

\* Mutant: the update leaves tokenVersion as it is.
UpdateUnversioned(row, values, to) == SetFields(row, Over([migrationTokenExpires |-> FALSE], Moved(values, to)))

\* The $set and $inc of findOneAndUpdate.
Updated(row, values, to) ==
  SetFields(row, Over([migrationTokenExpires |-> FALSE, tokenVersion |-> row.tokenVersion + 1],
                      Moved(values, to)))

\* Mutant: the bio kept is the one of the account that was deleted.
KeptOfHolder(t) == <<req[t].holder, 0>>

\* extractUserData, of the account that migrates.
Kept(t) == Doc(t).bio

\* findOneAndUpdate { _id, tokenVersion }, then the history and, after a
\* deletion, applyUserData.
Update(t) ==
  /\ At(t, "update")
  /\ LET kept == Kept(t) IN
     IF Me(t) = None \/ Me(t).tokenVersion # Doc(t).tokenVersion
       THEN End(t) /\ UNCHANGED <<users, merged>>
     ELSE IF Taken(req[t].me, req[t].to)
       THEN Go(t, [pc |-> "recover"]) /\ UNCHANGED <<users, merged>>
     ELSE /\ users' = [users EXCEPT ![req[t].me] = Updated(Me(t), Doc(t), req[t].to)]
          /\ merged' = Append(merged, <<req[t].me, Doc(t).tokenVersion>>)
          /\ LET row  == users'[req[t].me]
                 past == [migrationHistory |-> Recorded(row.migrationHistory, req[t].to)] IN
             IF req[t].holder = req[t].me
               THEN Go(t, [pc |-> "finish", doc |-> Assign(Whole(row), past), next |-> "finalized"])
               ELSE Go(t, [pc |-> "finish", bio |-> kept, next |-> "bio",
                           doc |-> Assign(Whole(row), Over([bio |-> kept], past))])
  /\ UNCHANGED <<born, index, mailVars, proof, wanted, crossed, clean>>

\* No account has the address: the row is loaded again and changed as a
\* document, without the version.
Plain(t) ==
  /\ At(t, "plain")
  /\ IF Me(t) = None THEN End(t)
     ELSE Go(t, [pc |-> "finish", bio |-> Me(t).bio, next |-> "bio",
                 doc |-> Assign(Select(Me(t), {}),
                   Over([migrationHistory |-> Recorded(Me(t).migrationHistory, req[t].to),
                         migrationTokenExpires |-> FALSE, bio |-> Me(t).bio],
                        Moved(Me(t), req[t].to)))])
  /\ UNCHANGED <<dbVars, mailVars, ghostVars>>

\* The save of each branch, and of login's.
Finish(t) ==
  /\ At(t, "finish")
  /\ IF Me(t) # None /\ "email" \in req[t].doc.modified /\ Taken(req[t].me, req[t].to)
       THEN /\ IF req[t].op = "login" THEN End(t) ELSE Go(t, [pc |-> "recover"])
            /\ UNCHANGED users
       ELSE /\ SaveMe(t)
            /\ Go(t, Over([doc |-> NoDoc], StartSync(req[t].me, Refreshed(t).values, req[t].next)))
  /\ UNCHANGED <<born, index, mailVars, ghostVars>>

\* The bio is read back, and written again if it is not the one kept.
BioCheck(t) ==
  /\ At(t, "bio")
  /\ IF Me(t) # None /\ Me(t).bio # req[t].bio
       THEN Go(t, [pc |-> "rebio", doc |-> Assign(Select(Me(t), {}), [bio |-> req[t].bio])])
       ELSE Go(t, [pc |-> "finalized"])
  /\ UNCHANGED <<dbVars, mailVars, ghostVars>>

BioAgain(t) ==
  /\ At(t, "rebio")
  /\ SaveMe(t)
  /\ Go(t, [pc |-> "finalized", doc |-> NoDoc])
  /\ UNCHANGED <<born, index, mailVars, ghostVars>>

\* A duplicate e-mail: the account that has it is deleted, the answer is 500.
Recover(t) ==
  /\ At(t, "recover")
  /\ LET holder == Primary(req[t].to) IN
     IF holder # None /\ holder # req[t].me
       THEN Go(t, [pc |-> "release", holder |-> holder, next |-> "end"])
       ELSE End(t)
  /\ UNCHANGED <<dbVars, mailVars, ghostVars>>

\* The session is stored and the answer sent.
Answer(t) == At(t, "finalized") /\ End(t) /\ UNCHANGED <<dbVars, mailVars, ghostVars>>

-----------------------------------------------------------------------------
(* The other writers of these rows *)

\* login with an address that is pending: both verified, or refused.
LoginFind(t) ==
  /\ At(t, "find") /\ req[t].op = "login"
  /\ LET u == Resolve(req[t].to) IN
     IF u # None /\ users[u].newEmailPending = req[t].to
          /\ users[u].currentEmailVerified /\ users[u].newEmailVerified
       THEN Go(t, [me |-> u, pc |-> "finish", next |-> "finalized",
                   doc |-> Assign(Select(users[u], {}), Moved(users[u], req[t].to))])
       ELSE End(t)
  /\ UNCHANGED <<dbVars, mailVars, ghostVars>>

\* register: refused for a pending or a verified address; an unverified
\* account is taken over as it is.
RegisterFind(t) ==
  /\ At(t, "find") /\ req[t].op = "register"
  /\ LET holder == Primary(req[t].to) IN
     CASE PendingHolder(req[t].to) # None -> End(t)
       [] PendingHolder(req[t].to) = None /\ holder = None -> Go(t, [pc |-> "placeholder"])
       [] OTHER -> IF users[holder].isEmailVerified THEN End(t)
                   ELSE Go(t, [pc |-> "save", me |-> holder, doc |->
                          Assign(Select(users[holder], {}), [isEmailVerified |-> FALSE])])
  /\ UNCHANGED <<dbVars, mailVars, ghostVars>>

RegisterSave(t) ==
  /\ At(t, "save") /\ req[t].op = "register"
  /\ SaveMe(t)
  /\ Go(t, Over([doc |-> NoDoc], StartSync(req[t].me, Refreshed(t).values, "end")))
  /\ UNCHANGED <<born, index, mailVars, ghostVars>>

\* updateBio: some row with this id, this address or this previous address.
BioLoad(t) ==
  /\ At(t, "load") /\ req[t].op = "bio"
  /\ LET Mine(u) == /\ users[u] # None
                    /\ u = req[t].me \/ users[u].email = Doc(t).email
                                     \/ users[u].previousEmail = Doc(t).email IN
     IF \E u \in Ids : Mine(u)
       THEN \E u \in Ids :
              /\ Mine(u)
              /\ Go(t, [pc |-> "save", me |-> u, doc |-> Assign(Select(users[u], {}), [bio |-> <<u, 1>>])])
       ELSE End(t)
  /\ UNCHANGED <<dbVars, mailVars, ghostVars>>

\* cleanup-expired-migrations, for one of the users it found.
CleanupLoad(t) ==
  /\ At(t, "load") /\ req[t].op = "cleanup"
  /\ IF Me(t) # None /\ Me(t).previousEmail # None /\ ~Me(t).migrationExpiry
       THEN Go(t, [pc |-> "save", doc |-> Assign(Select(Me(t), {}),
                     [previousEmail |-> None, migrationExpiry |-> FALSE])])
       ELSE End(t)
  /\ UNCHANGED <<dbVars, mailVars, ghostVars>>

\* The save of updateBio and of the cleanup job.
PlainSave(t) ==
  /\ At(t, "save") /\ req[t].op \in {"bio", "cleanup"}
  /\ SaveMe(t)
  /\ End(t)
  /\ UNCHANGED <<born, index, mailVars, ghostVars>>
=============================================================================

----------------------------- MODULE AuthServer -----------------------------
(***************************************************************************)
(* uam-backend's account and session handlers (auth.controller.ts,         *)
(* session.service.ts, passport.ts) for one account, cut at their awaits:  *)
(* between two steps of a request other requests run, Redis may fail and   *)
(* the process may crash.  A request keeps the document it loaded, and     *)
(* what it saves later is computed from that document.                     *)
(*                                                                         *)
(* A token pair is a number n: its refresh token and the jti of its access *)
(* token are both n, and issued[n] is its tv claim.  Calls to the control  *)
(* plane's /revoke are best-effort and change nothing these handlers read. *)
(***************************************************************************)
EXTENDS Users, OneTimeCodes

CONSTANTS
  Tabs,          \* browser tabs; each has at most one request in flight
  MAX_REFRESH,
  MAX_JTIS,
  None           \* no row, no cookie, no floor

\* The code's caps are 5 and 20.
ASSUME CapAssumption == MAX_REFRESH \in Nat /\ MAX_REFRESH >= 2 /\ MAX_JTIS \in Nat /\ MAX_JTIS >= 2

VARIABLES
  row,      \* the account's row in users, or None
  index,    \* its keys in user_identity_index: "email", "oauth"
  floor,    \* gateway:user:tv, or None
  issued,   \* issued[n]: the token version signed into pair n
  minted,   \* how many e-mail secrets and OAuth states exist
  mailed,   \* the link codes that reached the inbox
  req,      \* req[t]: the request of tab t
  spent,    \* history: the secrets that verified an address or reset a password
  ended     \* history: sessions ended by a sign-out or reset nothing overlapped

serverVars == <<row, index, floor, issued, minted, mailed, spent, ended>>

\* stored: publishTokenVersion's SET was accepted.
\* solo: no other request has been in flight since this one began.
Idle == [op |-> "none", pc |-> "idle", doc |-> NoDoc, code |-> NoCode, then |-> NoCode,
         token |-> None, pair |-> None, isNew |-> FALSE, stored |-> FALSE, solo |-> FALSE]

Sessions == IF row = None THEN {} ELSE ListOf(row.refreshTokens)

Begin(t, op, pc, fields) ==
  /\ req[t].op = "none"
  /\ LET solo == \A u \in Tabs \ {t} : req[u].op = "none" IN
     req' = [u \in Tabs |->
               IF u = t THEN Over(fields, [Idle EXCEPT !.op = op, !.pc = pc, !.solo = solo])
                        ELSE [req[u] EXCEPT !.solo = FALSE]]

At(t, pc) == req[t].pc = pc
Go(t, fields) == req' = [req EXCEPT ![t] = Over(fields, @)]
End(t) == req' = [req EXCEPT ![t] = Idle]
Doc(t) == req[t].doc.values

-----------------------------------------------------------------------------
(* Finding the account *)

\* expectedKeysForUser: what syncIdentityIndexesFromUser upserts; the other
\* keys of the user are pruned.
Keys(values) == {"email"} \cup IF values.provider = "local" THEN {} ELSE {"oauth"}

ByEmail == row # None /\ "email" \in index

\* register up to the save.  A new document has no lists: the columns'
\* defaults fill them.
RegisterFind(t) ==
  /\ At(t, "find") /\ req[t].op = "register"
  /\ LET fields == [password |-> "peppered", provider |-> "local", isEmailVerified |-> FALSE,
                    emailVerificationToken |-> minted + 1] IN
     IF ByEmail /\ row.isEmailVerified
       THEN End(t) /\ UNCHANGED minted
       ELSE /\ Go(t, [pc |-> "save", isNew |-> ~ByEmail, code |-> Link("verify-email", minted + 1),
                      doc |-> Assign(IF ByEmail THEN Select(row, {}) ELSE NoDoc, fields)])
            /\ minted' = minted + 1
  /\ UNCHANGED <<row, index, floor, issued, mailed, spent, ended, codeVars>>

\* A new secret goes into the loaded document; its link will go into a mail.
MailSecret(t, kind, fields) ==
  /\ Go(t, [pc |-> "save", code |-> Link(kind, minted + 1), doc |-> Assign(Select(row, {}), fields)])
  /\ minted' = minted + 1

\* resendVerification up to the save.
ResendFind(t) ==
  /\ At(t, "find") /\ req[t].op = "resend"
  /\ IF ByEmail /\ row.provider = "local" /\ ~row.isEmailVerified
       THEN MailSecret(t, "verify-email", [emailVerificationToken |-> minted + 1])
       ELSE End(t) /\ UNCHANGED minted
  /\ UNCHANGED <<row, index, floor, issued, mailed, spent, ended, codeVars>>

\* requestPasswordReset up to the save.
ForgotFind(t) ==
  /\ At(t, "find") /\ req[t].op = "forgot"
  /\ IF ByEmail /\ row.provider = "local"
       THEN MailSecret(t, "reset-password", [passwordResetToken |-> minted + 1])
       ELSE End(t) /\ UNCHANGED minted
  /\ UNCHANGED <<row, index, floor, issued, mailed, spent, ended, codeVars>>

\* login up to comparePassword, with the right password.  Whether the address
\* is verified is looked at after it.
LoginFind(t) ==
  /\ At(t, "find") /\ req[t].op = "login"
  /\ IF ByEmail /\ row.provider = "local" /\ (row.password = "legacy"
                                            \/ (row.password = "peppered" /\ row.isEmailVerified))
       THEN Go(t, [doc |-> Select(row, {"password", "refreshTokens"}),
                   pc |-> IF row.password = "legacy" THEN "rehash" ELSE "persist"])
       ELSE End(t)
  /\ UNCHANGED <<serverVars, codeVars>>

\* comparePassword: a legacy hash is replaced by saving the loaded document.
Rehash(t) ==
  /\ At(t, "rehash")
  /\ row' = Saved(row, Assign(req[t].doc, [password |-> "peppered"]))
  /\ IF row'.isEmailVerified THEN Go(t, [pc |-> "persist", doc |-> Whole(row')]) ELSE End(t)
  /\ UNCHANGED <<index, floor, issued, minted, mailed, spent, ended, codeVars>>

\* verifyEmail's lookup.
VerifyFind(t) ==
  /\ At(t, "find") /\ req[t].op = "verify"
  /\ IF row # None /\ row.emailVerificationToken = req[t].code.secret /\ row.provider = "local"
       THEN LET doc == Select(row, {"refreshTokens", "password"}) IN
            Go(t, [pc |-> "save",
                   doc |-> Assign(doc, [password |-> "peppered", isEmailVerified |-> TRUE,
                                        emailVerificationToken |-> 0])])
       ELSE End(t)
  /\ UNCHANGED <<serverVars, codeVars>>

\* canOAuthTakeOverLocalAccount: a password that was not loaded counts as none.
CanTakeOver(values) ==
  ("password" \in DOMAIN values /\ values.password # "none") => ~values.isEmailVerified

\* What signing in with the provider makes of an account.
Linked == [provider |-> "google", isEmailVerified |-> TRUE]

\* findUserForOAuth: the provider's account, or a local one to take over.  The
\* picture and the name the strategy copies next are not part of the row.
FindUserForOAuth(t) ==
  /\ At(t, "find") /\ req[t].op = "callback"
  /\ \/ /\ row # None /\ ("oauth" \in index \/ (ByEmail /\ row.provider # "local"))
        /\ Go(t, [pc |-> "persist", doc |-> Select(row, {})])
     \/ /\ ByEmail /\ "oauth" \notin index /\ row.provider = "local"
        /\ CanTakeOver(Select(row, {}).values)
        /\ Go(t, [pc |-> "save", doc |-> Assign(Select(row, {}), Linked)])
  /\ UNCHANGED <<serverVars, codeVars>>

\* The strategy creates an account when findUserForOAuth returned none.
CreateForOAuth(t) ==
  /\ At(t, "find") /\ req[t].op = "callback"
  /\ "oauth" \notin index
  /\ ByEmail => row.provider = "local" /\ ~CanTakeOver(Select(row, {}).values)
  /\ Go(t, [pc |-> "save", isNew |-> TRUE,
            doc |-> Assign(NoDoc, Over([password |-> "none"], Linked))])
  /\ UNCHANGED <<serverVars, codeVars>>

-----------------------------------------------------------------------------
(* Saving it *)

Defaults == [provider |-> "local", password |-> "none", isEmailVerified |-> FALSE,
             emailVerificationToken |-> 0, passwordResetToken |-> 0, tokenVersion |-> 0,
             refreshTokens |-> <<>>, activeAccessJtis |-> <<>>]

\* The columns of a row.
Rows == [provider : {"local", "google"}, password : {"none", "legacy", "peppered"},
         isEmailVerified : BOOLEAN, emailVerificationToken : Nat, passwordResetToken : Nat,
         tokenVersion : Nat, refreshTokens : Seq(Nat), activeAccessJtis : Seq(Nat)]

\* None is neither a token pair nor a row.
ASSUME NoneAssumption == None \notin Nat /\ None \notin Rows

\* _insert of a new document; the unique e-mail column refuses a second row.
Insert(t) ==
  /\ At(t, "save") /\ req[t].isNew
  /\ IF row = None
       THEN /\ row' = SetFields(Defaults, Doc(t))
            /\ Go(t, [pc |-> "sync", doc |-> Whole(row'), isNew |-> FALSE])
       ELSE End(t) /\ UNCHANGED row
  /\ UNCHANGED <<index, floor, issued, minted, mailed, spent, ended, codeVars>>

\* The save of register, resendVerification, verifyEmail,
\* requestPasswordReset and an OAuth take-over.
Save(t) ==
  /\ At(t, "save") /\ ~req[t].isNew
  /\ req[t].op \in {"register", "resend", "forgot", "verify", "callback"}
  /\ row' = Saved(row, req[t].doc)
  /\ spent' = IF req[t].op = "verify" THEN spent \cup {req[t].code.secret} ELSE spent
  /\ Go(t, [pc |-> IF req[t].op \in {"resend", "forgot"} THEN "mail" ELSE "sync",
            doc |-> Whole(row')])
  /\ UNCHANGED <<index, floor, issued, minted, mailed, ended, codeVars>>

\* syncIdentityIndexesFromUser(user).
Sync(t) ==
  /\ At(t, "sync")
  /\ index' = Keys(Doc(t))
  /\ Go(t, [pc |-> IF req[t].op = "register" THEN "mail" ELSE "persist"])
  /\ UNCHANGED <<row, floor, issued, minted, mailed, spent, ended, codeVars>>

\* Make the link code, send the mail.  The caller swallows the failure of
\* either.
Mail(t) ==
  /\ At(t, "mail")
  /\ \E made \in BOOLEAN :
       /\ CreateEmailLinkCode(req[t].code, made)
       /\ mailed' = IF made THEN mailed \cup {req[t].code} ELSE mailed
  /\ UNCHANGED <<row, index, floor, issued, minted, spent, ended>>

\* For register and resendVerification.
SendVerificationEmail(t) ==
  /\ Mail(t)
  /\ \/ req[t].op = "register" /\ Go(t, [pc |-> "poll"])
     \/ req[t].op = "resend" /\ End(t)

\* For requestPasswordReset.
SendPasswordResetEmail(t) == req[t].op = "forgot" /\ Mail(t) /\ End(t)

\* register's createVerificationPollToken; a throw turns the answer into a 500.
MakePoll(t) ==
  /\ At(t, "poll")
  /\ \E made \in BOOLEAN :
       /\ CreateVerificationPollToken(made)
       /\ IF made THEN Go(t, [pc |-> "answer"]) ELSE End(t)
  /\ UNCHANGED serverVars
=============================================================================

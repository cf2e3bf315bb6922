------------------------------ MODULE Sessions ------------------------------
(***************************************************************************)
(* uam-backend's sessions: one-time codes taken and dropped, token pairs   *)
(* persisted, rotated, published and killed (session.service.ts and the    *)
(* session half of auth.controller.ts).                                    *)
(***************************************************************************)
EXTENDS AuthServer

-----------------------------------------------------------------------------
(* Using a one-time code *)

\* GET, and in memory the delete with it; a code that is not found ends the
\* request.  Then DEL, whose failure is ignored, and on to `after'.
Consume(t, after) ==
  \/ /\ At(t, "take")
     /\ \E found \in BOOLEAN :
          /\ Get(req[t].code, found)
          /\ CASE ~found -> End(t)
               [] found /\ ready -> Go(t, [pc |-> "drop"])
               [] OTHER -> Go(t, after)
     /\ UNCHANGED serverVars
  \/ /\ At(t, "drop")
     /\ Del(req[t].code)
     /\ Go(t, after)
     /\ UNCHANGED serverVars

\* redeemEmailLinkCode up to the form token.
RedeemLink(t) == req[t].code.k = "link" /\ Consume(t, [pc |-> "form"])

ConsumeFormToken(t) == req[t].code.k = "form" /\ Consume(t, [pc |-> "find"])

\* The verifier is the one the page stored with the state, so it matches.
ConsumeOAuthState(t) ==
  req[t].code.k = "state" /\ Consume(t, [pc |-> "take", code |-> req[t].then])

\* The page sends the state its redirect carried, so the record's matches.
ConsumeOAuthExchangeCode(t) ==
  req[t].code.k = "exchange" /\ Consume(t, [pc |-> "answer", pair |-> req[t].code.pair])

\* redeemEmailLinkCode stores the form token.
MakeForm(t) ==
  /\ At(t, "form")
  /\ LET form == Form(req[t].code.kind, req[t].code.secret, t) IN
     Put(form) /\ Go(t, [pc |-> "answer", then |-> form])
  /\ UNCHANGED serverVars

\* prepareOAuth.
Prepare(t) ==
  /\ At(t, "state")
  /\ \E made \in BOOLEAN :
       /\ CreateOAuthState(minted + 1, made)
       /\ IF made THEN Go(t, [pc |-> "answer", code |-> State(minted + 1)]) ELSE End(t)
  /\ minted' = minted + 1
  /\ UNCHANGED <<row, index, floor, issued, mailed, spent, ended>>

\* handleOAuthSuccess's last step before the redirect.
MakeExchange(t) ==
  /\ At(t, "exchange")
  /\ LET s == req[t].code.secret
         n == req[t].pair IN
     \E made \in BOOLEAN :
       /\ CreateOAuthExchangeCode(s, n, made)
       /\ IF made THEN Go(t, [pc |-> "answer", then |-> Exchange(s, n)]) ELSE End(t)
  /\ UNCHANGED serverVars

-----------------------------------------------------------------------------
(* Token pairs *)

NextPair == Len(issued) + 1

\* Mutant: the tv claim is left out, which verifiers read as version 0.
SignUnversioned(t) == issued' = Append(issued, 0)

\* generateTokenPair signs the version of the loaded document.
Sign(t) == issued' = Append(issued, Doc(t).tokenVersion)

\* tokenVersionStale and authenticate, of a request that carries pair n.
TokenVersionStale(n) == issued[n] # row.tokenVersion
Authenticates(n) == row # None /\ ~TokenVersionStale(n)

\* All that a handler uses of its document once the pair is stored.
Version(t) == [values |-> [tokenVersion |-> Doc(t).tokenVersion], modified |-> {}]

\* persistSessionTokens up to the publication.
Persist(t) ==
  /\ At(t, "persist")
  /\ Sign(t)
  /\ row' = SetFields(row, [refreshTokens    |-> Push(row.refreshTokens, NextPair, MAX_REFRESH),
                            activeAccessJtis |-> Push(row.activeAccessJtis, NextPair, MAX_JTIS)])
  /\ Go(t, [pc |-> "publish", pair |-> NextPair, doc |-> Version(t)])
  /\ UNCHANGED <<index, floor, minted, mailed, spent, ended, codeVars>>

\* publishTokenVersion: SET, unless Redis is unavailable.  A kill has no
\* session to answer with; a reset waits for the value it reads back.
Publish(t) ==
  /\ At(t, "publish")
  /\ \E ok \in BOOLEAN :
       /\ Outcome(ok)
       /\ floor' = IF ready /\ ok THEN Doc(t).tokenVersion ELSE floor
       /\ Go(t, [pc |-> CASE req[t].op = "reset"    -> "readback"
                          [] req[t].op = "callback" -> "exchange"
                          [] OTHER                  -> "answer",
                 doc |-> IF req[t].op = "reset" THEN req[t].doc ELSE NoDoc,
                 stored |-> ready /\ ok])
  /\ UNCHANGED <<row, index, issued, minted, mailed, spent, ended, ready, cache, memory>>

\* refreshAccessToken's lookup, with +refreshTokens.
RefreshFind(t) ==
  /\ At(t, "find") /\ req[t].op = "refresh"
  /\ Go(t, [doc |-> Select(row, {"refreshTokens"}),
            pc |-> IF req[t].token \in Sessions THEN "recheck" ELSE "kill"])
  /\ UNCHANGED <<serverVars, codeVars>>

\* rotateSessionTokens looks the token up once more ...
Recheck(t) ==
  /\ At(t, "recheck")
  /\ Go(t, [pc |-> IF req[t].token \in Sessions THEN "rotate" ELSE "kill"])
  /\ UNCHANGED <<serverVars, codeVars>>

\* ... and then swaps the pairs in one transaction, whether or not it is
\* still there.
Rotate(t) ==
  /\ At(t, "rotate")
  /\ Sign(t)
  /\ row' = SetFields(row,
       [refreshTokens    |-> PushThenPull(row.refreshTokens, NextPair, MAX_REFRESH, req[t].token),
        activeAccessJtis |-> Push(row.activeAccessJtis, NextPair, MAX_JTIS)])
  /\ Go(t, [pc |-> "publish", pair |-> NextPair, doc |-> Version(t)])
  /\ UNCHANGED <<index, floor, minted, mailed, spent, ended, codeVars>>

-----------------------------------------------------------------------------
(* Ending sessions *)

NoSessions(version) ==
  [refreshTokens |-> <<>>, activeAccessJtis |-> <<>>, tokenVersion |-> version]

\* invalidateAllSessions: load ...
Kill(t) ==
  /\ At(t, "kill")
  /\ LET doc == Select(row, {"refreshTokens", "activeAccessJtis"}) IN
     Go(t, [pc |-> "killed", doc |-> Assign(doc, NoSessions(row.tokenVersion + 1))])
  /\ UNCHANGED <<serverVars, codeVars>>

\* ... revoke, save; the publication follows.
KillSave(t) ==
  /\ At(t, "killed")
  /\ row' = Saved(row, req[t].doc)
  /\ Go(t, [pc |-> "publish", doc |-> Whole(row')])
  /\ UNCHANGED <<index, floor, issued, minted, mailed, spent, ended, codeVars>>

\* resetPassword's lookup; the new version is published before it is saved.
ResetFind(t) ==
  /\ At(t, "find") /\ req[t].op = "reset"
  /\ IF row # None /\ row.passwordResetToken = req[t].code.secret
       THEN LET doc == Select(row, {"refreshTokens", "activeAccessJtis"}) IN
            Go(t, [pc |-> "publish",
                   doc |-> Assign(doc, Over([password |-> "peppered", passwordResetToken |-> 0],
                                            NoSessions(row.tokenVersion + 1)))])
       ELSE End(t)
  /\ UNCHANGED <<serverVars, codeVars>>

\* Mutant: trusts the SET without reading the value back.
ReadBackTrusting(t) ==
  /\ At(t, "readback")
  /\ IF ready THEN Go(t, [pc |-> "reset"]) ELSE End(t)
  /\ UNCHANGED <<serverVars, codeVars>>

\* publishTokenVersion's GET: the reset goes on only if the gateway's key
\* holds the new version, and answers 503 otherwise.
ReadBack(t) ==
  /\ At(t, "readback")
  /\ \E ok \in BOOLEAN :
       /\ Outcome(ok)
       /\ IF ready /\ ok /\ floor = Doc(t).tokenVersion THEN Go(t, [pc |-> "reset"]) ELSE End(t)
  /\ UNCHANGED <<serverVars, ready, cache, memory>>

\* resetPassword's save.
ResetSave(t) ==
  /\ At(t, "reset")
  /\ row' = Saved(row, req[t].doc)
  /\ spent' = spent \cup {req[t].code.secret}
  /\ ended' = IF req[t].solo THEN ended \cup Sessions ELSE ended
  /\ Go(t, [pc |-> "answer", doc |-> NoDoc])
  /\ UNCHANGED <<index, floor, issued, minted, mailed, codeVars>>

\* Mutant: removeRefreshToken loads the default projection, which has no list.
LogoutFindUnselected(t) ==
  /\ At(t, "find") /\ req[t].op = "logout"
  /\ Go(t, [pc |-> "answer"])
  /\ UNCHANGED <<serverVars, codeVars>>

\* removeRefreshToken: read, filter ...
LogoutFind(t) ==
  /\ At(t, "find") /\ req[t].op = "logout"
  /\ LET doc == Select(row, {"refreshTokens"}) IN
     IF req[t].token \in Sessions
       THEN Go(t, [pc |-> "remove",
                   doc |-> Assign(doc, [refreshTokens |-> Pull(row.refreshTokens, req[t].token)])])
       ELSE Go(t, [pc |-> "answer"])
  /\ UNCHANGED <<serverVars, codeVars>>

\* ... save.
LogoutSave(t) ==
  /\ At(t, "remove")
  /\ row' = Saved(row, req[t].doc)
  /\ Go(t, [pc |-> "answer", doc |-> NoDoc])
  /\ UNCHANGED <<index, floor, issued, minted, mailed, spent, ended, codeVars>>
=============================================================================

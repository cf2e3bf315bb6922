------------------------------- MODULE Users -------------------------------
(***************************************************************************)
(* The users table as uam-backend's db/User.ts sees it.  A row maps fields *)
(* to values.  A query loads a document: the fields its projection names.  *)
(* The document's proxy records which fields are assigned, and save()      *)
(* writes those and every JSONB list that was loaded, changed or not.      *)
(* applyUpdate rewrites the row under SELECT ... FOR UPDATE.               *)
(***************************************************************************)
EXTENDS Lists

\* db/columns.ts: the fields a query leaves out unless it asks with "+field".
SENSITIVE_FIELDS == {"password", "refreshTokens", "activeAccessJtis"}

\* db/columns.ts: the list-valued columns.
JSONB_FIELDS == {"refreshTokens", "activeAccessJtis", "migrationHistory"}

\* The fields of g over those of f.
Over(g, f) == [x \in DOMAIN f \cup DOMAIN g |-> IF x \in DOMAIN g THEN g[x] ELSE f[x]]

-----------------------------------------------------------------------------
(* Documents *)

NoDoc == [values |-> [x \in {} |-> 0], modified |-> {}]

\* UserQuery: resolveFields, execute.  The default projection plus the
\* fields asked for.
Select(row, plus) ==
  [values   |-> [x \in (DOMAIN row \ SENSITIVE_FIELDS) \cup plus |-> row[x]],
   modified |-> {}]

\* A document made from RETURNING *: every column is loaded.
Whole(row) == [values |-> row, modified |-> {}]

\* The proxy's set trap.
Assign(doc, fields) ==
  [values |-> Over(fields, doc.values), modified |-> doc.modified \cup DOMAIN fields]

Has(doc, field) == field \in DOMAIN doc.values

\* Mutant: writes back every loaded field, as a mapper without dirty tracking does.
WritesWholeDocument(doc) == DOMAIN doc.values

\* _update: the columns that save() writes.
Writes(doc) == doc.modified \cup (JSONB_FIELDS \cap DOMAIN doc.values)

\* Mutant: a list that was not loaded is written as '[]'.
SavedClearingLists(row, doc) ==
  [x \in DOMAIN row |-> IF x \in DOMAIN doc.values /\ x \in Writes(doc) THEN doc.values[x]
                        ELSE IF x \in JSONB_FIELDS THEN <<>> ELSE row[x]]

\* _update: the row after save().  The document is then Whole of it.
Saved(row, doc) ==
  [x \in DOMAIN row |-> IF x \in Writes(doc) THEN doc.values[x] ELSE row[x]]

-----------------------------------------------------------------------------
(* applyUpdate *)

\* Array.prototype.slice(-n): the last n elements.
KeepLast(s, n) == IF Len(s) > n THEN SubSeq(s, Len(s) - n + 1, Len(s)) ELSE s

\* Mutant: $push without $slice.
PushUnsliced(s, e, n) == Append(s, e)

\* $push { $each: [e], $slice: -n }.
Push(s, e, n) == KeepLast(Append(s, e), n)

\* $pull.
Pull(s, e) == Only(s, ListOf(s) \ {e})

\* $push runs before $pull whatever their order in the update document.
PushThenPull(s, e, n, old) == Pull(Push(s, e, n), old)

\* $set and $unset; a missing value is stored as NULL.
SetFields(row, fields) ==
  [x \in DOMAIN row |-> IF x \in DOMAIN fields THEN fields[x] ELSE row[x]]
=============================================================================

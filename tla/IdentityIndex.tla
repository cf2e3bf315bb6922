--------------------------- MODULE IdentityIndex ---------------------------
(***************************************************************************)
(* The users table and user_identity_indexes, the inverted index by which  *)
(* uam-backend finds an account from an e-mail address                     *)
(* (identity-index.service.ts, db/UserIdentityIndex.ts).  A key is a kind  *)
(* and an address.  A date is modelled by whether it lies in the future,   *)
(* so an expired index row, which every lookup ignores and the TTL sweeper *)
(* removes, is an absent one.  updateOne is one step.                      *)
(***************************************************************************)
EXTENDS Users, Functions, SequencesExt

CONSTANTS
  Emails,        \* normalised addresses
  MaxAccounts,   \* bound: rows ever inserted
  None           \* no row, no address

VARIABLES
  users,   \* users[u]: the row with id u, or None
  born,    \* how many rows were ever inserted
  index    \* index[key]: the user the key leads to

Ids == 1..MaxAccounts

-----------------------------------------------------------------------------
(* Constraints of the schema *)

\* Mutant: the users table without UNIQUE (email).
NeverTaken(u, email) == FALSE

\* UNIQUE (email): another row has the address.
Taken(u, email) == \E v \in Ids \ {u} : users[v] # None /\ users[v].email = email

\* user_id REFERENCES users(id) ON DELETE CASCADE.
Cascade(idx, u) == RestrictValues(idx, LAMBDA v : v # u)

-----------------------------------------------------------------------------
(* Lookups *)

Entry(idx, kind, email) == IF <<kind, email>> \in DOMAIN idx THEN idx[<<kind, email>>] ELSE None

\* findUserIdByPrimaryEmail, then User.findById.
Primary(email) == Entry(index, "primary_email", email)

\* findPendingMigrationHolder.
PendingHolder(email) == Entry(index, "pending_migration", email)

\* resolveEmailIdentity: primary, then previous, then pending.
Resolve(email) ==
  LET hits == SelectSeq(<<Primary(email), Entry(index, "previous_email", email), PendingHolder(email)>>,
                        LAMBDA u : u # None)
  IN IF hits = <<>> THEN None ELSE Head(hits)

-----------------------------------------------------------------------------
(* Synchronisation *)

\* expectedKeysForUser, in the order in which they are upserted.
KeySeq(values) ==
  <<<<"primary_email", values.email>>>>
  \o (IF values.previousEmail # None /\ values.migrationExpiry
        THEN <<<<"previous_email", values.previousEmail>>>> ELSE <<>>)
  \o (IF values.newEmailPending # None /\ values.migrationTokenExpires
        THEN <<<<"pending_migration", values.newEmailPending>>>> ELSE <<>>)

\* updateOne with upsert: whoever the key led to before.
Upsert(idx, key, u) == [k \in DOMAIN idx \cup {key} |-> IF k = key THEN u ELSE idx[k]]

\* Mutant: stale keys are left in place.
PruneNothing(idx, u, keep) == idx

\* deleteMany { userId, key: { $nin: expected } }.
Prune(idx, u, keep) == RestrictDomain(idx, LAMBDA k : idx[k] = u => k \in keep)

\* syncIdentityIndexesFromUser with nothing in between.
Synced(idx, u, values) ==
  LET keys == KeySeq(values) IN
  Prune(FoldLeft(LAMBDA f, k : Upsert(f, k, u), idx, keys), u, ToSet(keys))

\* backfillIdentityIndexes: every row in turn.
Backfilled(idx) ==
  FoldLeft(LAMBDA f, u : IF users[u] = None THEN f ELSE Synced(f, u, users[u]),
           idx, [i \in 1..born |-> i])
=============================================================================

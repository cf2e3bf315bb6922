-------------------------- MODULE IdentityHeaders --------------------------
(***************************************************************************)
(* The identity headers an edge worker sends upstream.  process_request    *)
(* writes user id and home region into two scratch buffers of the worker   *)
(* and gateway.lua copies the buffers into X-User-Id and X-Home-Region.    *)
(* Nothing else runs on the worker between the two, so the access phase of *)
(* a request is one action.                                                *)
(***************************************************************************)
EXTENDS Naturals

CONSTANTS Users, Regions, None   \* None: empty buffer, absent header, anonymous

VARIABLES
  userBuf,   \* user_id_buf
  homeBuf,   \* home_region_buf
  client,    \* identity of the request served last: [user, home]
  sent       \* headers it was forwarded with, None if it was rejected

identityVars == <<userBuf, homeBuf, client, sent>>

Anonymous == [user |-> None, home |-> None]
Identities == {Anonymous} \cup [user : Users, home : Regions \cup {None}]

\* The buffers of a worker start zeroed (ffi.new).
IdentityInit ==
  /\ userBuf = None /\ homeBuf = None
  /\ client = Anonymous /\ sent = Anonymous

\* select_upstream found a target: each buffer is written if the validated
\* token has the value, then both are copied into the headers.
Forward(id) ==
  /\ client' = id
  /\ userBuf' = IF id.user # None THEN id.user ELSE userBuf
  /\ homeBuf' = IF id.home # None THEN id.home ELSE homeBuf
  /\ sent' = [user |-> userBuf', home |-> homeBuf']

\* Any code other than 200: access returns before it reads the buffers.
Refuse(id) ==
  /\ client' = id
  /\ sent' = Anonymous
  /\ UNCHANGED <<userBuf, homeBuf>>

IdentityNext == \E id \in Identities : Forward(id) \/ Refuse(id)

IdentitySpec == IdentityInit /\ [][IdentityNext]_identityVars

\* ADR-0040 and gateway.lua access: the headers a request is forwarded with
\* are those of its own token, and absent for an anonymous request.
IdentityIsOwn == sent = Anonymous \/ sent = client
=============================================================================

------------------------------ MODULE Credentials ------------------------------
(***************************************************************************)
(* The credentials a caller may present: the tokens of Sessions and the    *)
(* keys of ApiKeys.  The two components share no table and no process, so  *)
(* together they do whatever each of them does.                            *)
(***************************************************************************)
EXTENDS Sessions, ApiKeys

KeysSpec == ApiKeysInit /\ [][ApiKeysNext]_apiKeysVars

CredentialsSpec == SessionsSpec /\ KeysSpec

-----------------------------------------------------------------------------
(***************************************************************************)
(* Properties                                                              *)
(***************************************************************************)
\* SpentRefused, FamilyLinear, ReuseEndsFamily, RetiredKeyRefused and RotationKeepsKey
\* together: a session's token or an API key that was replaced or revoked opens nothing any
\* more, and a family of sessions or of keys keeps one that does
\* (authentication/service.py:77-131, apikeys/service.py).
CredentialsRetired ==
    SpentRefused /\ FamilyLinear /\ ReuseEndsFamily /\ RetiredKeyRefused /\ RotationKeepsKey

================================================================================

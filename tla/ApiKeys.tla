-------------------------------- MODULE ApiKeys --------------------------------
(***************************************************************************)
(* API keys: created, revoked, and rotated into a new key that is committed *)
(* before the old one is revoked.  Requests interleave and may die between *)
(* two of their steps.                                                     *)
(*                                                                         *)
(* A key stands for its credential, whose digest the table keeps.  Scopes, *)
(* rate plan and expiry are copied by a rotation and only ever refuse a    *)
(* credential, which any validation here may do as well.                   *)
(***************************************************************************)
EXTENDS Naturals, Sequences, FiniteSets

CONSTANTS KeyRequests,      \* requests in progress at once
          MaxKeys           \* bound on keys

ASSUME ApiKeysAssumption == MaxKeys \in Nat

VARIABLES apiKey,           \* table api_keys, by the order of their creation
          keyReq,           \* requests to /api-keys, and requests with a credential
          retired,          \* keys whose revocation has been answered
          renounced         \* keys somebody asked to revoke, not to rotate

apiKeysVars == <<apiKey, keyReq, retired, renounced>>

KeyIds == 1..MaxKeys
\* from: rotated_from_id, 0 for none.
ApiKey == [from : 0..MaxKeys, revoked : BOOLEAN]
NoKeyRequest == [pc |-> "idle"]
\* late: the key's revocation had been answered when the request came in.
KeyRequest == [pc : {"arrived", "valid", "created", "served"},
               kind : {"revoke", "rotate", "validate"}, key : KeyIds, late : BOOLEAN]

ApiKeysTypeOK ==
    /\ apiKey \in Seq(ApiKey) /\ Len(apiKey) <= MaxKeys
    /\ \A k \in DOMAIN apiKey : apiKey[k].from < k
    /\ keyReq \in [KeyRequests -> {NoKeyRequest} \cup KeyRequest]
    /\ retired \subseteq DOMAIN apiKey /\ renounced \subseteq DOMAIN apiKey

ApiKeysInit ==
    /\ apiKey = <<>>
    /\ keyReq = [q \in KeyRequests |-> NoKeyRequest]
    /\ retired = {} /\ renounced = {}

KeyAt(q, kind, pc) == keyReq[q].pc = pc /\ keyReq[q].kind = kind
KeyTo(q, pc) == keyReq' = [keyReq EXCEPT ![q].pc = pc]
KeyLeave(q) == keyReq' = [keyReq EXCEPT ![q] = NoKeyRequest]

CreateKey ==
    /\ Len(apiKey) < MaxKeys
    /\ apiKey' = Append(apiKey, [from |-> 0, revoked |-> FALSE])
    /\ UNCHANGED <<keyReq, retired, renounced>>

KeyArrive(q, kind, k) ==
    /\ keyReq[q] = NoKeyRequest
    /\ keyReq' = [keyReq EXCEPT ![q] =
                    [pc |-> "arrived", kind |-> kind, key |-> k, late |-> k \in retired]]
    /\ renounced' = IF kind = "revoke" THEN renounced \cup {k} ELSE renounced
    /\ UNCHANGED <<apiKey, retired>>

\* revoked_at of the key, whatever it was.
RetiredBy(q) == [apiKey EXCEPT ![keyReq[q].key].revoked = TRUE]

Retire(q) ==
    /\ apiKey' = RetiredBy(q)
    /\ retired' = retired \cup {keyReq[q].key}
    /\ KeyLeave(q)
    /\ UNCHANGED renounced

RevokeKey(q) == KeyAt(q, "revoke", "arrived") /\ Retire(q)

RotateRead(q) ==
    /\ KeyAt(q, "rotate", "arrived")
    /\ IF apiKey[keyReq[q].key].revoked THEN KeyLeave(q) ELSE KeyTo(q, "valid")
    /\ UNCHANGED <<apiKey, retired, renounced>>

RotateCreate(q) ==
    /\ KeyAt(q, "rotate", "valid")
    /\ Len(apiKey) < MaxKeys
    /\ apiKey' = Append(apiKey, [from |-> keyReq[q].key, revoked |-> FALSE])
    /\ KeyTo(q, "created")
    /\ UNCHANGED <<retired, renounced>>

\* rotate revokes once the new key is committed.
RetireAfter == {"created"}

RotateRevoke(q) ==
    /\ keyReq[q].pc \in RetireAfter
    /\ Retire(q)

\* validate, of the endpoint and of the middleware: served or refused.
ValidateKey(q) ==
    /\ KeyAt(q, "validate", "arrived")
    /\ \/ ~apiKey[keyReq[q].key].revoked /\ KeyTo(q, "served")
       \/ KeyLeave(q)
    /\ UNCHANGED <<apiKey, retired, renounced>>

\* A request that was served leaves; one that dies leaves what it committed.
KeyDepart(q) ==
    /\ keyReq[q].pc \in {"valid", "created", "served"}
    /\ KeyLeave(q)
    /\ UNCHANGED <<apiKey, retired, renounced>>

ApiKeysNext ==
    \/ CreateKey
    \/ \E q \in KeyRequests :
        \/ \E k \in DOMAIN apiKey, kind \in {"revoke", "rotate", "validate"} : KeyArrive(q, kind, k)
        \/ RevokeKey(q)
        \/ RotateRead(q)
        \/ RotateCreate(q)
        \/ RotateRevoke(q)
        \/ ValidateKey(q)
        \/ KeyDepart(q)

-----------------------------------------------------------------------------
(***************************************************************************)
(* Properties                                                              *)
(***************************************************************************)
\* validate against revoke and rotate: a key whose revocation has been answered is
\* refused to every request that comes in later.
RetiredKeyRefused ==
    \A q \in KeyRequests :
        keyReq[q] # NoKeyRequest /\ keyReq[q].late => ~KeyAt(q, "validate", "served")

\* rotate: its owner is never left without a key by rotations alone, wherever they
\* stop and however they overlap: a revoked key nobody asked to revoke has a
\* successor, and following successors leads to a live key or to one somebody did
\* ask to revoke.
RotationKeepsKey ==
    \A k \in DOMAIN apiKey :
        apiKey[k].revoked /\ k \notin renounced =>
            \E j \in DOMAIN apiKey : apiKey[j].from = k /\ (~apiKey[j].revoked \/ j \in renounced
                                       \/ \E i \in DOMAIN apiKey : apiKey[i].from = j)

================================================================================

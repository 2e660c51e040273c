------------------------------ MODULE PlatformKeys ------------------------------
(***************************************************************************)
(* The API keys of one platform: PlatformService (platform_manager), with  *)
(* onboarding, rotation and validation, over the table api_keys.           *)
(*                                                                         *)
(* The UPDATE of a rotation sees the active keys committed when it starts. *)
(* It locks them one after the other, waits for a row another rotation     *)
(* holds and then skips it if it is inactive by now (READ COMMITTED).  Two *)
(* rotations that overlap leave two active keys; a later one ends both.    *)
(***************************************************************************)
EXTENDS Naturals, Sequences

CONSTANTS
    Rotators,  \* concurrent requests to rotate the key
    Validity,  \* KEY_VALIDITY_DAYS, in clock units
    MaxKeys    \* bound: no rotation starts once there are so many keys

ASSUME KeyAssumption == Validity \in Nat /\ MaxKeys \in Nat

VARIABLES
    keys,     \* committed rows of api_keys, in the order of their commits
    rotation  \* the transaction of each rotation

keyVars == <<keys, rotation>>

\* since: how many keys there were when the rotation that issued the key began.
KeyRow == [on: BOOLEAN, left: 0 .. Validity, since: Nat]
NoRotation == [open |-> FALSE, todo |-> {}, held |-> {}, since |-> 0]
NewKey(n) == [on |-> TRUE, left |-> Validity, since |-> n]

\* validate_key: active and not expired.
Accepted(k) == keys[k].on /\ keys[k].left > 0

-------------------------------------------------------------------------------
\* onboard_platform: the platform and its first key, in one COMMIT.
OnboardPlatform ==
    /\ keys = <<>>
    /\ keys' = <<NewKey(0)>>
    /\ UNCHANGED rotation

\* Mutant: one active key is taken for all there are.
ToRevoke_Last == {k \in DOMAIN keys : keys[k].on /\ k = Len(keys)}

\* WHERE is_active = true, in the snapshot of the statement.
ToRevoke == {k \in DOMAIN keys : keys[k].on}

StartRotation(c) ==
    /\ ~rotation[c].open /\ Len(keys) \in 1 .. MaxKeys - 1
    /\ rotation' = [rotation EXCEPT ![c] =
                      [open |-> TRUE, todo |-> ToRevoke, held |-> {}, since |-> Len(keys)]]
    /\ UNCHANGED keys

\* The UPDATE gets to a row that no other transaction holds.
LockKey(c) ==
    \E k \in rotation[c].todo :
        /\ \A d \in Rotators \ {c} : k \notin rotation[d].held
        /\ rotation' = [rotation EXCEPT
                          ![c].todo = @ \ {k},
                          ![c].held = IF keys[k].on THEN @ \cup {k} ELSE @]
        /\ UNCHANGED keys

Revoked(c) == [k \in DOMAIN keys |-> [keys[k] EXCEPT !.on = @ /\ k \notin rotation[c].held]]

\* INSERT of the new key, COMMIT.
CommitRotation(c) ==
    /\ rotation[c].open /\ rotation[c].todo = {}
    /\ keys' = Append(Revoked(c), NewKey(rotation[c].since))
    /\ rotation' = [rotation EXCEPT ![c] = NoRotation]

\* The request dies, or PostgreSQL breaks a deadlock of two rotations.
AbortRotation(c) ==
    /\ rotation[c].open
    /\ rotation' = [rotation EXCEPT ![c] = NoRotation]
    /\ UNCHANGED keys

KeyTick ==
    /\ \E k \in DOMAIN keys : keys[k].left > 0
    /\ keys' = [k \in DOMAIN keys |->
                  [keys[k] EXCEPT !.left = IF @ = 0 THEN 0 ELSE @ - 1]]
    /\ UNCHANGED rotation

KeyInit == keys = <<>> /\ rotation = [c \in Rotators |-> NoRotation]

KeyNext ==
    \/ OnboardPlatform \/ KeyTick
    \/ \E c \in Rotators :
         StartRotation(c) \/ LockKey(c) \/ CommitRotation(c) \/ AbortRotation(c)

KeySpec == KeyInit /\ [][KeyNext]_keyVars

-------------------------------------------------------------------------------
(* Properties.                                                               *)

KeyTypeOK ==
    /\ keys \in Seq(KeyRow)
    /\ rotation \in [Rotators -> [open: BOOLEAN, todo: SUBSET (DOMAIN keys),
                                  held: SUBSET (DOMAIN keys), since: Nat]]

\* A rotation that has committed has ended every key issued before it began,
\* however it overlapped with others and whatever they left behind; and the
\* platform is never without a key: the one issued last is accepted until it
\* expires (rotate_key, validate_key).
KeysRotated ==
    /\ \A k \in DOMAIN keys : \A j \in 1 .. keys[k].since : ~Accepted(j)
    /\ keys # <<>> => LET n == Len(keys) IN keys[n].left > 0 => Accepted(n)
===============================================================================

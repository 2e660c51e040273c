-------------------------------- MODULE Sessions --------------------------------
(***************************************************************************)
(* Access and refresh tokens of one account: config/security.py, the       *)
(* routes of api_gateway/auth.py that issue them (login, e-mail code,      *)
(* refresh, OAuth exchange) and require_verified_user of main.py.          *)
(*                                                                         *)
(* Tokens are stateless: nothing revokes one before it expires.  A route   *)
(* reads users.is_active and issues, or goes on to a transfer, some time   *)
(* later.  An operator disables and enables the account in the database.   *)
(***************************************************************************)
EXTENDS Naturals

CONSTANTS
    Visits,       \* requests under way
    AccessLife,   \* access_token_expire_minutes
    RefreshLife,  \* refresh_token_expire_days
    Lag           \* assumed: a request ends within so much time

ASSUME SessionAssumption ==
    /\ AccessLife \in Nat /\ RefreshLife \in Nat /\ Lag \in Nat

VARIABLES
    enabled,  \* users.is_active
    off,      \* for how long the account has been disabled
    access,   \* what the longest-lived access token has left
    renewal,  \* what the longest-lived refresh token has left
    visit     \* each request: where it stands, since when it runs

sessionVars == <<enabled, off, access, renewal, visit>>

VisitPlaces == {"none", "login", "exchange", "refresh", "transfer",
                "issueBoth", "issueAccess", "moving"}
Away == [at |-> "none", since |-> 0]
Longest(m, n) == IF m < n THEN n ELSE m
Less(n) == IF n = 0 THEN 0 ELSE n - 1
PutVisit(v, place) == visit' = [visit EXCEPT ![v].at = place]
Leave(v) == visit' = [visit EXCEPT ![v] = Away]

-------------------------------------------------------------------------------
\* A request arrives: with a password or a code, from the identity provider,
\* with a refresh token (decode_token) or with an access token.
Arrive(v) ==
    /\ visit[v] = Away
    /\ \E place \in {"login", "exchange", "refresh", "transfer"} :
         /\ place = "refresh" => renewal > 0
         /\ place = "transfer" => access > 0
         /\ visit' = [visit EXCEPT ![v] = [at |-> place, since |-> 0]]
    /\ UNCHANGED <<enabled, off, access, renewal>>

\* Mutant: a refresh token is enough.
Admits_Bearer(place) == enabled \/ place = "refresh"

\* is_active = "1".
Admits(place) == enabled

\* SELECT of the user.
ReadUser(v) ==
    /\ visit[v].at \in {"login", "exchange", "refresh", "transfer"}
    /\ IF Admits(visit[v].at)
       THEN PutVisit(v, CASE visit[v].at = "login"    -> "issueBoth"
                          [] visit[v].at = "transfer" -> "moving"
                          [] OTHER                    -> "issueAccess")
       ELSE Leave(v)
    /\ UNCHANGED <<enabled, off, access, renewal>>

\* create_access_token, and create_refresh_token after a password or a code.
Issue(v) ==
    /\ visit[v].at \in {"issueBoth", "issueAccess"}
    /\ access' = AccessLife
    /\ renewal' = IF visit[v].at = "issueBoth" THEN Longest(renewal, RefreshLife) ELSE renewal
    /\ Leave(v)
    /\ UNCHANGED <<enabled, off>>

\* The transfer is made, or the request fails.
LeaveVisit(v) ==
    /\ visit[v] # Away
    /\ Leave(v)
    /\ UNCHANGED <<enabled, off, access, renewal>>

SetEnabled(on) ==
    /\ enabled = ~on
    /\ enabled' = on /\ off' = 0
    /\ UNCHANGED <<access, renewal, visit>>

SessionTick ==
    /\ \A v \in Visits : visit[v] # Away => visit[v].since < Lag
    /\ off' = IF enabled \/ off > AccessLife + Lag THEN off ELSE off + 1
    /\ access' = Less(access)
    /\ renewal' = Less(renewal)
    /\ visit' = [v \in Visits |-> IF visit[v] = Away THEN Away
                                  ELSE [visit[v] EXCEPT !.since = @ + 1]]
    /\ UNCHANGED enabled

SessionInit ==
    /\ enabled = TRUE /\ off = 0 /\ access = 0 /\ renewal = 0
    /\ visit = [v \in Visits |-> Away]

SessionNext ==
    \/ SessionTick
    \/ \E on \in BOOLEAN : SetEnabled(on)
    \/ \E v \in Visits : Arrive(v) \/ ReadUser(v) \/ Issue(v) \/ LeaveVisit(v)

SessionSpec == SessionInit /\ [][SessionNext]_sessionVars

-------------------------------------------------------------------------------
(* Properties.                                                               *)

SessionTypeOK ==
    /\ enabled \in BOOLEAN
    /\ off \in 0 .. AccessLife + Lag + 1
    /\ access \in 0 .. AccessLife
    /\ renewal \in 0 .. RefreshLife
    /\ visit \in [Visits -> [at: VisitPlaces, since: 0 .. Lag]]

\* Disabling an account takes effect although tokens cannot be revoked: a
\* request that read the account before may still issue a token or move money,
\* but once its time is over no transfer is under way, and one life of an
\* access token later no access token is left, whatever refresh tokens exist
\* (refresh, login, exchange_mobile_oauth, require_verified_user).
AccessEnds ==
    ~enabled =>
        /\ access > 0 => off + access <= AccessLife + Lag
        /\ off > Lag => \A v \in Visits : visit[v].at \notin {"issueBoth", "issueAccess", "moving"}
===============================================================================

------------------------------ MODULE UserAccounts ------------------------------
(***************************************************************************)
(* The two rows a user owns besides his account: the virtual account, made *)
(* on first use (get_or_create_virtual_account), and the link to a broker  *)
(* account (link_broker_account), both in api_gateway/main.py.             *)
(*                                                                         *)
(* Every SELECT and COMMIT is an action.  Both tables are UNIQUE in the    *)
(* user, the links also in the broker's account; a violated constraint is  *)
(* noticed by the COMMIT alone.                                            *)
(***************************************************************************)
EXTENDS Naturals, FiniteSets

CONSTANTS
    Users,
    Brokers,   \* accounts at the broker
    Requests,  \* requests of either kind, each for one user
    Nothing

ASSUME AccountAssumption == Nothing \notin Requests \cup Brokers

VARIABLES
    accounts,  \* virtual_accounts: user, and the request that made the row
    links,     \* broker_account_links: user and account at the broker
    errand     \* where each request stands, for whom, what it found or asks for

accountVars == <<accounts, links, errand>>

ErrandPlaces == {"new", "find", "insert", "again", "findLink", "writeLink",
                 "has", "linked", "unavailable", "failed", "dead"}
Final == {"has", "linked", "unavailable", "failed", "dead"}
NoErrand == [at |-> "new", user |-> Nothing, found |-> Nothing, broker |-> Nothing]

Step(r, from, to) ==
    /\ errand[r].at = from
    /\ errand' = [errand EXCEPT ![r] = to]

-------------------------------------------------------------------------------
(* get_or_create_virtual_account.                                            *)

AskAccount(r, u) ==
    /\ Step(r, "new", [NoErrand EXCEPT !.at = "find", !.user = u])
    /\ UNCHANGED <<accounts, links>>

OwnRows(r) == {a \in accounts : a.user = errand[r].user}

\* SELECT; scalar_one_or_none raises when there are several rows.
FindAccount(r, place, missing) ==
    /\ \/ /\ OwnRows(r) = {}
          /\ Step(r, place, [errand[r] EXCEPT !.at = missing])
       \/ /\ Cardinality(OwnRows(r)) > 1
          /\ Step(r, place, [errand[r] EXCEPT !.at = "failed"])
       \/ \E a \in OwnRows(r) :
            /\ OwnRows(r) = {a}
            /\ Step(r, place, [errand[r] EXCEPT !.at = "has", !.found = a.by])
    /\ UNCHANGED <<accounts, links>>

FirstLook(r) == FindAccount(r, "find", "insert")

\* Mutant: user_id is not UNIQUE.
AccountTaken_NoConstraint(r) == FALSE

AccountTaken(r) == OwnRows(r) # {}

\* INSERT, COMMIT; a conflict rolls back and looks again.
InsertAccount(r) ==
    /\ Step(r, "insert",
            IF AccountTaken(r) THEN [errand[r] EXCEPT !.at = "again"]
                               ELSE [errand[r] EXCEPT !.at = "has", !.found = r])
    /\ accounts' = IF AccountTaken(r) THEN accounts
                   ELSE accounts \cup {[user |-> errand[r].user, by |-> r]}
    /\ UNCHANGED links

\* 503 when there is still none.
SecondLook(r) == FindAccount(r, "again", "unavailable")

-------------------------------------------------------------------------------
(* link_broker_account.                                                      *)

\* GET of the account at the broker succeeds, or 502.
AskLink(r, u, b) ==
    /\ \E place \in {"findLink", "failed"} :
         Step(r, "new", [at |-> place, user |-> u, found |-> Nothing, broker |-> b])
    /\ UNCHANGED <<accounts, links>>

OwnLinks(r) == {l \in links : l.user = errand[r].user}

\* SELECT of the user's link.
FindLink(r) ==
    /\ \/ /\ OwnLinks(r) = {}
          /\ Step(r, "findLink", [errand[r] EXCEPT !.at = "writeLink"])
       \/ \E l \in OwnLinks(r) :
            Step(r, "findLink", [errand[r] EXCEPT !.at = "writeLink", !.found = l.broker])
    /\ UNCHANGED <<accounts, links>>

\* The COMMIT writes nothing when the link read names that account already.
NoWrite(r) == errand[r].found = errand[r].broker
BrokerTaken(r) ==
    \/ \E l \in links : l.broker = errand[r].broker /\ l.user # errand[r].user
    \/ errand[r].found = Nothing /\ OwnLinks(r) # {}

\* INSERT or UPDATE, COMMIT; a conflict is not handled: 500.
WriteLink(r) ==
    LET e == errand[r]
        fails == ~NoWrite(r) /\ BrokerTaken(r)
    IN /\ Step(r, "writeLink", [e EXCEPT !.at = IF fails THEN "failed" ELSE "linked"])
       /\ links' = IF fails \/ NoWrite(r) THEN links
                   ELSE (links \ OwnLinks(r)) \cup {[user |-> e.user, broker |-> e.broker]}
       /\ UNCHANGED accounts

-------------------------------------------------------------------------------
ErrandDies(r) ==
    /\ errand[r].at \notin Final \cup {"new"}
    /\ errand' = [errand EXCEPT ![r].at = "dead"]
    /\ UNCHANGED <<accounts, links>>

AccountInit ==
    /\ accounts = {} /\ links = {}
    /\ errand = [r \in Requests |-> NoErrand]

AccountNext ==
    \E r \in Requests :
        \/ \E u \in Users : AskAccount(r, u) \/ \E b \in Brokers : AskLink(r, u, b)
        \/ FirstLook(r) \/ InsertAccount(r) \/ SecondLook(r)
        \/ FindLink(r) \/ WriteLink(r)
        \/ ErrandDies(r)

AccountSpec == AccountInit /\ [][AccountNext]_accountVars

-------------------------------------------------------------------------------
(* Properties.                                                               *)

AccountTypeOK ==
    /\ accounts \subseteq [user: Users, by: Requests]
    /\ links \subseteq [user: Users, broker: Brokers]
    /\ errand \in [Requests -> [at: ErrandPlaces, user: Users \cup {Nothing},
                                found: Requests \cup Brokers \cup {Nothing},
                                broker: Brokers \cup {Nothing}]]

\* First requests of a user that run together are all given the same account,
\* the one in the table, and none is turned away with a 503; no account at the
\* broker is shared by two users, nor has a user two of them, although links are
\* decided on what was read before (get_or_create_virtual_account,
\* link_broker_account).
OneAccountEach ==
    /\ \A r \in Requests :
         /\ errand[r].at = "has" => accounts \cap [user: {errand[r].user}, by: Requests] =
                                      {[user |-> errand[r].user, by |-> errand[r].found]}
         /\ errand[r].at # "unavailable"
    /\ \A l, m \in links : l.user = m.user <=> l.broker = m.broker
===============================================================================

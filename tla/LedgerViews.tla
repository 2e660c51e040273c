------------------------------ MODULE LedgerViews -------------------------------
(***************************************************************************)
(* How the owner of a virtual account pages through what is booked on it,  *)
(* while webhooks, payouts and simulated payments book more: the journal   *)
(* by page token (get_virtual_portfolio_transactions) and the transactions *)
(* by page number (list_dashboard_transactions), both in api_gateway/main. *)
(*                                                                         *)
(* A row is its place in the order of the listing, the time before the id. *)
(* The time is set before the COMMIT and ids are random, so a row may      *)
(* become visible anywhere in that order; none is ever deleted.  The       *)
(* client is external: it goes on as long as a page is full.               *)
(***************************************************************************)
EXTENDS Naturals, FiniteSets

CONSTANTS
    Moments,   \* values of occurred_at, created_at
    Ids,       \* values of id
    PageSize   \* limit, page_size

ASSUME ViewAssumption == Moments \subseteq Nat /\ Ids \subseteq Nat /\ PageSize \in Nat \ {0}

Listing == Moments \X Ids

VARIABLES
    booked,   \* the committed rows
    walk,     \* by "token" or by "number"
    place,    \* where the walk stands
    token,    \* next_page_token: the last row of the page before
    page,     \* page: the number of the page to ask for
    early,    \* history: the rows there were when the walk began
    returned  \* history: how often the walk has returned each row

viewVars == <<booked, walk, place, token, page, early, returned>>

\* ORDER BY occurred_at DESC, id DESC.
Before(p, q) == p[1] > q[1] \/ (p[1] = q[1] /\ p[2] > q[2])
Rank(p, S) == Cardinality({q \in S : Before(q, p)})

-------------------------------------------------------------------------------
\* COMMIT of a row: a debit, a payout, the intent and the zero entry of
\* simulate_payment.
Book(p) ==
    /\ p \notin booked
    /\ booked' = booked \cup {p}
    /\ UNCHANGED <<walk, place, token, page, early, returned>>

\* Rows are given out; a full page may be followed by another one.
Give(rows) ==
    /\ returned' = [p \in Listing |-> returned[p] + (IF p \in rows THEN 1 ELSE 0)]
    /\ place' = IF Cardinality(rows) = PageSize THEN "more" ELSE "end"
    /\ UNCHANGED booked

\* The walk begins here, or goes on.
Begin(kind) == place = "start" /\ walk' = kind /\ early' = booked
GoOn(kind) == place = "more" /\ walk = kind /\ UNCHANGED <<walk, early>>

-------------------------------------------------------------------------------
(* get_virtual_portfolio_transactions.                                       *)

\* Mutant: the page starts with what happened strictly before the token.
Rest_ByTime(t) == {p \in booked : p[1] < t[1]}

\* WHERE occurred_at < token's OR (occurred_at = token's AND id < token's).
Rest(t) == {p \in booked : Before(t, p)}

\* The first PageSize rows of S; the last one is the token of a full page.
PageOf(S) == {p \in S : Rank(p, S) < PageSize}
Return(S) ==
    /\ Give(PageOf(S))
    /\ IF place' = "more"
       THEN token' \in {p \in PageOf(S) : \A q \in PageOf(S) : ~Before(p, q)}
       ELSE UNCHANGED token
    /\ UNCHANGED page

FirstPage == Begin("token") /\ Return(booked)
NextPage == GoOn("token") /\ Return(Rest(token))

-------------------------------------------------------------------------------
(* list_dashboard_transactions, without filters.                             *)

\* OFFSET (page - 1) * page_size LIMIT page_size.
Numbered(n) == {p \in booked : Rank(p, booked) \in (n - 1) * PageSize .. n * PageSize - 1}

NumberedPage ==
    /\ Begin("number") \/ GoOn("number")
    /\ Give(Numbered(page))
    /\ page' = page + 1
    /\ UNCHANGED token

-------------------------------------------------------------------------------
ViewInit ==
    /\ booked = {} /\ walk = "token" /\ place = "start" /\ token = <<0, 0>> /\ page = 1
    /\ early = {}
    /\ returned = [p \in Listing |-> 0]

ViewNext == FirstPage \/ NextPage \/ NumberedPage \/ \E p \in Listing : Book(p)

ViewSpec == ViewInit /\ [][ViewNext]_viewVars

-------------------------------------------------------------------------------
(* Properties.                                                               *)

ViewTypeOK ==
    /\ booked \subseteq Listing /\ early \subseteq booked
    /\ walk \in {"token", "number"}
    /\ place \in {"start", "more", "end"}
    /\ token \in Listing \cup {<<0, 0>>}
    /\ page \in Nat
    /\ returned \in [Listing -> Nat]

\* A walk returns every row that was there when it began, whatever is booked
\* between its pages and wherever in the order; by token it returns none twice
\* (get_virtual_portfolio_transactions, list_dashboard_transactions).
WalkIsComplete ==
    /\ walk = "token" => \A p \in Listing : returned[p] <= 1
    /\ place = "end" => \A p \in early : returned[p] >= 1
===============================================================================

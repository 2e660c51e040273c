------------------------------- MODULE Onboarding -------------------------------
(***************************************************************************)
(* Onboarding in production (api_gateway/auth.py): one-time codes by       *)
(* e-mail and by WhatsApp, the profile of the account, and the exchange of *)
(* a mobile OAuth identity for a token.                                    *)
(*                                                                         *)
(* One e-mail address and its account: rows of different addresses never   *)
(* meet.  Every SELECT and every COMMIT of a request is one action; what a *)
(* request has read is kept in work[h], and a COMMIT writes the columns    *)
(* that differ from what was read.  A challenge without a phone is one for *)
(* the e-mail address (purpose "signup"), one with a phone is for that     *)
(* number ("phone_verify").  Input that is refused before anything is read *)
(* (missing consent, no e-mail verified) changes nothing and is left out.  *)
(***************************************************************************)
EXTENDS Naturals, FiniteSets

CONSTANTS
    Challenges,   \* rows of user_otp_challenges
    Phones,       \* WhatsApp numbers, normalised
    Subjects,     \* OAuth identities with this e-mail address
    Handlers,     \* concurrent requests
    MaxAttempts,  \* otp_max_attempts
    Cooldown,     \* 60 s, in clock units
    Life,         \* otp_expire_minutes, in clock units
    None          \* NULL

ASSUME OnboardingAssumption ==
    /\ None \notin Phones \cup Subjects \cup Challenges
    /\ MaxAttempts \in Nat \ {0} /\ Cooldown \in Nat /\ Life \in Nat
    /\ Cooldown < Life
    /\ IsFiniteSet(Handlers)

VARIABLES
    challenge,  \* user_otp_challenges
    user,       \* the row of users, email_verified_at being set when it exists
    pc,         \* where each request stands
    work,       \* what each request has read
    delivered,  \* challenges whose code its owner has received
    guesses,    \* history: answered codes, per challenge
    used,       \* history: accepted codes, per challenge
    shared,     \* history: challenges that two requests verified at the same time
    links       \* history: how often the account was tied to an OAuth identity

onboardingVars ==
    <<challenge, user, pc, work, delivered, guesses, used, shared, links>>

ChallengeRow == [state: {"none", "open", "consumed"}, phone: Phones \cup {None},
                 age: 0 .. Life, attempts: 0 .. MaxAttempts]
NoChallenge == [state |-> "none", phone |-> None, age |-> 0, attempts |-> 0]

UserRow == [exists: BOOLEAN, oauth: Subjects \cup {None}, phone: Phones \cup {None},
            phoneOK: BOOLEAN, kyc: {"pending", "verified"}]
NoUser == [exists |-> FALSE, oauth |-> None, phone |-> None, phoneOK |-> FALSE,
           kyc |-> "pending"]

Work == [ch: Challenges \cup {None}, tries: 0 .. MaxAttempts, phone: Phones \cup {None},
         subject: Subjects \cup {None}, seen: UserRow]
Blank == [ch |-> None, tries |-> 0, phone |-> None, subject |-> None, seen |-> NoUser]

Places == {"idle", "recent", "insert", "send", "withdraw", "code", "miss", "account",
           "signup", "phone", "profile", "email", "link"}

-------------------------------------------------------------------------------
(* Reads of the challenges.                                                  *)

\* Mutant: a code that was used or withdrawn does not count any more.
Recent_Open(target) ==
    {c \in Challenges : /\ challenge[c].state = "open"
                        /\ challenge[c].phone = target /\ challenge[c].age <= Cooldown}

\* Challenges for the same address or number created in the last 60 s.
Recent(target) ==
    {c \in Challenges : /\ challenge[c].state # "none"
                        /\ challenge[c].phone = target /\ challenge[c].age <= Cooldown}

\* Mutant: the purpose of the code is not looked at.
Open_AnyPurpose(target) == {c \in Challenges : challenge[c].state = "open"}

\* Challenges for this address or number that are not consumed.
Open(target) ==
    {c \in Challenges : challenge[c].state = "open" /\ challenge[c].phone = target}

\* ORDER BY created_at DESC, first().
Newest(C) == {c \in C : \A d \in C : challenge[c].age <= challenge[d].age}

\* Mutant: one attempt too many.
TooMany_OffByOne(c) == challenge[c].attempts >= MaxAttempts + 1

TooMany(c) == challenge[c].attempts >= MaxAttempts

\* Mutant: the code can be used again.
Spent_Reusable(row, tries) == [row EXCEPT !.attempts = tries + 1]

\* attempts and consumed_at of an accepted code.
Spent(row, tries) == [row EXCEPT !.attempts = tries + 1, !.state = "consumed"]

-------------------------------------------------------------------------------
(* Requests for a code.                                                      *)

Goto(h, place, w) == pc' = [pc EXCEPT ![h] = place] /\ work' = [work EXCEPT ![h] = w]
Rest(h) == Goto(h, "idle", Blank)
History == <<guesses, used, shared, links>>

\* SELECT the recent challenges: one of them, and the answer is 429.
FindRecent(h, target) ==
    /\ IF Recent(target) # {} THEN Rest(h) ELSE Goto(h, "insert", [Blank EXCEPT !.phone = target])
    /\ UNCHANGED <<challenge, user, delivered, History>>

\* POST /otp/request.
AskSignup(h) == pc[h] = "idle" /\ FindRecent(h, None)

\* POST /phone-otp/request: SELECT the user, whose number it must be.
AskPhone(h) ==
    /\ pc[h] = "idle" /\ user.phone # None
    /\ Goto(h, "recent", [Blank EXCEPT !.phone = user.phone])
    /\ UNCHANGED <<challenge, user, delivered, History>>
FindRecentPhone(h) == pc[h] = "recent" /\ FindRecent(h, work[h].phone)

\* INSERT and COMMIT.
Insert(h, c) ==
    /\ pc[h] = "insert" /\ challenge[c].state = "none"
    /\ challenge' = [challenge EXCEPT ![c] =
                       [NoChallenge EXCEPT !.state = "open", !.phone = work[h].phone]]
    /\ Goto(h, "send", [Blank EXCEPT !.ch = c])
    /\ UNCHANGED <<user, delivered, History>>

\* The mail or the message is handed over, or the attempt raises; it may have been
\* delivered even then.
Send(h) ==
    /\ pc[h] = "send"
    /\ \/ Rest(h) /\ delivered' = delivered \cup {work[h].ch}
       \/ /\ Goto(h, "withdraw", work[h])
          /\ delivered' \in {delivered, delivered \cup {work[h].ch}}
    /\ UNCHANGED <<challenge, user, History>>

\* After a failed delivery: consumed_at is set, the answer is 503.
Withdraw(h) ==
    /\ pc[h] = "withdraw" /\ Rest(h)
    /\ challenge' = [challenge EXCEPT ![work[h].ch].state = "consumed"]
    /\ UNCHANGED <<user, delivered, History>>

-------------------------------------------------------------------------------
(* Verification of a code.                                                   *)

\* Requests that have read a challenge and not yet written it.
Verifying(c) == {g \in Handlers : pc[g] \in {"miss", "account", "signup", "phone"} /\ work[g].ch = c}

\* SELECT the newest open challenge; 400 without one or when it has expired, 429
\* after too many attempts, else the code is compared.  Only a received code is
\* the right one.
FindCode(h, target, next) ==
    LET newest == Newest(Open(target))
        valid == {c \in newest : challenge[c].age < Life /\ ~TooMany(c)}
    IN \/ /\ newest \ valid # {} \/ newest = {}
          /\ Rest(h) /\ UNCHANGED shared
       \/ \E c \in valid, place \in {"miss", next} :
            /\ place = next => c \in delivered
            /\ Goto(h, place, [Blank EXCEPT !.ch = c, !.tries = challenge[c].attempts,
                                       !.seen = work[h].seen])
            /\ shared' = IF Verifying(c) # {} THEN shared \cup {c} ELSE shared
NoWrite == UNCHANGED <<challenge, user, delivered, guesses, used, links>>

\* POST /otp/verify.
VerifySignup(h) == pc[h] = "idle" /\ FindCode(h, None, "account") /\ NoWrite

\* POST /phone-otp/verify: SELECT the user, whose number it must be.
VerifyPhone(h) ==
    /\ pc[h] = "idle" /\ user.phone # None
    /\ Goto(h, "code", [Blank EXCEPT !.phone = user.phone, !.seen.kyc = user.kyc])
    /\ UNCHANGED <<challenge, user, delivered, History>>
FindPhoneCode(h) == pc[h] = "code" /\ FindCode(h, work[h].phone, "phone") /\ NoWrite

\* A wrong code, or a right one without the consents: the attempt is committed.
Miss(h) ==
    LET c == work[h].ch IN
    /\ pc[h] = "miss" /\ Rest(h)
    /\ challenge' = [challenge EXCEPT ![c].attempts = work[h].tries + 1]
    /\ guesses' = [guesses EXCEPT ![c] = @ + 1]
    /\ UNCHANGED <<user, delivered, used, shared, links>>

\* The accepted challenge, whatever its row says by then.
Accept(h) ==
    LET c == work[h].ch IN
    /\ challenge' = [challenge EXCEPT ![c] = Spent(@, work[h].tries)]
    /\ guesses' = [guesses EXCEPT ![c] = @ + 1]
    /\ used' = [used EXCEPT ![c] = @ + 1]

\* SELECT the user by e-mail address.
ReadAccount(h) ==
    /\ pc[h] = "account"
    /\ Goto(h, "signup", [work[h] EXCEPT !.seen = [user EXCEPT !.oauth = None, !.phoneOK = FALSE]])
    /\ UNCHANGED <<challenge, user, delivered, History>>

\* UNIQUE(email): another request created the account meanwhile (500).
EmailTaken(h) == ~work[h].seen.exists /\ user.exists

\* Create the account, or overwrite the profile: its status is pending again.
CommitSignup(h, p) ==
    LET seen == work[h].seen IN
    /\ pc[h] = "signup" /\ Rest(h)
    /\ IF EmailTaken(h) THEN UNCHANGED <<challenge, user, guesses, used>>
       ELSE /\ Accept(h)
            /\ user' = IF ~seen.exists
                       THEN [NoUser EXCEPT !.exists = TRUE, !.phone = p]
                       ELSE [user EXCEPT !.phone = IF p # seen.phone THEN p ELSE @,
                                         !.kyc = IF seen.kyc # "pending" THEN "pending" ELSE @]
    /\ UNCHANGED <<delivered, shared, links>>

\* phone_verified_at is set, the account is verified.
CommitPhone(h) ==
    /\ pc[h] = "phone" /\ Rest(h)
    /\ Accept(h)
    /\ user' = [user EXCEPT !.phoneOK = TRUE,
                            !.kyc = IF work[h].seen.kyc # "verified" THEN "verified" ELSE @]
    /\ UNCHANGED <<delivered, shared, links>>

-------------------------------------------------------------------------------
(* The profile and the OAuth identity.                                       *)

\* POST /me/kyc.
ReadProfile(h) ==
    /\ pc[h] = "idle" /\ user.exists
    /\ Goto(h, "profile", [Blank EXCEPT !.seen = [user EXCEPT !.oauth = None]])
    /\ UNCHANGED <<challenge, user, delivered, History>>

KycOf(row) == IF row.phoneOK THEN "verified" ELSE "pending"

\* The number may change; whether one was verified is taken from what was read.
SaveProfile(h, p) ==
    LET seen == work[h].seen IN
    /\ pc[h] = "profile" /\ Rest(h)
    /\ user' = [user EXCEPT !.phone = IF p # seen.phone THEN p ELSE @,
                            !.kyc = IF KycOf(seen) # seen.kyc THEN KycOf(seen) ELSE @]
    /\ UNCHANGED <<challenge, delivered, History>>

\* POST /oauth/mobile/exchange: SELECT by oauth_subject; a known one gets its token.
Exchange(h, s) ==
    /\ pc[h] = "idle" /\ user.oauth # s
    /\ Goto(h, "email", [Blank EXCEPT !.subject = s])
    /\ UNCHANGED <<challenge, user, delivered, History>>

\* Mutant: an account that has an identity is given the new one.
LinkedToOther_Never(s) == FALSE

LinkedToOther(s) == user.exists /\ user.oauth \notin {None, s}

\* SELECT by e-mail address: 409 when it has another identity.
ReadEmail(h) ==
    /\ pc[h] = "email"
    /\ IF LinkedToOther(work[h].subject) THEN Rest(h)
       ELSE Goto(h, "link", [work[h] EXCEPT !.seen =
                              [NoUser EXCEPT !.exists = user.exists, !.oauth = user.oauth]])
    /\ UNCHANGED <<challenge, user, delivered, History>>

\* Create the account with its identity, or tie the existing one to it.
Link(h) ==
    LET w == work[h] IN
    /\ pc[h] = "link" /\ Rest(h)
    /\ IF EmailTaken(h) \/ w.seen.oauth = w.subject THEN UNCHANGED <<user, links>>
       ELSE /\ user' = IF ~w.seen.exists
                       THEN [NoUser EXCEPT !.exists = TRUE, !.oauth = w.subject]
                       ELSE [user EXCEPT !.oauth = w.subject]
            /\ links' = links + 1
    /\ UNCHANGED <<challenge, delivered, guesses, used, shared>>

\* The process dies, or a statement raises: nothing uncommitted remains.
Crash(h) ==
    /\ pc[h] # "idle" /\ Rest(h)
    /\ UNCHANGED <<challenge, user, delivered, History>>

\* Ages beyond Life, past expiry, are not told apart.
Tick ==
    /\ challenge' = [c \in Challenges |->
          [challenge[c] EXCEPT !.age = IF challenge[c].state # "none" /\ @ < Life
                                       THEN @ + 1 ELSE @]]
    /\ UNCHANGED <<user, pc, work, delivered, History>>

-------------------------------------------------------------------------------
OnboardingInit ==
    /\ challenge = [c \in Challenges |-> NoChallenge]
    /\ user = NoUser
    /\ pc = [h \in Handlers |-> "idle"]
    /\ work = [h \in Handlers |-> Blank]
    /\ delivered = {} /\ shared = {}
    /\ guesses = [c \in Challenges |-> 0]
    /\ used = [c \in Challenges |-> 0]
    /\ links = 0

CodeStep(h) == \/ AskSignup(h) \/ AskPhone(h) \/ FindRecentPhone(h)
               \/ \E c \in Challenges : Insert(h, c)
               \/ Send(h) \/ Withdraw(h)
               \/ VerifySignup(h) \/ VerifyPhone(h) \/ FindPhoneCode(h) \/ Miss(h)
               \/ ReadAccount(h) \/ CommitPhone(h)
               \/ \E p \in Phones \cup {None} : CommitSignup(h, p)
AccountStep(h) == \/ ReadProfile(h) \/ \E p \in Phones : SaveProfile(h, p)
                  \/ \E s \in Subjects : Exchange(h, s)
                  \/ ReadEmail(h) \/ Link(h)

OnboardingNext == Tick \/ \E h \in Handlers : CodeStep(h) \/ AccountStep(h) \/ Crash(h)
OnboardingSpec == OnboardingInit /\ [][OnboardingNext]_onboardingVars

-------------------------------------------------------------------------------
(* Properties.                                                               *)

\* Every variable stays in its domain; no attempt is counted beyond the limit.
OnboardingTypeOK ==
    /\ challenge \in [Challenges -> ChallengeRow]
    /\ user \in UserRow
    /\ pc \in [Handlers -> Places]
    /\ work \in [Handlers -> Work]
    /\ delivered \subseteq Challenges /\ shared \subseteq Challenges
    /\ guesses \in [Challenges -> Nat] /\ used \in [Challenges -> Nat]
    /\ links \in Nat

\* No account is verified without proof: a code sent to a number, and for a number,
\* was presented and accepted, whatever requests wrote the profile meanwhile.
VerifiedHasProof ==
    user.kyc = "verified" \/ user.phoneOK =>
        \E c \in Challenges : /\ challenge[c].phone # None /\ c \in delivered
                              /\ challenge[c].state = "consumed" /\ used[c] > 0

\* A code is good for one use and a limited number of attempts, each of which is
\* counted, as long as no two requests verify it at the same time (the row is
\* read and written back without a lock).
OnceUnlessShared ==
    \A c \in Challenges \ shared : used[c] <= 1 /\ guesses[c] = challenge[c].attempts

\* The cooldown: the codes created for one address or number within 60 s, and those
\* about to be, are no more than the requests that run together.
CooldownBound ==
    \A target \in Phones \cup {None} :
        Cardinality({c \in Challenges : /\ challenge[c].state # "none"
                                        /\ challenge[c].phone = target
                                        /\ challenge[c].age <= Cooldown})
        + Cardinality({h \in Handlers : pc[h] = "insert" /\ work[h].phone = target})
            <= Cardinality(Handlers)

\* An account keeps its OAuth identity, but for requests that were under way when
\* it got the first one: they may replace it, each once.
LinksBounded == links <= Cardinality(Handlers)
===============================================================================

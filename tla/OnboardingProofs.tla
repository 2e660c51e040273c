---------------------------- MODULE OnboardingProofs ----------------------------
(***************************************************************************)
(* Proofs about Onboarding, for any number of concurrent requests, codes,  *)
(* numbers and identities.                                                 *)
(*                                                                         *)
(* OnboardingInv says what a request knows of the rows it has read: its    *)
(* challenge exists, its code is one of those a user may still try.  On it *)
(* rest four arguments, each with an invariant of its own: a proof of a    *)
(* number stays one (ProofInv), a code that is not shared is as its one    *)
(* reader left it (OnceInv), and a request joins those about to create a   *)
(* code, or to tie the account, only while there is none (CooldownInv,     *)
(* LinkInv).                                                               *)
(***************************************************************************)
EXTENDS Onboarding, FiniteSetTheorems, TLAPS

\* A request that has found a challenge to compare with.
Verifies(h) == pc[h] \in {"miss", "account", "signup", "phone"}

\* What a request has read is a row, and a code that may be tried once more.
WorkOK(h) ==
    /\ pc[h] \in {"send", "withdraw"} \/ Verifies(h) =>
         work[h].ch \in Challenges /\ challenge[work[h].ch].state # "none"
    /\ Verifies(h) => work[h].tries < MaxAttempts
    /\ pc[h] \in {"recent", "code"} => work[h].phone \in Phones
    /\ pc[h] \in {"email", "link"} => work[h].subject \in Subjects

\* A row that was never inserted is blank.
Unborn(c) ==
    challenge[c].state = "none" =>
        challenge[c] = NoChallenge /\ guesses[c] = 0 /\ used[c] = 0

OnboardingInv ==
    /\ OnboardingTypeOK
    /\ \A h \in Handlers : WorkOK(h)
    /\ \A c \in Challenges : Unborn(c)

-------------------------------------------------------------------------------
(* Rows and requests keep their types.                                       *)

LEMMA OnboardingInitInv == OnboardingInit => OnboardingInv
BY OnboardingAssumption
DEF OnboardingInit, OnboardingInv, OnboardingTypeOK, WorkOK, Verifies, Unborn, NoChallenge,
    ChallengeRow, NoUser, UserRow, Blank, Work, Places

LEMMA BlankType == NoUser \in UserRow /\ NoChallenge \in ChallengeRow /\ Blank \in Work
BY OnboardingAssumption DEF Blank, Work, NoUser, UserRow, NoChallenge, ChallengeRow

\* A request goes to another place with what it has read; rows may change, but
\* none disappears.
LEMMA Going ==
    ASSUME OnboardingInv, NEW h \in Handlers, NEW place \in Places, NEW w \in Work,
           Goto(h, place, w),
           challenge' \in [Challenges -> ChallengeRow],
           \A c \in Challenges : challenge[c].state # "none" => challenge'[c].state # "none",
           WorkOK(h)'
    PROVE  /\ pc' \in [Handlers -> Places] /\ work' \in [Handlers -> Work]
           /\ \A g \in Handlers : WorkOK(g)'
<1>1. pc' \in [Handlers -> Places] /\ work' \in [Handlers -> Work]
  BY DEF OnboardingInv, OnboardingTypeOK, Goto
<1>2. ASSUME NEW g \in Handlers, g # h PROVE WorkOK(g)'
  <2>1. pc'[g] = pc[g] /\ work'[g] = work[g] /\ WorkOK(g)
    BY <1>2 DEF OnboardingInv, OnboardingTypeOK, Goto
  <2> QED
    BY <2>1 DEF WorkOK, Verifies
<1> QED
  BY <1>1, <1>2

\* The same, when the request touches no row at all.
LEMMA GoingQuietly ==
    ASSUME OnboardingInv, NEW h \in Handlers, NEW place \in Places, NEW w \in Work,
           Goto(h, place, w), WorkOK(h)',
           UNCHANGED <<challenge, guesses, used>>,
           user' \in UserRow, delivered' \subseteq Challenges, shared' \subseteq Challenges,
           links' \in Nat
    PROVE  OnboardingInv'
<1>1. OnboardingTypeOK' /\ \A g \in Handlers : WorkOK(g)'
  BY Going DEF OnboardingInv, OnboardingTypeOK
<1>2. \A c \in Challenges : Unborn(c)'
  BY DEF OnboardingInv, Unborn
<1> QED
  BY <1>1, <1>2 DEF OnboardingInv

-------------------------------------------------------------------------------
(* The steps of a request.                                                   *)

LEMMA RestOK == ASSUME NEW h \in Handlers, OnboardingInv, Rest(h)
                PROVE  WorkOK(h)'
BY DEF Rest, Goto, WorkOK, Verifies, OnboardingInv, OnboardingTypeOK

\* Requests for a code.
LEMMA AskKeeps ==
    ASSUME OnboardingInv, NEW h \in Handlers,
           AskSignup(h) \/ AskPhone(h) \/ FindRecentPhone(h) \/ Send(h)
    PROVE  OnboardingInv'
<1> USE OnboardingAssumption, BlankType
<1>1. ASSUME NEW target \in Phones \cup {None}, FindRecent(h, target) PROVE OnboardingInv'
  <2>1. CASE Rest(h)
    BY <1>1, <2>1, RestOK, GoingQuietly
    DEF FindRecent, Rest, Places, OnboardingInv, OnboardingTypeOK, History
  <2>2. CASE Goto(h, "insert", [Blank EXCEPT !.phone = target])
    <3>1. [Blank EXCEPT !.phone = target] \in Work
      BY DEF Blank, Work, UserRow, NoUser
    <3>2. WorkOK(h)'
      BY <2>2 DEF Goto, WorkOK, Verifies, OnboardingInv, OnboardingTypeOK
    <3> QED
      BY <1>1, <2>2, <3>1, <3>2, GoingQuietly
      DEF FindRecent, Places, OnboardingInv, OnboardingTypeOK, History
  <2> QED
    BY <1>1, <2>1, <2>2 DEF FindRecent
<1>2. CASE AskSignup(h)
  BY <1>1, <1>2 DEF AskSignup
<1>3. CASE AskPhone(h)
  <2>1. user.phone \in Phones
    BY <1>3 DEF AskPhone, OnboardingInv, OnboardingTypeOK, UserRow
  <2>2. [Blank EXCEPT !.phone = user.phone] \in Work
    BY <2>1 DEF Blank, Work, UserRow, NoUser
  <2>3. WorkOK(h)'
    BY <1>3, <2>1 DEF AskPhone, Goto, WorkOK, Verifies, OnboardingInv, OnboardingTypeOK, Blank
  <2> QED
    BY <1>3, <2>2, <2>3, GoingQuietly
    DEF AskPhone, Places, OnboardingInv, OnboardingTypeOK, History
<1>4. CASE FindRecentPhone(h)
  <2>1. work[h].phone \in Phones
    BY <1>4 DEF FindRecentPhone, OnboardingInv, WorkOK
  <2> QED
    BY <1>1, <1>4, <2>1 DEF FindRecentPhone
<1>5. CASE Send(h)
  <2>1. work[h].ch \in Challenges /\ work[h] \in Work /\ challenge[work[h].ch].state # "none"
    BY <1>5 DEF Send, OnboardingInv, OnboardingTypeOK, WorkOK
  <2>2. delivered' \subseteq Challenges
    BY <1>5, <2>1 DEF Send, OnboardingInv, OnboardingTypeOK
  <2>3. CASE Rest(h)
    BY <1>5, <2>2, <2>3, RestOK, GoingQuietly
    DEF Send, Rest, Places, OnboardingInv, OnboardingTypeOK, History
  <2>4. CASE Goto(h, "withdraw", work[h])
    <3>1. WorkOK(h)'
      BY <1>5, <2>1, <2>4 DEF Send, Goto, WorkOK, Verifies, OnboardingInv, OnboardingTypeOK
    <3> QED
      BY <1>5, <2>1, <2>2, <2>4, <3>1, GoingQuietly
      DEF Send, Places, OnboardingInv, OnboardingTypeOK, History
  <2> QED
    BY <1>5, <2>3, <2>4 DEF Send
<1> QED
  BY <1>2, <1>3, <1>4, <1>5

\* Looking for the challenge, and for the account.
LEMMA FindKeeps ==
    ASSUME OnboardingInv, NEW h \in Handlers,
           VerifySignup(h) \/ VerifyPhone(h) \/ FindPhoneCode(h) \/ ReadAccount(h)
    PROVE  OnboardingInv'
<1> USE OnboardingAssumption, BlankType
<1>1. ASSUME NEW target \in Phones \cup {None}, NEW next \in {"account", "phone"},
             FindCode(h, target, next), NoWrite
      PROVE  OnboardingInv'
  <2>1. Newest(Open(target)) \subseteq Challenges
    BY DEF Newest, Open
  <2>2. CASE Rest(h) /\ UNCHANGED shared
    BY <1>1, <2>2, RestOK, GoingQuietly
    DEF NoWrite, Rest, Places, OnboardingInv, OnboardingTypeOK
  <2>3. ASSUME NEW c \in Newest(Open(target)), ~TooMany(c), NEW place \in {"miss", next},
               Goto(h, place, [Blank EXCEPT !.ch = c, !.tries = challenge[c].attempts,
                                            !.seen = work[h].seen]),
               shared' = IF Verifying(c) # {} THEN shared \cup {c} ELSE shared
        PROVE  OnboardingInv'
    <3>1. /\ c \in Challenges /\ challenge[c] \in ChallengeRow /\ work[h].seen \in UserRow
          /\ challenge[c].state = "open" /\ challenge[c].attempts < MaxAttempts
      BY <2>1, <2>3
      DEF Newest, Open, TooMany, OnboardingInv, OnboardingTypeOK, ChallengeRow, Work
    <3>2. [Blank EXCEPT !.ch = c, !.tries = challenge[c].attempts, !.seen = work[h].seen] \in Work
      BY <3>1 DEF Blank, Work, ChallengeRow
    <3>3. WorkOK(h)'
      BY <1>1, <2>3, <3>1
      DEF Goto, NoWrite, WorkOK, Verifies, OnboardingInv, OnboardingTypeOK, Blank
    <3> QED
      BY <1>1, <2>3, <3>1, <3>2, <3>3, GoingQuietly
      DEF NoWrite, Places, OnboardingInv, OnboardingTypeOK
  <2> QED
    BY <1>1, <2>2, <2>3 DEF FindCode
<1>2. CASE VerifySignup(h)
  BY <1>1, <1>2 DEF VerifySignup
<1>3. CASE VerifyPhone(h)
  <2>1. user.phone \in Phones /\ user.kyc \in {"pending", "verified"}
    BY <1>3 DEF VerifyPhone, OnboardingInv, OnboardingTypeOK, UserRow
  <2>2. [Blank EXCEPT !.phone = user.phone, !.seen.kyc = user.kyc] \in Work
    BY <2>1 DEF Blank, Work, UserRow, NoUser
  <2>3. WorkOK(h)'
    BY <1>3, <2>1 DEF VerifyPhone, Goto, WorkOK, Verifies, OnboardingInv, OnboardingTypeOK, Blank
  <2> QED
    BY <1>3, <2>2, <2>3, GoingQuietly
    DEF VerifyPhone, Places, OnboardingInv, OnboardingTypeOK, History
<1>4. CASE FindPhoneCode(h)
  <2>1. work[h].phone \in Phones
    BY <1>4 DEF FindPhoneCode, OnboardingInv, WorkOK
  <2> QED
    BY <1>1, <1>4, <2>1 DEF FindPhoneCode
<1>5. CASE ReadAccount(h)
  <2> DEFINE w == [work[h] EXCEPT !.seen = [user EXCEPT !.oauth = None, !.phoneOK = FALSE]]
  <2>1. work[h] \in Work /\ user \in UserRow
    BY DEF OnboardingInv, OnboardingTypeOK
  <2>2. w \in Work
    BY <2>1 DEF Work, UserRow
  <2>3. WorkOK(h)'
    BY <1>5, <2>1 DEF ReadAccount, Goto, WorkOK, Verifies, OnboardingInv, OnboardingTypeOK, Work
  <2> QED
    BY <1>5, <2>2, <2>3, GoingQuietly
    DEF ReadAccount, Places, OnboardingInv, OnboardingTypeOK, History
<1> QED
  BY <1>2, <1>3, <1>4, <1>5

\* The commits that write a challenge.
LEMMA ChallengeKeeps ==
    ASSUME OnboardingInv, NEW h \in Handlers,
           \/ \E c \in Challenges : Insert(h, c)
           \/ Withdraw(h) \/ Miss(h) \/ CommitPhone(h)
           \/ \E p \in Phones \cup {None} : CommitSignup(h, p)
    PROVE  OnboardingInv'
<1> USE OnboardingAssumption, BlankType
<1>1. work[h] \in Work /\ challenge \in [Challenges -> ChallengeRow] /\ user \in UserRow
  BY DEF OnboardingInv, OnboardingTypeOK
<1>2. ASSUME NEW c \in Challenges, Insert(h, c) PROVE OnboardingInv'
  <2>1. [NoChallenge EXCEPT !.state = "open", !.phone = work[h].phone] \in ChallengeRow
    BY <1>1 DEF NoChallenge, ChallengeRow, Work
  <2>2. challenge' \in [Challenges -> ChallengeRow]
    BY <1>1, <1>2, <2>1 DEF Insert
  <2>3. [Blank EXCEPT !.ch = c] \in Work
    BY DEF Blank, Work
  <2>4. \A d \in Challenges : challenge[d].state # "none" => challenge'[d].state # "none"
    BY <1>1, <1>2 DEF Insert, NoChallenge
  <2>5. challenge'[c].state = "open"
    BY <1>1, <1>2 DEF Insert, NoChallenge
  <2>6. WorkOK(h)'
    BY <1>2, <2>5 DEF Insert, Goto, WorkOK, Verifies, OnboardingInv, OnboardingTypeOK, Blank
  <2>7. OnboardingTypeOK' /\ \A g \in Handlers : WorkOK(g)'
    BY <1>2, <2>2, <2>3, <2>4, <2>6, Going
    DEF Insert, Places, OnboardingInv, OnboardingTypeOK, History
  <2>8. \A d \in Challenges : Unborn(d)'
    BY <1>1, <1>2, <2>5 DEF Insert, OnboardingInv, Unborn, History
  <2> QED
    BY <2>7, <2>8 DEF OnboardingInv
<1>3. CASE Withdraw(h)
  <2>1. /\ challenge' \in [Challenges -> ChallengeRow]
        /\ \A d \in Challenges : challenge[d].state # "none" => challenge'[d].state # "none"
        /\ \A d \in Challenges : challenge'[d].state = "none" => challenge'[d] = challenge[d]
    BY <1>1, <1>3 DEF Withdraw, ChallengeRow
  <2>2. OnboardingTypeOK' /\ \A g \in Handlers : WorkOK(g)'
    BY <1>3, <2>1, RestOK, Going
    DEF Withdraw, Rest, Places, OnboardingInv, OnboardingTypeOK, History
  <2>3. \A d \in Challenges : Unborn(d)'
    BY <1>3, <2>1 DEF Withdraw, OnboardingInv, Unborn, History
  <2> QED
    BY <2>2, <2>3 DEF OnboardingInv
<1>4. ASSUME Rest(h), UNCHANGED <<delivered, shared, links>>, Verifies(h), user' \in UserRow,
             NEW s \in {challenge[work[h].ch].state, "consumed"},
             challenge' = [challenge EXCEPT ![work[h].ch] =
                             [@ EXCEPT !.attempts = work[h].tries + 1, !.state = s]],
             guesses' = [guesses EXCEPT ![work[h].ch] = @ + 1],
             used' \in {used, [used EXCEPT ![work[h].ch] = @ + 1]}
      PROVE  OnboardingInv'
  <2> DEFINE c == work[h].ch
  <2>1. c \in Challenges /\ challenge[c].state # "none" /\ work[h].tries + 1 \in 0 .. MaxAttempts
    BY <1>1, <1>4 DEF OnboardingInv, WorkOK, Work
  <2>2. /\ challenge' \in [Challenges -> ChallengeRow]
        /\ \A d \in Challenges : challenge[d].state # "none" => challenge'[d].state # "none"
        /\ \A d \in Challenges : d # c => challenge'[d] = challenge[d]
        /\ challenge'[c].state # "none"
    BY <1>1, <1>4, <2>1 DEF ChallengeRow
  <2>3. guesses' \in [Challenges -> Nat] /\ used' \in [Challenges -> Nat]
    BY <1>4, <2>1 DEF OnboardingInv, OnboardingTypeOK
  <2>4. OnboardingTypeOK' /\ \A g \in Handlers : WorkOK(g)'
    BY <1>4, <2>2, <2>3, RestOK, Going
    DEF Rest, Places, OnboardingInv, OnboardingTypeOK
  <2>5. \A d \in Challenges : Unborn(d)'
    BY <1>4, <2>1, <2>2 DEF OnboardingInv, OnboardingTypeOK, Unborn
  <2> QED
    BY <2>4, <2>5 DEF OnboardingInv
<1>5. CASE Miss(h)
  <2>1. challenge' = [challenge EXCEPT ![work[h].ch] =
                        [@ EXCEPT !.attempts = work[h].tries + 1,
                                  !.state = challenge[work[h].ch].state]]
    BY <1>1, <1>5 DEF Miss, ChallengeRow
  <2> QED
    BY <1>1, <1>4, <1>5, <2>1 DEF Miss, Verifies
<1>6. CASE CommitPhone(h)
  <2>1. user' \in UserRow
    BY <1>1, <1>6 DEF CommitPhone, UserRow
  <2> QED
    BY <1>4, <1>6, <2>1 DEF CommitPhone, Accept, Spent, Verifies
<1>7. ASSUME NEW p \in Phones \cup {None}, CommitSignup(h, p) PROVE OnboardingInv'
  <2>1. user' \in UserRow
    <3>1. [NoUser EXCEPT !.exists = TRUE, !.phone = p] \in UserRow
      BY DEF NoUser, UserRow
    <3>2. \A q \in Phones \cup {None}, k \in {"pending", "verified"} :
              [user EXCEPT !.phone = q, !.kyc = k] \in UserRow
      BY <1>1 DEF UserRow
    <3>3. user.phone \in Phones \cup {None} /\ user.kyc \in {"pending", "verified"}
      BY <1>1 DEF UserRow
    <3> DEFINE seen == work[h].seen
               q == IF p # seen.phone THEN p ELSE user.phone
               k == IF seen.kyc # "pending" THEN "pending" ELSE user.kyc
    <3>4. [user EXCEPT !.phone = q, !.kyc = k] \in UserRow
      BY <3>2, <3>3
    <3>5. \/ user' = user
          \/ user' = [NoUser EXCEPT !.exists = TRUE, !.phone = p]
          \/ user' = [user EXCEPT !.phone = q, !.kyc = k]
      BY <1>7 DEF CommitSignup
    <3> QED
      BY <1>1, <3>1, <3>4, <3>5
  <2>2. CASE EmailTaken(h)
    BY <1>7, <2>1, <2>2, RestOK, GoingQuietly
    DEF CommitSignup, Rest, Places, OnboardingInv, OnboardingTypeOK
  <2>3. CASE ~EmailTaken(h)
    BY <1>4, <1>7, <2>1, <2>3 DEF CommitSignup, Accept, Spent, Verifies
  <2> QED
    BY <2>2, <2>3
<1> QED
  BY <1>2, <1>3, <1>5, <1>6, <1>7

\* The profile, the OAuth identity, and a request that dies.
LEMMA AccountKeeps ==
    ASSUME OnboardingInv, NEW h \in Handlers, AccountStep(h) \/ Crash(h)
    PROVE  OnboardingInv'
<1> USE OnboardingAssumption, BlankType
<1>1. work[h] \in Work /\ user \in UserRow /\ links \in Nat
  BY DEF OnboardingInv, OnboardingTypeOK
<1>2. ASSUME Rest(h), UNCHANGED <<challenge, delivered, guesses, used, shared>>,
             user' \in UserRow, links' \in Nat
      PROVE  OnboardingInv'
  BY <1>2, RestOK, GoingQuietly DEF Rest, Places, OnboardingInv, OnboardingTypeOK
<1>3. CASE ReadProfile(h)
  <2>1. [Blank EXCEPT !.seen = [user EXCEPT !.oauth = None]] \in Work
    BY <1>1 DEF Blank, Work, UserRow
  <2>2. WorkOK(h)'
    BY <1>3 DEF ReadProfile, Goto, WorkOK, Verifies, OnboardingInv, OnboardingTypeOK
  <2> QED
    BY <1>3, <2>1, <2>2, GoingQuietly
    DEF ReadProfile, Places, OnboardingInv, OnboardingTypeOK, History
<1>4. ASSUME NEW p \in Phones, SaveProfile(h, p) PROVE OnboardingInv'
  <2>1. user' \in UserRow
    BY <1>1, <1>4 DEF SaveProfile, UserRow, KycOf
  <2> QED
    BY <1>1, <1>2, <1>4, <2>1 DEF SaveProfile, History
<1>5. ASSUME NEW s \in Subjects, Exchange(h, s) PROVE OnboardingInv'
  <2>1. [Blank EXCEPT !.subject = s] \in Work
    BY DEF Blank, Work
  <2>2. WorkOK(h)'
    BY <1>5 DEF Exchange, Goto, WorkOK, Verifies, OnboardingInv, OnboardingTypeOK, Blank
  <2> QED
    BY <1>5, <2>1, <2>2, GoingQuietly
    DEF Exchange, Places, OnboardingInv, OnboardingTypeOK, History
<1>6. CASE ReadEmail(h)
  <2> DEFINE w == [work[h] EXCEPT !.seen =
                     [NoUser EXCEPT !.exists = user.exists, !.oauth = user.oauth]]
  <2>1. w \in Work /\ w.subject = work[h].subject
    BY <1>1 DEF Work, UserRow, NoUser
  <2>2. CASE Rest(h)
    BY <1>1, <1>2, <1>6, <2>2 DEF ReadEmail, History
  <2>3. CASE Goto(h, "link", w)
    <3>1. work[h].subject \in Subjects
      BY <1>6 DEF ReadEmail, OnboardingInv, WorkOK
    <3>2. WorkOK(h)'
      BY <2>1, <2>3, <3>1 DEF Goto, WorkOK, Verifies, OnboardingInv, OnboardingTypeOK
    <3> QED
      BY <1>6, <2>1, <2>3, <3>2, GoingQuietly
      DEF ReadEmail, Places, OnboardingInv, OnboardingTypeOK, History
  <2> QED
    BY <1>6, <2>2, <2>3 DEF ReadEmail
<1>7. CASE Link(h)
  <2>1. user' \in UserRow /\ links' \in Nat
    <3>1. work[h].subject \in Subjects
      BY <1>7 DEF Link, OnboardingInv, WorkOK
    <3>2. /\ [NoUser EXCEPT !.exists = TRUE, !.oauth = work[h].subject] \in UserRow
          /\ [user EXCEPT !.oauth = work[h].subject] \in UserRow
      BY <1>1, <3>1 DEF NoUser, UserRow
    <3> QED
      BY <1>1, <1>7, <3>2 DEF Link
  <2> QED
    BY <1>2, <1>7, <2>1 DEF Link
<1>8. CASE Crash(h)
  BY <1>1, <1>2, <1>8 DEF Crash, History
<1> QED
  BY <1>3, <1>4, <1>5, <1>6, <1>7, <1>8 DEF AccountStep

LEMMA TickKeeps == OnboardingInv /\ Tick => OnboardingInv'
<1> SUFFICES ASSUME OnboardingInv, Tick PROVE OnboardingInv'
  OBVIOUS
<1>1. ASSUME NEW c \in Challenges
      PROVE  /\ challenge'[c] \in ChallengeRow
             /\ challenge'[c].state = challenge[c].state
             /\ challenge[c].state = "none" => challenge'[c] = challenge[c]
  <2>1. challenge[c] \in ChallengeRow /\ Life \in Nat
    BY OnboardingAssumption DEF OnboardingInv, OnboardingTypeOK
  <2>2. challenge'[c] = IF challenge[c].state # "none" /\ challenge[c].age < Life
                        THEN [challenge[c] EXCEPT !.age = challenge[c].age + 1]
                        ELSE [challenge[c] EXCEPT !.age = challenge[c].age]
    BY DEF Tick
  <2> QED
    BY <2>1, <2>2 DEF ChallengeRow
<1>2. OnboardingTypeOK'
  BY <1>1 DEF Tick, OnboardingInv, OnboardingTypeOK, History
<1>3. ASSUME NEW h \in Handlers PROVE WorkOK(h)'
  BY <1>1 DEF Tick, OnboardingInv, WorkOK, Verifies
<1>4. ASSUME NEW c \in Challenges PROVE Unborn(c)'
  BY <1>1 DEF Tick, OnboardingInv, Unborn, History
<1> QED
  BY <1>2, <1>3, <1>4 DEF OnboardingInv

LEMMA OnboardingNextInv == OnboardingInv /\ [OnboardingNext]_onboardingVars => OnboardingInv'
<1> SUFFICES ASSUME OnboardingInv, [OnboardingNext]_onboardingVars PROVE OnboardingInv'
  OBVIOUS
<1>1. CASE UNCHANGED onboardingVars
  BY <1>1 DEF onboardingVars, OnboardingInv, OnboardingTypeOK, WorkOK, Verifies, Unborn
<1>2. CASE OnboardingNext
  BY <1>2, AskKeeps, FindKeeps, ChallengeKeeps, AccountKeeps, TickKeeps
  DEF OnboardingNext, CodeStep
<1> QED
  BY <1>1, <1>2

\* At every moment a request that verifies a code has found an existing challenge
\* with an attempt left, and no row has anything before it is inserted (the
\* endpoints of api_gateway/auth.py).
THEOREM OnboardingInvariance == OnboardingSpec => []OnboardingInv
BY OnboardingInitInv, OnboardingNextInv, PTL DEF OnboardingSpec

\* Every row and request keeps its type; in particular no attempt is counted
\* beyond the limit, however many requests count at the same time (verify_signup_otp).
THEOREM OnboardingTypeCorrect == OnboardingSpec => []OnboardingTypeOK
<1>1. OnboardingInv => OnboardingTypeOK
  BY DEF OnboardingInv
<1> QED
  BY <1>1, OnboardingInvariance, PTL

-------------------------------------------------------------------------------
(* The number of a verified account was proved.                              *)

ProvedBy(c) == /\ challenge[c].phone # None /\ c \in delivered
               /\ challenge[c].state = "consumed" /\ used[c] > 0
Proved == \E c \in Challenges : ProvedBy(c)

\* A code for a number is accepted only from somebody who has received it, and a
\* profile that was read as verified was so rightly.
ProofOK(h) ==
    /\ pc[h] = "phone" => challenge[work[h].ch].phone # None /\ work[h].ch \in delivered
    /\ pc[h] = "profile" /\ work[h].seen.phoneOK => Proved

ProofInv ==
    /\ user.kyc = "verified" \/ user.phoneOK => Proved
    /\ \A h \in Handlers : ProofOK(h)

\* Rows stay, for the number they are for; what was accepted stays accepted.
LEMMA RowsStand ==
    ASSUME OnboardingInv, [OnboardingNext]_onboardingVars, NEW c \in Challenges
    PROVE  /\ challenge[c].state # "none" => challenge'[c].phone = challenge[c].phone
           /\ challenge[c].state = "consumed" => challenge'[c].state = "consumed"
           /\ used'[c] >= used[c]
           /\ c \in delivered => c \in delivered'
<1> DEFINE Stands ==
             /\ challenge[c].state # "none" => challenge'[c].phone = challenge[c].phone
             /\ challenge[c].state = "consumed" => challenge'[c].state = "consumed"
             /\ used'[c] >= used[c]
             /\ c \in delivered => c \in delivered'
<1>1. /\ challenge \in [Challenges -> ChallengeRow] /\ used[c] \in Nat
      /\ used \in [Challenges -> Nat]
  BY DEF OnboardingInv, OnboardingTypeOK
<1>2. ASSUME UNCHANGED <<challenge, used>>, delivered \subseteq delivered' PROVE Stands
  BY <1>1, <1>2
<1>3. ASSUME NEW h \in Handlers, CodeStep(h) PROVE Stands
  <2>1. CASE AskSignup(h) \/ AskPhone(h) \/ FindRecentPhone(h) \/ Send(h)
    BY <1>2, <2>1 DEF AskSignup, AskPhone, FindRecentPhone, FindRecent, Send, History
  <2>2. CASE VerifySignup(h) \/ VerifyPhone(h) \/ FindPhoneCode(h) \/ ReadAccount(h)
    BY <1>2, <2>2 DEF VerifySignup, VerifyPhone, FindPhoneCode, ReadAccount, NoWrite, History
  <2>3. CASE Withdraw(h)
    BY <1>1, <2>3 DEF Withdraw, ChallengeRow, History
  <2>4. ASSUME NEW d \in Challenges, Insert(h, d) PROVE Stands
    BY <1>1, <2>4 DEF Insert, History
  <2>5. CASE Miss(h)
    BY <1>1, <2>5 DEF Miss, ChallengeRow
  <2>6. ASSUME Accept(h), UNCHANGED delivered PROVE Stands
    BY <1>1, <2>6 DEF Accept, Spent, ChallengeRow
  <2>7. CASE CommitPhone(h)
    BY <2>6, <2>7 DEF CommitPhone
  <2>8. ASSUME NEW p \in Phones \cup {None}, CommitSignup(h, p) PROVE Stands
    BY <1>2, <2>6, <2>8 DEF CommitSignup
  <2> QED
    BY <1>3, <2>1, <2>2, <2>3, <2>4, <2>5, <2>7, <2>8 DEF CodeStep
<1>4. ASSUME NEW h \in Handlers, AccountStep(h) PROVE Stands
  BY <1>2, <1>4 DEF AccountStep, ReadProfile, SaveProfile, Exchange, ReadEmail, Link, History
<1>5. ASSUME NEW h \in Handlers, Crash(h) PROVE Stands
  BY <1>2, <1>5 DEF Crash, History
<1>6. CASE Tick
  BY <1>1, <1>6 DEF Tick, ChallengeRow, History
<1>7. CASE UNCHANGED onboardingVars
  BY <1>2, <1>7 DEF onboardingVars
<1> QED
  BY <1>3, <1>4, <1>5, <1>6, <1>7 DEF OnboardingNext

LEMMA ProvedStands ==
    ASSUME OnboardingInv, [OnboardingNext]_onboardingVars, Proved PROVE Proved'
<1>1. PICK c \in Challenges : ProvedBy(c)
  BY DEF Proved
<1>2. ProvedBy(c)'
  BY <1>1, RowsStand, OnboardingNextInv DEF ProvedBy, OnboardingInv, OnboardingTypeOK
<1> QED
  BY <1>2 DEF Proved

LEMMA ProofNextInv ==
    ASSUME OnboardingInv, ProofInv, [OnboardingNext]_onboardingVars PROVE ProofInv'
<1> USE OnboardingAssumption
<1> DEFINE Shown == user.kyc = "verified" \/ user.phoneOK
<1>1. OnboardingInv' /\ (Proved => Proved')
  BY OnboardingNextInv, ProvedStands
<1>2. /\ pc \in [Handlers -> Places] /\ work \in [Handlers -> Work] /\ user \in UserRow
      /\ challenge \in [Challenges -> ChallengeRow]
  BY DEF OnboardingInv, OnboardingTypeOK
<1>3. ASSUME NEW h \in Handlers, pc'[h] = pc[h], work'[h] = work[h] PROVE ProofOK(h)'
  <2>1. CASE pc[h] = "phone"
    <3>1. work[h].ch \in Challenges /\ challenge[work[h].ch].state # "none"
      BY <2>1 DEF OnboardingInv, WorkOK, Verifies
    <3> QED
      BY <1>3, <2>1, <3>1, RowsStand DEF ProofInv, ProofOK
  <2> QED
    BY <1>1, <1>3, <2>1 DEF ProofInv, ProofOK
<1>4. ASSUME NEW h \in Handlers, NEW place, NEW w, Goto(h, place, w), ProofOK(h)',
             Shown' => Shown \/ Proved'
      PROVE  ProofInv'
  <2>1. ASSUME NEW g \in Handlers, g # h PROVE ProofOK(g)'
    BY <1>2, <1>3, <1>4, <2>1 DEF Goto
  <2> QED
    BY <1>1, <1>4, <2>1 DEF ProofInv
<1>5. ASSUME NEW h \in Handlers, NEW place, NEW w, Goto(h, place, w),
             place \notin {"phone", "profile"}, Shown' => Shown \/ Proved'
      PROVE  ProofInv'
  BY <1>2, <1>4, <1>5 DEF Goto, ProofOK
<1>6. ASSUME NEW h \in Handlers, CodeStep(h) PROVE ProofInv'
  <2>1. CASE AskSignup(h) \/ AskPhone(h) \/ FindRecentPhone(h) \/ Send(h) \/ Withdraw(h)
    BY <1>5, <2>1
    DEF AskSignup, AskPhone, FindRecentPhone, FindRecent, Send, Withdraw, Rest
  <2>2. ASSUME NEW c \in Challenges, Insert(h, c) PROVE ProofInv'
    BY <1>5, <2>2 DEF Insert
  <2>3. CASE VerifySignup(h) \/ VerifyPhone(h) \/ ReadAccount(h) \/ Miss(h)
    <3>1. ASSUME FindCode(h, None, "account"), UNCHANGED user PROVE ProofInv'
      <4>1. \E place \in {"idle", "miss", "account"} : \E w : Goto(h, place, w)
        BY <3>1 DEF FindCode, Rest
      <4> QED
        BY <1>5, <3>1, <4>1
    <3>2. CASE VerifySignup(h)
      BY <3>1, <3>2 DEF VerifySignup, NoWrite
    <3>3. CASE VerifyPhone(h)
      BY <1>5, <3>3 DEF VerifyPhone
    <3>4. CASE ReadAccount(h)
      BY <1>5, <3>4 DEF ReadAccount
    <3>5. CASE Miss(h)
      BY <1>5, <3>5 DEF Miss, Rest
    <3> QED
      BY <2>3, <3>2, <3>3, <3>4, <3>5
  <2>4. CASE FindPhoneCode(h)
    <3>1. CASE Rest(h)
      BY <1>5, <2>4, <3>1 DEF FindPhoneCode, NoWrite, Rest
    <3>2. ASSUME NEW c \in Newest(Open(work[h].phone)), NEW place \in {"miss", "phone"},
                 NEW w, w.ch = c, Goto(h, place, w), place = "phone" => c \in delivered
          PROVE  ProofInv'
      <4>1. c \in Challenges /\ challenge[c].phone = work[h].phone /\ work[h].phone # None
        BY <2>4, <3>2 DEF FindPhoneCode, Newest, Open, OnboardingInv, WorkOK
      <4>2. ProofOK(h)'
        BY <1>2, <2>4, <3>2, <4>1 DEF Goto, ProofOK, FindPhoneCode, NoWrite
      <4> QED
        BY <1>4, <2>4, <3>2, <4>2 DEF FindPhoneCode, NoWrite
    <3>3. ASSUME NEW c \in Challenges
          PROVE  [Blank EXCEPT !.ch = c, !.tries = challenge[c].attempts,
                               !.seen = work[h].seen].ch = c
      BY DEF Blank
    <3> QED
      BY <2>4, <3>1, <3>2, <3>3 DEF FindPhoneCode, FindCode, Newest, Open
  <2>5. CASE CommitPhone(h)
    <3> DEFINE c == work[h].ch
    <3>1. /\ c \in Challenges /\ challenge[c].phone # None /\ c \in delivered
          /\ used[c] \in Nat
      BY <2>5 DEF CommitPhone, OnboardingInv, OnboardingTypeOK, WorkOK, Verifies, ProofInv, ProofOK
    <3>2. /\ challenge'[c].phone # None /\ challenge'[c].state = "consumed"
          /\ used'[c] > 0 /\ delivered' = delivered
      BY <1>2, <2>5, <3>1
      DEF CommitPhone, Accept, Spent, ChallengeRow, OnboardingInv, OnboardingTypeOK
    <3>3. Proved'
      BY <3>1, <3>2 DEF Proved, ProvedBy
    <3> QED
      BY <1>5, <2>5, <3>3 DEF CommitPhone, Rest
  <2>6. ASSUME NEW p \in Phones \cup {None}, CommitSignup(h, p) PROVE ProofInv'
    <3>1. Shown' => Shown
      BY <1>2, <2>6 DEF CommitSignup, UserRow, NoUser
    <3> QED
      BY <1>5, <2>6, <3>1 DEF CommitSignup, Rest
  <2> QED
    BY <1>6, <2>1, <2>2, <2>3, <2>4, <2>5, <2>6 DEF CodeStep
<1>7. ASSUME NEW h \in Handlers, AccountStep(h) PROVE ProofInv'
  <2>1. CASE ReadProfile(h)
    <3>1. ProofOK(h)'
      BY <1>1, <1>2, <2>1 DEF ReadProfile, Goto, ProofOK, ProofInv, UserRow, Blank
    <3> QED
      BY <1>4, <2>1, <3>1 DEF ReadProfile
  <2>2. ASSUME NEW p \in Phones, SaveProfile(h, p) PROVE ProofInv'
    <3>1. work[h].seen.phoneOK => Proved'
      BY <1>1, <2>2 DEF SaveProfile, ProofInv, ProofOK
    <3>2. Shown' => Shown \/ work[h].seen.phoneOK
      BY <1>2, <2>2 DEF SaveProfile, KycOf, UserRow
    <3> QED
      BY <1>5, <2>2, <3>1, <3>2 DEF SaveProfile, Rest
  <2>3. CASE Link(h)
    <3>1. Shown' => Shown
      BY <1>2, <2>3 DEF Link, UserRow, NoUser
    <3> QED
      BY <1>5, <2>3, <3>1 DEF Link, Rest
  <2>4. ASSUME NEW s \in Subjects, Exchange(h, s) PROVE ProofInv'
    BY <1>5, <2>4 DEF Exchange
  <2>5. CASE ReadEmail(h)
    BY <1>5, <2>5 DEF ReadEmail, Rest
  <2> QED
    BY <1>7, <2>1, <2>2, <2>3, <2>4, <2>5 DEF AccountStep
<1>8. ASSUME NEW h \in Handlers, Crash(h) PROVE ProofInv'
  BY <1>5, <1>8 DEF Crash, Rest
<1>9. CASE Tick \/ UNCHANGED onboardingVars
  BY <1>1, <1>3, <1>9 DEF Tick, onboardingVars, ProofInv
<1> QED
  BY <1>6, <1>7, <1>8, <1>9 DEF OnboardingNext

\* No account is shown as verified unless a code that its owner received on a
\* number was presented and accepted, for any number of requests that write the
\* profile or the account meanwhile (verify_phone_otp, submit_kyc).
THEOREM VerifiedHasProofAlways == OnboardingSpec => []VerifiedHasProof
<1>1. OnboardingInit => ProofInv
  BY DEF OnboardingInit, ProofInv, ProofOK, NoUser
<1>2. ProofInv => VerifiedHasProof
  BY DEF ProofInv, VerifiedHasProof, Proved, ProvedBy
<1> QED
  BY <1>1, <1>2, ProofNextInv, OnboardingInvariance, PTL DEF OnboardingSpec
-------------------------------------------------------------------------------
(* A code that no two requests verify at the same time.                      *)

\* Its row counts what was answered, and its one reader knows that row.
Unshared(c) ==
    /\ guesses[c] = challenge[c].attempts
    /\ used[c] <= 1
    /\ used[c] = 1 => challenge[c].state = "consumed"
    /\ \A h \in Verifying(c) : work[h].tries = challenge[c].attempts /\ used[c] = 0
    /\ \A g, h \in Verifying(c) : g = h

OnceInv == \A c \in Challenges \ shared : Unshared(c)

LEMMA OnceNextInv ==
    ASSUME OnboardingInv, OnceInv, [OnboardingNext]_onboardingVars PROVE OnceInv'
<1> USE OnboardingAssumption
<1>1. /\ pc \in [Handlers -> Places] /\ work \in [Handlers -> Work]
      /\ challenge \in [Challenges -> ChallengeRow] /\ shared \subseteq Challenges
      /\ guesses \in [Challenges -> Nat] /\ used \in [Challenges -> Nat]
  BY DEF OnboardingInv, OnboardingTypeOK
\* Nobody joins the readers of c, and its row counts as before.
<1>2. ASSUME NEW c \in Challenges, Unshared(c),
             guesses'[c] = guesses[c], used'[c] = used[c],
             challenge'[c].attempts = challenge[c].attempts,
             challenge[c].state = "consumed" => challenge'[c].state = "consumed",
             \A g \in Verifying(c)' : g \in Verifying(c) /\ work'[g].tries = work[g].tries
      PROVE  Unshared(c)'
  BY <1>2 DEF Unshared
<1>3. ASSUME NEW h \in Handlers, NEW place, NEW w, Goto(h, place, w),
             NEW c \in Challenges,
             \/ place \notin {"miss", "account", "signup", "phone"}
             \/ w.ch # c
             \/ h \in Verifying(c) /\ w.tries = work[h].tries
      PROVE  \A g \in Verifying(c)' : g \in Verifying(c) /\ work'[g].tries = work[g].tries
  BY <1>1, <1>3 DEF Goto, Verifying
<1>4. ASSUME UNCHANGED <<challenge, guesses, used, shared>>,
             \A c \in Challenges : \A g \in Verifying(c)' :
                 g \in Verifying(c) /\ work'[g].tries = work[g].tries
      PROVE  OnceInv'
  BY <1>2, <1>4 DEF OnceInv
<1>5. ASSUME NEW h \in Handlers, NEW place, NEW w, Goto(h, place, w),
             UNCHANGED <<challenge, guesses, used, shared>>,
             place \notin {"miss", "account", "signup", "phone"}
      PROVE  OnceInv'
  BY <1>3, <1>4, <1>5
\* A request reads the code it is to compare with.
<1>6. ASSUME NEW h \in Handlers, NEW target, NEW next, FindCode(h, target, next), NoWrite
      PROVE  OnceInv'
  <2>1. CASE Rest(h) /\ UNCHANGED shared
    BY <1>5, <1>6, <2>1 DEF NoWrite, Rest
  <2>2. ASSUME NEW c \in Challenges, challenge[c].state = "open", NEW place, NEW w,
               w.ch = c, w.tries = challenge[c].attempts, Goto(h, place, w),
               shared' = IF Verifying(c) # {} THEN shared \cup {c} ELSE shared
        PROVE  OnceInv'
    <3>1. ASSUME NEW d \in Challenges \ shared', d # c PROVE Unshared(d)'
      BY <1>2, <1>3, <1>6, <2>2, <3>1 DEF NoWrite, OnceInv
    <3>2. ASSUME c \notin shared' PROVE Unshared(c)'
      <4>1. c \notin shared /\ Verifying(c) = {}
        BY <2>2, <3>2
      <4>2. Unshared(c)
        BY <4>1 DEF OnceInv
      <4>3. used[c] = 0
        BY <1>1, <2>2, <4>2 DEF Unshared
      <4>4. \A g \in Verifying(c)' : g = h /\ work'[g] = w
        BY <1>1, <2>2, <4>1 DEF Goto, Verifying
      <4> QED
        BY <1>6, <2>2, <4>2, <4>3, <4>4 DEF NoWrite, Unshared
    <3> QED
      BY <3>1, <3>2 DEF OnceInv
  <2>3. ASSUME NEW c \in Challenges
        PROVE  LET w == [Blank EXCEPT !.ch = c, !.tries = challenge[c].attempts,
                                      !.seen = work[h].seen]
               IN w.ch = c /\ w.tries = challenge[c].attempts
    BY DEF Blank
  <2> QED
    BY <1>6, <2>1, <2>2, <2>3 DEF FindCode, Newest, Open
\* The one reader of a code counts its answer.
<1>7. ASSUME NEW h \in Handlers, Verifies(h), Rest(h), UNCHANGED shared,
             NEW s, NEW n,
             n = used[work[h].ch] \/ (n = used[work[h].ch] + 1 /\ s = "consumed"),
             challenge[work[h].ch].state = "consumed" => s = "consumed",
             challenge' = [challenge EXCEPT ![work[h].ch] =
                             [@ EXCEPT !.attempts = work[h].tries + 1, !.state = s]],
             guesses' = [guesses EXCEPT ![work[h].ch] = @ + 1],
             used' = [used EXCEPT ![work[h].ch] = n]
      PROVE  OnceInv'
  <2>0. PICK c \in Challenges : c = work[h].ch
    BY <1>7 DEF OnboardingInv, WorkOK
  <2>1. h \in Verifying(c)
    BY <1>7, <2>0 DEF Verifies, Verifying
  <2>2. ASSUME NEW d \in Challenges \ shared', d # c PROVE Unshared(d)'
    BY <1>1, <1>2, <1>3, <1>7, <2>0, <2>2 DEF Rest, OnceInv
  <2>3. ASSUME c \notin shared' PROVE Unshared(c)'
    <3>1. /\ work[h].tries = challenge[c].attempts /\ used[c] = 0
          /\ guesses[c] = challenge[c].attempts
          /\ \A g \in Verifying(c) : g = h
      BY <1>7, <2>0, <2>1, <2>3 DEF OnceInv, Unshared
    <3>2. ASSUME NEW g \in Verifying(c)' PROVE FALSE
      <4>1. g # h
        BY <1>1, <1>7, <3>2 DEF Rest, Goto, Verifying
      <4>2. g \in Verifying(c)
        BY <1>1, <1>7, <3>2, <4>1 DEF Rest, Goto, Verifying
      <4> QED
        BY <3>1, <4>1, <4>2
    <3>3. /\ challenge'[c].attempts = work[h].tries + 1 /\ challenge'[c].state = s
          /\ guesses'[c] = guesses[c] + 1 /\ used'[c] = n
      BY <1>1, <1>7, <2>0, <3>1 DEF ChallengeRow
    <3>4. challenge[c].attempts \in Nat
      BY <1>1, <2>1 DEF ChallengeRow
    <3> QED
      BY <1>7, <2>0, <3>1, <3>2, <3>3, <3>4 DEF Unshared
  <2> QED
    BY <1>7, <2>2, <2>3 DEF OnceInv
<1>8. ASSUME NEW h \in Handlers, CodeStep(h) PROVE OnceInv'
  <2>1. CASE AskSignup(h) \/ AskPhone(h) \/ FindRecentPhone(h)
    BY <1>5, <2>1 DEF AskSignup, AskPhone, FindRecentPhone, FindRecent, Rest, History
  <2>2. CASE Send(h) \/ VerifyPhone(h)
    BY <1>5, <2>2 DEF Send, VerifyPhone, Rest, History
  <2>3. CASE VerifySignup(h)
    BY <1>6, <2>3 DEF VerifySignup
  <2>4. CASE FindPhoneCode(h)
    BY <1>6, <2>4 DEF FindPhoneCode
  <2>5. ASSUME NEW c \in Challenges, Insert(h, c) PROVE OnceInv'
    <3>1. ASSUME NEW d \in Challenges \ shared PROVE Unshared(d)'
      <4>1. /\ challenge'[d].attempts = challenge[d].attempts
            /\ challenge[d].state = "consumed" => challenge'[d].state = "consumed"
        BY <1>1, <2>5 DEF Insert, OnboardingInv, Unborn, NoChallenge
      <4> QED
        BY <1>2, <1>3, <2>5, <4>1 DEF Insert, History, OnceInv
    <3> QED
      BY <2>5, <3>1 DEF Insert, History, OnceInv
  <2>6. CASE Withdraw(h)
    <3>1. ASSUME NEW d \in Challenges \ shared PROVE Unshared(d)'
      <4>1. /\ challenge'[d].attempts = challenge[d].attempts
            /\ challenge[d].state = "consumed" => challenge'[d].state = "consumed"
        BY <1>1, <2>6 DEF Withdraw, ChallengeRow
      <4> QED
        BY <1>2, <1>3, <2>6, <4>1 DEF Withdraw, Rest, History, OnceInv
    <3> QED
      BY <2>6, <3>1 DEF Withdraw, History, OnceInv
  <2>7. CASE ReadAccount(h)
    <3> DEFINE w == [work[h] EXCEPT !.seen = [user EXCEPT !.oauth = None, !.phoneOK = FALSE]]
    <3>1. w.ch = work[h].ch /\ w.tries = work[h].tries
      BY <1>1 DEF Work
    <3>2. Goto(h, "signup", w) /\ UNCHANGED <<challenge, guesses, used, shared>>
      BY <2>7 DEF ReadAccount, History
    <3>3. h \in Verifying(work[h].ch)
      BY <2>7 DEF ReadAccount, Verifying
    <3>4. ASSUME NEW c \in Challenges
          PROVE  \A g \in Verifying(c)' : g \in Verifying(c) /\ work'[g].tries = work[g].tries
      <4>1. w.ch # c \/ (h \in Verifying(c) /\ w.tries = work[h].tries)
        BY <3>1, <3>3
      <4> HIDE DEF w
      <4> QED
        BY <1>3, <3>2, <4>1
    <3> QED
      BY <1>4, <3>2, <3>4
  <2>8. CASE Miss(h)
    <3>1. challenge' = [challenge EXCEPT ![work[h].ch] =
                          [@ EXCEPT !.attempts = work[h].tries + 1,
                                    !.state = challenge[work[h].ch].state]]
      BY <1>1, <2>8 DEF Miss, ChallengeRow
    <3>2. used' = [used EXCEPT ![work[h].ch] = used[work[h].ch]]
      BY <1>1, <2>8 DEF Miss
    <3>3. Verifies(h) /\ Rest(h) /\ UNCHANGED shared
      BY <2>8 DEF Miss, Verifies
    <3>4. guesses' = [guesses EXCEPT ![work[h].ch] = @ + 1]
      BY <2>8 DEF Miss
    <3> QED
      BY <1>7, <3>1, <3>2, <3>3, <3>4
  <2>9. ASSUME Accept(h), Verifies(h), Rest(h), UNCHANGED shared PROVE OnceInv'
    <3>1. used' = [used EXCEPT ![work[h].ch] = used[work[h].ch] + 1]
      BY <2>9 DEF Accept
    <3> QED
      BY <1>7, <2>9, <3>1 DEF Accept, Spent
  <2>10. CASE CommitPhone(h)
    BY <2>9, <2>10 DEF CommitPhone, Verifies
  <2>11. ASSUME NEW p \in Phones \cup {None}, CommitSignup(h, p) PROVE OnceInv'
    <3>1. CASE EmailTaken(h)
      <4>1. Rest(h) /\ UNCHANGED <<challenge, guesses, used, shared>>
        BY <2>11, <3>1 DEF CommitSignup
      <4> QED
        BY <1>5, <4>1 DEF Rest
    <3>2. CASE ~EmailTaken(h)
      BY <2>9, <2>11, <3>2 DEF CommitSignup, Verifies
    <3> QED
      BY <3>1, <3>2
  <2> QED
    BY <1>8, <2>1, <2>2, <2>3, <2>4, <2>5, <2>6, <2>7, <2>8, <2>10, <2>11 DEF CodeStep
<1>9. ASSUME NEW h \in Handlers, AccountStep(h) PROVE OnceInv'
  <2>1. UNCHANGED <<challenge, guesses, used, shared>>
    BY <1>9 DEF AccountStep, ReadProfile, SaveProfile, Exchange, ReadEmail, Link, History
  <2>2. \E place \in {"idle", "profile", "email", "link"} : \E w : Goto(h, place, w)
    BY <1>9 DEF AccountStep, ReadProfile, SaveProfile, Exchange, ReadEmail, Link, Rest
  <2> QED
    BY <1>5, <2>1, <2>2
<1>10. ASSUME NEW h \in Handlers, Crash(h) PROVE OnceInv'
  BY <1>5, <1>10 DEF Crash, Rest, History
<1>11. CASE Tick
  <2>1. ASSUME NEW c \in Challenges \ shared PROVE Unshared(c)'
    <3>1. challenge'[c].attempts = challenge[c].attempts /\ challenge'[c].state = challenge[c].state
      BY <1>1, <1>11 DEF Tick, ChallengeRow
    <3> QED
      BY <1>2, <1>11, <3>1 DEF Tick, History, OnceInv, Verifying
  <2> QED
    BY <1>11, <2>1 DEF Tick, History, OnceInv
<1>12. CASE UNCHANGED onboardingVars
  BY <1>4, <1>12 DEF onboardingVars, Verifying
<1> QED
  BY <1>8, <1>9, <1>10, <1>11, <1>12 DEF OnboardingNext

\* A code that no two requests verify at the same time is accepted once, and each
\* answer to it is counted, for any number of requests (verify_signup_otp,
\* verify_phone_otp).
THEOREM OnceUnlessSharedAlways == OnboardingSpec => []OnceUnlessShared
<1>1. OnboardingInit => OnceInv
  BY DEF OnboardingInit, OnceInv, Unshared, Verifying, NoChallenge
<1>2. OnceInv => OnceUnlessShared
  BY DEF OnceInv, Unshared, OnceUnlessShared
<1> QED
  BY <1>1, <1>2, OnceNextInv, OnboardingInvariance, PTL DEF OnboardingSpec
-------------------------------------------------------------------------------
(* Requests that run together.                                               *)

\* Those about to create a code for this address or number.
Inserting(target) == {h \in Handlers : pc[h] = "insert" /\ work[h].phone = target}

CooldownInv ==
    \A target \in Phones \cup {None} :
        /\ IsFiniteSet(Recent(target))
        /\ Cardinality(Recent(target)) + Cardinality(Inserting(target)) <= Cardinality(Handlers)

\* Those about to tie the account to an identity.
Tying == {h \in Handlers : pc[h] = "link" /\ work[h].seen.oauth # work[h].subject}

LinkInv ==
    /\ user.oauth = None => links = 0
    /\ ~user.exists => user.oauth = None
    /\ \A h \in Handlers : pc[h] = "link" /\ work[h].seen.exists => user.exists
    /\ links + Cardinality(Tying) <= Cardinality(Handlers)

LEMMA RequestsFinite ==
    ASSUME NEW S, S \subseteq Handlers
    PROVE  /\ IsFiniteSet(S) /\ Cardinality(S) \in Nat
           /\ Cardinality(Handlers) \in Nat /\ Cardinality(S) <= Cardinality(Handlers)
BY OnboardingAssumption, FS_Subset, FS_CardinalityType

\* But for Insert, no step adds a row or makes one younger.
LEMMA RowsAge ==
    ASSUME OnboardingInv, NEW h,
           \/ h \in Handlers /\ CodeStep(h) /\ \A c \in Challenges : ~Insert(h, c)
           \/ h \in Handlers /\ (AccountStep(h) \/ Crash(h))
           \/ Tick \/ UNCHANGED onboardingVars
    PROVE  \A target : Recent(target)' \subseteq Recent(target)
<1>1. /\ challenge \in [Challenges -> ChallengeRow] /\ Life \in Nat
  BY OnboardingAssumption DEF OnboardingInv, OnboardingTypeOK
<1>2. ASSUME NEW d \in Challenges, challenge[d].state # "none", NEW s, NEW n,
             challenge' = [challenge EXCEPT ![d] = [@ EXCEPT !.attempts = n, !.state = s]]
      PROVE  \A target : Recent(target)' \subseteq Recent(target)
  <2>1. ASSUME NEW c \in Challenges, challenge'[c].state # "none"
        PROVE  /\ challenge[c].state # "none" /\ challenge'[c].phone = challenge[c].phone
               /\ challenge'[c].age = challenge[c].age
    <3>1. CASE c # d
      BY <1>1, <1>2, <2>1, <3>1
    <3>2. CASE c = d
      <4>1. challenge'[c] = [challenge[c] EXCEPT !.attempts = n, !.state = s]
        BY <1>1, <1>2, <3>2
      <4> QED
        BY <1>1, <1>2, <3>2, <4>1 DEF ChallengeRow
    <3> QED
      BY <3>1, <3>2
  <2> QED
    BY <2>1 DEF Recent
<1>3. CASE UNCHANGED challenge
  BY <1>3 DEF Recent
<1>4. CASE Tick
  <2>1. ASSUME NEW c \in Challenges
        PROVE  /\ challenge'[c].state = challenge[c].state
               /\ challenge'[c].phone = challenge[c].phone
               /\ challenge'[c].age >= challenge[c].age
               /\ challenge[c].age \in Nat /\ challenge'[c].age \in Nat
    BY <1>1, <1>4 DEF Tick, ChallengeRow
  <2> QED
    BY <2>1, OnboardingAssumption DEF Recent
<1>5. CASE h \in Handlers /\ Withdraw(h)
  <2>1. work[h].ch \in Challenges /\ challenge[work[h].ch].state # "none"
    BY <1>5 DEF Withdraw, OnboardingInv, WorkOK
  <2>2. challenge' = [challenge EXCEPT ![work[h].ch] =
                        [@ EXCEPT !.attempts = challenge[work[h].ch].attempts,
                                  !.state = "consumed"]]
    BY <1>1, <1>5, <2>1 DEF Withdraw, ChallengeRow
  <2> QED
    BY <1>2, <2>1, <2>2
<1>6. CASE h \in Handlers /\ Miss(h)
  <2>1. work[h].ch \in Challenges /\ challenge[work[h].ch].state # "none"
    BY <1>6 DEF Miss, OnboardingInv, WorkOK, Verifies
  <2>2. challenge' = [challenge EXCEPT ![work[h].ch] =
                        [@ EXCEPT !.attempts = work[h].tries + 1,
                                  !.state = challenge[work[h].ch].state]]
    BY <1>1, <1>6, <2>1 DEF Miss, ChallengeRow
  <2> QED
    BY <1>2, <2>1, <2>2
<1>7. CASE h \in Handlers /\ Accept(h) /\ Verifies(h)
  <2>1. work[h].ch \in Challenges /\ challenge[work[h].ch].state # "none"
    BY <1>7 DEF OnboardingInv, WorkOK
  <2> QED
    BY <1>2, <1>7, <2>1 DEF Accept, Spent
<1>8. CASE h \in Handlers /\ CodeStep(h) /\ \A c \in Challenges : ~Insert(h, c)
  <2>1. ASSUME NEW p \in Phones \cup {None}, CommitSignup(h, p)
        PROVE  UNCHANGED challenge \/ (Accept(h) /\ Verifies(h))
    BY <2>1 DEF CommitSignup, Verifies
  <2>2. CASE CommitPhone(h)
    BY <1>7, <1>8, <2>2 DEF CommitPhone, Verifies
  <2>3. CASE AskSignup(h) \/ AskPhone(h) \/ FindRecentPhone(h) \/ Send(h) \/ ReadAccount(h)
    BY <1>3, <2>3 DEF AskSignup, AskPhone, FindRecentPhone, FindRecent, Send, ReadAccount
  <2>4. CASE VerifySignup(h) \/ VerifyPhone(h) \/ FindPhoneCode(h)
    BY <1>3, <2>4 DEF VerifySignup, VerifyPhone, FindPhoneCode, NoWrite
  <2> QED
    BY <1>3, <1>5, <1>6, <1>7, <1>8, <2>1, <2>2, <2>3, <2>4 DEF CodeStep
<1>9. CASE AccountStep(h)
  BY <1>3, <1>9 DEF AccountStep, ReadProfile, SaveProfile, Exchange, ReadEmail, Link
<1>10. CASE Crash(h) \/ UNCHANGED onboardingVars
  BY <1>3, <1>10 DEF Crash, onboardingVars
<1> QED
  BY <1>4, <1>8, <1>9, <1>10

\* But for the read of the recent challenges, no step gets to the insert.
LEMMA WayToInsert ==
    ASSUME OnboardingInv, NEW h \in Handlers,
           \/ CodeStep(h) /\ ~AskSignup(h) /\ ~FindRecentPhone(h)
           \/ AccountStep(h) \/ Crash(h)
    PROVE  \A target : Inserting(target)' \subseteq Inserting(target)
<1>1. pc \in [Handlers -> Places] /\ work \in [Handlers -> Work]
  BY DEF OnboardingInv, OnboardingTypeOK
<1>2. ASSUME NEW place, place # "insert", NEW w, Goto(h, place, w)
      PROVE  \A target : Inserting(target)' \subseteq Inserting(target)
  BY <1>1, <1>2 DEF Goto, Inserting
<1>3. CASE AccountStep(h) \/ Crash(h)
  <2>1. \E place \in {"idle", "profile", "email", "link"} : \E w : Goto(h, place, w)
    BY <1>3 DEF AccountStep, ReadProfile, SaveProfile, Exchange, ReadEmail, Link, Crash, Rest
  <2> QED
    BY <1>2, <2>1
<1>4. CASE AskPhone(h) \/ \E c \in Challenges : Insert(h, c)
  BY <1>2, <1>4 DEF AskPhone, Insert
<1>5. CASE Send(h) \/ Withdraw(h) \/ VerifyPhone(h) \/ Miss(h) \/ CommitPhone(h)
  BY <1>2, <1>5 DEF Send, Withdraw, VerifyPhone, Miss, CommitPhone, Rest
<1>6. CASE VerifySignup(h) \/ FindPhoneCode(h)
  <2>1. \E place \in {"idle", "miss", "account", "phone"} : \E w : Goto(h, place, w)
    BY <1>6 DEF VerifySignup, FindPhoneCode, FindCode, Rest
  <2> QED
    BY <1>2, <2>1
<1>7. CASE ReadAccount(h) \/ \E p \in Phones \cup {None} : CommitSignup(h, p)
  BY <1>2, <1>7 DEF ReadAccount, CommitSignup, Rest
<1> QED
  BY <1>3, <1>4, <1>5, <1>6, <1>7 DEF CodeStep

LEMMA CooldownNextInv ==
    ASSUME OnboardingInv, CooldownInv, [OnboardingNext]_onboardingVars PROVE CooldownInv'
<1> USE OnboardingAssumption
<1> DEFINE Bound(target) ==
             /\ IsFiniteSet(Recent(target))
             /\ Cardinality(Recent(target)) + Cardinality(Inserting(target))
                  <= Cardinality(Handlers)
<1>1. /\ pc \in [Handlers -> Places] /\ work \in [Handlers -> Work]
      /\ challenge \in [Challenges -> ChallengeRow]
  BY DEF OnboardingInv, OnboardingTypeOK
<1>2. ASSUME NEW target
      PROVE  /\ Inserting(target) \subseteq Handlers /\ Inserting(target)' \subseteq Handlers
             /\ IsFiniteSet(Inserting(target))
             /\ Cardinality(Inserting(target)) \in Nat
             /\ Cardinality(Inserting(target)') \in Nat
             /\ Cardinality(Inserting(target)') <= Cardinality(Handlers)
             /\ Cardinality(Handlers) \in Nat
  <2>1. Inserting(target) \subseteq Handlers /\ Inserting(target)' \subseteq Handlers
    BY DEF Inserting
  <2> QED
    BY <2>1, RequestsFinite
\* Fewer rows and fewer requests.
<1>3. ASSUME NEW target \in Phones \cup {None},
             Recent(target)' \subseteq Recent(target),
             Inserting(target)' \subseteq Inserting(target)
      PROVE  Bound(target)'
  <2>1. IsFiniteSet(Recent(target)) /\ IsFiniteSet(Inserting(target)) /\ Bound(target)
    BY <1>2 DEF CooldownInv
  <2>2. /\ IsFiniteSet(Recent(target)')
        /\ Cardinality(Recent(target)') <= Cardinality(Recent(target))
        /\ Cardinality(Inserting(target)') <= Cardinality(Inserting(target))
    BY <1>3, <2>1, FS_Subset
  <2>3. Cardinality(Recent(target)) \in Nat /\ Cardinality(Recent(target)') \in Nat
    BY <2>1, <2>2, FS_CardinalityType
  <2> QED
    BY <1>2, <2>1, <2>2, <2>3
\* The recent challenges are read: a request goes on only if there are none.
<1>4. ASSUME NEW h \in Handlers, NEW t \in Phones \cup {None}, FindRecent(h, t)
      PROVE  CooldownInv'
  <2>1. \A target : Recent(target)' = Recent(target)
    BY <1>4 DEF FindRecent, Recent
  <2>2. ASSUME NEW target \in Phones \cup {None} PROVE Bound(target)'
    <3>1. CASE Recent(target) = {}
      <4>1. IsFiniteSet(Recent(target)') /\ Cardinality(Recent(target)') = 0
        BY <2>1, <3>1, FS_EmptySet
      <4> QED
        BY <1>2, <4>1
    <3>2. CASE Recent(target) # {}
      <4>1. Inserting(target)' \subseteq Inserting(target)
        BY <1>1, <1>4, <3>2 DEF FindRecent, Rest, Goto, Inserting, Blank
      <4> QED
        BY <1>3, <2>1, <4>1
    <3> QED
      BY <3>1, <3>2
  <2> QED
    BY <2>2 DEF CooldownInv
<1>5. ASSUME NEW h \in Handlers, NEW c \in Challenges, Insert(h, c) PROVE CooldownInv'
  <2>1. ASSUME NEW target \in Phones \cup {None} PROVE Bound(target)'
    <3>1. \A d \in Challenges : d # c => challenge'[d] = challenge[d]
      BY <1>1, <1>5 DEF Insert
    <3>2. challenge'[c].phone = work[h].phone
      BY <1>1, <1>5 DEF Insert, NoChallenge
    <3>3. CASE target # work[h].phone
      <4>1. Recent(target)' \subseteq Recent(target)
        BY <3>1, <3>2, <3>3 DEF Recent
      <4>2. Inserting(target)' \subseteq Inserting(target)
        BY <1>1, <1>5 DEF Insert, Goto, Inserting
      <4> QED
        BY <1>3, <4>1, <4>2
    <3>4. CASE target = work[h].phone
      <4>1. Recent(target)' \subseteq Recent(target) \cup {c} /\ c \notin Recent(target)
        BY <1>5, <3>1 DEF Insert, Recent
      <4>2. Inserting(target)' \subseteq Inserting(target) \ {h} /\ h \in Inserting(target)
        BY <1>1, <1>5, <3>4 DEF Insert, Goto, Inserting
      <4>3. IsFiniteSet(Recent(target)) /\ Bound(target)
        BY DEF CooldownInv
      <4>4. /\ IsFiniteSet(Recent(target)')
            /\ Cardinality(Recent(target)') <= Cardinality(Recent(target)) + 1
            /\ Cardinality(Recent(target)) \in Nat /\ Cardinality(Recent(target)') \in Nat
        <5>1. /\ IsFiniteSet(Recent(target) \cup {c})
              /\ Cardinality(Recent(target) \cup {c}) = Cardinality(Recent(target)) + 1
          BY <4>1, <4>3, FS_AddElement
        <5>2. /\ IsFiniteSet(Recent(target)')
              /\ Cardinality(Recent(target)') <= Cardinality(Recent(target) \cup {c})
          BY <4>1, <5>1, FS_Subset
        <5> QED
          BY <4>3, <5>1, <5>2, FS_CardinalityType
      <4>5. Cardinality(Inserting(target)') <= Cardinality(Inserting(target)) - 1
        BY <1>2, <4>2, FS_RemoveElement, FS_Subset
      <4> QED
        BY <1>2, <4>3, <4>4, <4>5
    <3> QED
      BY <3>3, <3>4
  <2> QED
    BY <2>1 DEF CooldownInv
<1>6. ASSUME NEW h \in Handlers,
             \/ CodeStep(h) /\ ~AskSignup(h) /\ ~FindRecentPhone(h)
                  /\ \A c \in Challenges : ~Insert(h, c)
             \/ AccountStep(h) \/ Crash(h)
      PROVE  CooldownInv'
  BY <1>3, <1>6, RowsAge, WayToInsert DEF CooldownInv
<1>7. ASSUME NEW h \in Handlers, AskSignup(h) \/ FindRecentPhone(h) PROVE CooldownInv'
  <2>1. FindRecentPhone(h) => work[h].phone \in Phones
    BY DEF FindRecentPhone, OnboardingInv, WorkOK
  <2> QED
    BY <1>4, <1>7, <2>1 DEF AskSignup, FindRecentPhone
<1>8. CASE Tick \/ UNCHANGED onboardingVars
  <2>1. \A target : Inserting(target)' \subseteq Inserting(target)
    BY <1>8 DEF Tick, onboardingVars, Inserting
  <2>2. \A target : Recent(target)' \subseteq Recent(target)
    BY <1>8, RowsAge
  <2> QED
    BY <1>3, <2>1, <2>2 DEF CooldownInv
<1> QED
  BY <1>5, <1>6, <1>7, <1>8 DEF OnboardingNext

\* The codes created for one address or number within the cooldown, and those about
\* to be, are no more than the requests that run together, for any number of them
\* (request_signup_otp, request_phone_otp).
THEOREM CooldownBoundAlways == OnboardingSpec => []CooldownBound
<1>1. OnboardingInit => CooldownInv
  <2> SUFFICES ASSUME OnboardingInit, NEW target \in Phones \cup {None}
               PROVE  /\ IsFiniteSet(Recent(target))
                      /\ Cardinality(Recent(target)) + Cardinality(Inserting(target))
                           <= Cardinality(Handlers)
    BY DEF CooldownInv
  <2>1. Recent(target) = {} /\ Inserting(target) = {}
    BY DEF OnboardingInit, Recent, Inserting, NoChallenge
  <2>2. Cardinality(Handlers) \in Nat
    BY OnboardingAssumption, FS_CardinalityType
  <2> QED
    BY <2>1, <2>2, FS_EmptySet
<1>2. CooldownInv => CooldownBound
  BY DEF CooldownInv, CooldownBound, Recent, Inserting
<1> QED
  BY <1>1, <1>2, CooldownNextInv, OnboardingInvariance, PTL DEF OnboardingSpec

\* Only a request that finds the account without identity gets to tie it.
LEMMA LinkNextInv ==
    ASSUME OnboardingInv, LinkInv, [OnboardingNext]_onboardingVars PROVE LinkInv'
<1> USE OnboardingAssumption
<1>1. /\ pc \in [Handlers -> Places] /\ work \in [Handlers -> Work]
      /\ user \in UserRow /\ links \in Nat
  BY DEF OnboardingInv, OnboardingTypeOK
<1>2. /\ IsFiniteSet(Tying) /\ Cardinality(Tying) \in Nat /\ Cardinality(Tying') \in Nat
      /\ Cardinality(Tying') <= Cardinality(Handlers) /\ Cardinality(Handlers) \in Nat
  <2>1. Tying \subseteq Handlers /\ Tying' \subseteq Handlers
    BY DEF Tying
  <2> QED
    BY <2>1, RequestsFinite
\* Nobody joins, and the account does not change but for its profile.
<1>3. ASSUME user'.oauth = user.oauth, user.exists => user'.exists, UNCHANGED links,
             ~user.exists => user.oauth = None,
             \A h \in Handlers : pc'[h] = "link" => pc[h] = "link" /\ work'[h] = work[h]
      PROVE  LinkInv'
  <2>1. Tying' \subseteq Tying
    BY <1>3 DEF Tying
  <2>2. Cardinality(Tying') <= Cardinality(Tying)
    BY <1>2, <2>1, FS_Subset
  <2> QED
    BY <1>1, <1>2, <1>3, <2>2 DEF LinkInv
<1>4. ASSUME NEW h \in Handlers, NEW place, NEW w, Goto(h, place, w), place # "link"
      PROVE  \A g \in Handlers : pc'[g] = "link" => pc[g] = "link" /\ work'[g] = work[g]
  BY <1>1, <1>4 DEF Goto
<1>5. ASSUME NEW h \in Handlers, NEW place, NEW w, Goto(h, place, w), place # "link",
             UNCHANGED links, user'.oauth = user.oauth, user.exists => user'.exists
      PROVE  LinkInv'
  BY <1>3, <1>4, <1>5 DEF LinkInv
<1>6. ASSUME NEW h \in Handlers, CodeStep(h) PROVE LinkInv'
  <2>1. UNCHANGED links
    BY <1>6 DEF CodeStep, AskSignup, AskPhone, FindRecentPhone, FindRecent, Insert, Send,
                Withdraw, VerifySignup, VerifyPhone, FindPhoneCode, NoWrite, Miss,
                ReadAccount, CommitPhone, CommitSignup, History
  <2>2. ASSUME NEW p \in Phones \cup {None}, CommitSignup(h, p) PROVE LinkInv'
    <3>1. user'.oauth = user.oauth /\ (user.exists => user'.exists)
      BY <1>1, <2>2 DEF CommitSignup, EmailTaken, LinkInv, NoUser, UserRow
    <3> QED
      BY <1>5, <2>1, <2>2, <3>1 DEF CommitSignup, Rest
  <2>3. CASE CommitPhone(h)
    <3>1. user'.oauth = user.oauth /\ user'.exists = user.exists
      BY <1>1, <2>3 DEF CommitPhone, UserRow
    <3> QED
      BY <1>5, <2>1, <2>3, <3>1 DEF CommitPhone, Rest
  <2>4. CASE VerifySignup(h) \/ FindPhoneCode(h)
    <3>1. \E place \in {"idle", "miss", "account", "phone"} : \E w : Goto(h, place, w)
      BY <2>4 DEF VerifySignup, FindPhoneCode, FindCode, Rest
    <3>2. UNCHANGED user
      BY <2>4 DEF VerifySignup, FindPhoneCode, NoWrite
    <3> QED
      BY <1>5, <2>1, <3>1, <3>2
  <2>5. CASE AskSignup(h) \/ AskPhone(h) \/ FindRecentPhone(h) \/ Send(h) \/ Withdraw(h)
    BY <1>5, <2>1, <2>5
    DEF AskSignup, AskPhone, FindRecentPhone, FindRecent, Send, Withdraw, Rest
  <2>6. CASE VerifyPhone(h) \/ Miss(h) \/ ReadAccount(h) \/ \E c \in Challenges : Insert(h, c)
    BY <1>5, <2>1, <2>6 DEF VerifyPhone, Miss, ReadAccount, Insert, Rest
  <2> QED
    BY <1>6, <2>2, <2>3, <2>4, <2>5, <2>6 DEF CodeStep
<1>7. CASE \E h \in Handlers : ReadEmail(h)
  <2>1. PICK h \in Handlers : ReadEmail(h)
    BY <1>7
  <2> DEFINE w == [work[h] EXCEPT !.seen =
                     [NoUser EXCEPT !.exists = user.exists, !.oauth = user.oauth]]
  <2>2. UNCHANGED <<user, links>> /\ pc[h] = "email" /\ h \notin Tying
    BY <2>1 DEF ReadEmail, History, Tying
  <2>3. CASE Rest(h)
    BY <1>5, <2>2, <2>3 DEF Rest
  <2>4. CASE Goto(h, "link", w) /\ ~LinkedToOther(work[h].subject)
    <3>1. w.seen.exists = user.exists /\ w.seen.oauth = user.oauth /\ w.subject = work[h].subject
      BY <1>1 DEF NoUser, Work
    <3>2. \A g \in Handlers : IF g = h THEN pc'[g] = "link" /\ work'[g] = w
                              ELSE pc'[g] = pc[g] /\ work'[g] = work[g]
      BY <1>1, <2>4 DEF Goto
    <3> HIDE DEF w
    <3>3. \A g \in Handlers : pc'[g] = "link" /\ work'[g].seen.exists => user'.exists
      BY <2>2, <3>1, <3>2 DEF LinkInv
    <3>4. CASE user.oauth = work[h].subject
      <4>1. Tying' \subseteq Tying
        BY <3>1, <3>2, <3>4 DEF Tying
      <4>2. Cardinality(Tying') <= Cardinality(Tying)
        BY <1>2, <4>1, FS_Subset
      <4> QED
        BY <1>1, <1>2, <2>2, <3>3, <4>2 DEF LinkInv
    <3>5. CASE user.oauth # work[h].subject
      <4>1. user.oauth = None
        BY <2>4, <3>5 DEF LinkedToOther, LinkInv
      <4>2. links' = 0
        BY <2>2, <4>1 DEF LinkInv
      <4> QED
        BY <1>1, <1>2, <2>2, <3>3, <4>2 DEF LinkInv
    <3> QED
      BY <3>4, <3>5
  <2> QED
    BY <2>1, <2>3, <2>4 DEF ReadEmail
<1>8. CASE \E h \in Handlers : Link(h)
  <2>1. PICK h \in Handlers : Link(h)
    BY <1>8
  <2>2. /\ \A g \in Handlers : pc'[g] = "link" => pc[g] = "link" /\ work'[g] = work[g] /\ g # h
        /\ work[h].subject \in Subjects
    BY <1>1, <2>1 DEF Link, Rest, Goto, OnboardingInv, WorkOK
  <2>3. CASE UNCHANGED <<user, links>>
    BY <1>3, <2>2, <2>3 DEF LinkInv
  <2>4. CASE ~EmailTaken(h) /\ work[h].seen.oauth # work[h].subject
    <3>1. links' = links + 1 /\ user'.exists /\ user'.oauth = work[h].subject
      BY <1>1, <2>1, <2>4 DEF Link, NoUser, UserRow, LinkInv
    <3>2. h \in Tying /\ Tying' \subseteq Tying \ {h}
      BY <2>1, <2>2, <2>4 DEF Link, Tying
    <3>3. Cardinality(Tying') <= Cardinality(Tying) - 1
      BY <1>2, <3>2, FS_RemoveElement, FS_Subset
    <3> QED
      BY <1>1, <1>2, <2>2, <3>1, <3>3 DEF LinkInv
  <2> QED
    BY <2>1, <2>3, <2>4 DEF Link
<1>9. ASSUME NEW h \in Handlers, AccountStep(h), ~ReadEmail(h), ~Link(h) PROVE LinkInv'
  <2>1. CASE ReadProfile(h) \/ \E s \in Subjects : Exchange(h, s)
    BY <1>5, <2>1 DEF ReadProfile, Exchange, History
  <2>2. ASSUME NEW p \in Phones, SaveProfile(h, p) PROVE LinkInv'
    <3>1. user'.oauth = user.oauth /\ user'.exists = user.exists
      BY <1>1, <2>2 DEF SaveProfile, UserRow
    <3> QED
      BY <1>5, <2>2, <3>1 DEF SaveProfile, Rest, History
  <2> QED
    BY <1>9, <2>1, <2>2 DEF AccountStep
<1>10. ASSUME NEW h \in Handlers, Crash(h) PROVE LinkInv'
  BY <1>5, <1>10 DEF Crash, Rest, History
<1>11. CASE Tick \/ UNCHANGED onboardingVars
  BY <1>3, <1>11 DEF Tick, onboardingVars, History, LinkInv
<1> QED
  BY <1>6, <1>7, <1>8, <1>9, <1>10, <1>11 DEF OnboardingNext

\* An account is tied to an identity no more often than there are requests, for
\* any number of identities: only those under way when it got the first one may
\* replace it (exchange_mobile_oauth).
THEOREM LinksBoundedAlways == OnboardingSpec => []LinksBounded
<1>1. OnboardingInit => LinkInv
  <2> SUFFICES ASSUME OnboardingInit PROVE LinkInv
    OBVIOUS
  <2>1. Tying = {}
    BY DEF OnboardingInit, Tying
  <2>2. Cardinality(Handlers) \in Nat
    BY OnboardingAssumption, FS_CardinalityType
  <2> QED
    BY <2>1, <2>2, FS_EmptySet DEF OnboardingInit, LinkInv, NoUser
<1>2. OnboardingInv /\ LinkInv => LinksBounded
  <2> SUFFICES ASSUME OnboardingInv, LinkInv PROVE LinksBounded
    OBVIOUS
  <2>1. Tying \subseteq Handlers
    BY DEF Tying
  <2>2. Cardinality(Tying) \in Nat /\ Cardinality(Handlers) \in Nat /\ links \in Nat
    BY <2>1, RequestsFinite DEF OnboardingInv, OnboardingTypeOK
  <2> QED
    BY <2>2 DEF LinkInv, LinksBounded
<1> QED
  BY <1>1, <1>2, LinkNextInv, OnboardingInvariance, PTL DEF OnboardingSpec

=================================================================================

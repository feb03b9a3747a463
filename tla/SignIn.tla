------------------------------- MODULE SignIn -------------------------------
(***************************************************************************)
(* Signing in with a wallet (backend/internal/auth): a tab of the browser  *)
(* asks for a challenge, lets the wallet sign its message, and sends that  *)
(* back for a session token, which Authenticate checks on later requests.  *)
(*                                                                         *)
(* The service keeps one challenge per address.  Verify looks it up under  *)
(* the lock, checks it and the signature without the lock, and takes the   *)
(* lock again to delete the entry of the address: two steps here, between  *)
(* which other calls run and time passes.                                  *)
(***************************************************************************)
EXTENDS Naturals

CONSTANTS
    Tabs,          \* tabs of browsers
    Addresses,     \* accounts of the wallets
    None,
    NonceTTL,      \* how long a challenge is good for (10 minutes)
    SessionTTL,    \* how long a session is (15 minutes)
    SecretIsSet,   \* TRUE when AUTH_SECRET is set
    MaxTime,       \* bound on the clock
    MaxChallenges, \* bound on the challenges ever made
    MaxRestarts    \* bound on the restarts of the server

ASSUME SignInAssumption ==
    /\ NonceTTL \in Nat /\ SessionTTL \in Nat
    /\ SecretIsSet \in BOOLEAN
    /\ MaxTime \in Nat /\ MaxChallenges \in Nat /\ MaxRestarts \in Nat

VARIABLES
    now,         \* the clock
    challenges,  \* the messages made so far
    nonces,      \* the challenge the service keeps of each address, 0 for none
    tabs,        \* what each tab is doing
    sessions,    \* the sessions given out
    restarts

vars == <<now, challenges, nonces, tabs, sessions, restarts>>

\* A challenge is its number; the nonce makes every message different.
ChallengeIds == 1..MaxChallenges

\* run is the number of the server's run that made it, which the message does not say.
Challenge == [address : Addresses, expires : Nat, run : Nat]

ASSUME NoneAssumption == None \notin Challenge

\* A tab sends the message of a challenge, and asked is the clock when Verify
\* looked that up.
Tab == [pc : {"idle", "signed", "checking"}, challenge : ChallengeIds \cup {0}, asked : Nat]

NoTab == [pc |-> "idle", challenge |-> 0, asked |-> 0]

\* The secret of a token is that of AUTH_SECRET, 0, or one made at a start.
Session == [address : Addresses, challenge : ChallengeIds, asked : Nat, expires : Nat,
            secret : Nat]

\* A faulty variant of secret: without AUTH_SECRET there is none, and tokens are
\* signed with nothing.
noSecret == IF SecretIsSet THEN 0 ELSE None

\* A faulty variant of secret: without AUTH_SECRET every run has the same.
fixedSecret == 0

secret == IF SecretIsSet THEN 0 ELSE restarts + 1

TypeOK ==
    /\ now \in 0..MaxTime
    /\ challenges \in [ChallengeIds -> Challenge \cup {None}]
    /\ nonces \in [Addresses -> ChallengeIds \cup {0}]
    /\ tabs \in [Tabs -> Tab]
    /\ sessions \subseteq Session
    /\ restarts \in 0..MaxRestarts

Init ==
    /\ now = 0
    /\ challenges = [c \in ChallengeIds |-> None]
    /\ nonces = [w \in Addresses |-> 0]
    /\ tabs = [t \in Tabs |-> NoTab]
    /\ sessions = {}
    /\ restarts = 0

Made == {c \in ChallengeIds : challenges[c] # None}

\* A faulty variant of Cleaned: a challenge is removed at its Expiration Time.
CleanedEarly ==
    [w \in Addresses |-> IF nonces[w] # 0 /\ now < challenges[nonces[w]].expires
                         THEN nonces[w] ELSE 0]

\* cleanupExpiredNoncesLocked: a challenge is good until its Expiration Time.
Cleaned ==
    [w \in Addresses |-> IF nonces[w] # 0 /\ now <= challenges[nonces[w]].expires
                         THEN nonces[w] ELSE 0]

-----------------------------------------------------------------------------

\* GET auth/nonce, and the signature of the wallet.  It replaces the challenge
\* that the address may have; the tab may have given up an earlier one.
NewChallenge(t) ==
    /\ tabs[t].pc \in {"idle", "signed"}
    /\ \E w \in Addresses, c \in ChallengeIds \ Made :
        /\ \A b \in ChallengeIds : b < c => b \in Made
        /\ challenges' = [challenges EXCEPT ![c] =
               [address |-> w, expires |-> now + NonceTTL, run |-> restarts]]
        /\ nonces' = [Cleaned EXCEPT ![w] = c]
        /\ tabs' = [tabs EXCEPT ![t] = [NoTab EXCEPT !.pc = "signed", !.challenge = c]]
    /\ UNCHANGED <<now, sessions, restarts>>

\* A faulty variant of Matches: any live challenge of the address will do.
HasLiveChallenge(c, kept) == kept[challenges[c].address] # 0

\* The challenge the service has of the address is the one that was signed.
Matches(c, kept) == kept[challenges[c].address] = c

\* POST auth/verify up to the check of the signature.  What fails leaves the tab
\* without a session; the user may start again.
VerifyLookup(t) ==
    /\ tabs[t].pc = "signed"
    /\ nonces' = Cleaned
    /\ tabs' = [tabs EXCEPT ![t] =
           IF Matches(tabs[t].challenge, Cleaned) THEN [@ EXCEPT !.pc = "checking", !.asked = now]
           ELSE NoTab]
    /\ UNCHANGED <<now, challenges, sessions, restarts>>

\* The signature is that of the address.  The entry deleted is the address's, whatever
\* challenge is there now, and the session counts from now.
VerifyRedeem(t) ==
    LET c == tabs[t].challenge
        w == challenges[c].address IN
    /\ tabs[t].pc = "checking"
    /\ nonces' = [nonces EXCEPT ![w] = 0]
    /\ sessions' = sessions \cup
           {[address |-> w, challenge |-> c, asked |-> tabs[t].asked,
             expires |-> now + SessionTTL, secret |-> secret]}
    /\ tabs' = [tabs EXCEPT ![t] = NoTab]
    /\ UNCHANGED <<now, challenges, restarts>>

Verify(t) == VerifyLookup(t) \/ VerifyRedeem(t)

\* The tokens Authenticate accepts: signed with the secret, not expired.
Accepted == {s \in sessions : s.secret = secret /\ now <= s.expires}

Tick ==
    /\ now < MaxTime
    /\ now' = now + 1
    /\ UNCHANGED <<challenges, nonces, tabs, sessions, restarts>>

\* The challenges and the requests are gone, the tokens are with the browsers.
Restart ==
    /\ restarts < MaxRestarts
    /\ restarts' = restarts + 1
    /\ nonces' = [w \in Addresses |-> 0]
    /\ tabs' = [t \in Tabs |-> IF tabs[t].pc = "checking" THEN NoTab ELSE tabs[t]]
    /\ UNCHANGED <<now, challenges, sessions>>

Next ==
    \/ \E t \in Tabs : NewChallenge(t) \/ Verify(t)
    \/ Tick
    \/ Restart

Spec == Init /\ [][Next]_vars

-----------------------------------------------------------------------------
(***************************************************************************)
(* Properties                                                              *)
(***************************************************************************)

\* Every session is of the account that its challenge was made for, and that
\* challenge had not expired when Verify looked it up, whatever other tabs ask
\* for and redeem, and however long the rest of Verify takes.
SignedInTime ==
    \A s \in sessions :
        /\ challenges[s.challenge] # None
        /\ s.address = challenges[s.challenge].address
        /\ s.asked <= challenges[s.challenge].expires

\* Without AUTH_SECRET a token that is accepted now is of a challenge that this very
\* run of the server made, in spite of signed messages, requests and tokens from
\* before a restart ("tokens will not survive server restart", auth/service.go:59).
AcceptedFromThisRun ==
    ~SecretIsSet => \A s \in Accepted : challenges[s.challenge].run = restarts

\* When a challenge was made and when a session was given out.
MadeAt(c) == challenges[c].expires - NonceTTL
RedeemedAt(s) == s.expires - SessionTTL

\* Until its "Expiration Time" (auth/service.go:254) the newest challenge of an address
\* that this run made is there to be redeemed, or was.  There is one exception: the
\* Verify of an older challenge of the same address, looked up before this one was
\* made and over after it, deletes the entry of the address.
ChallengeKept ==
    \A c \in Made \ {s.challenge : s \in sessions} :
        LET w == challenges[c].address IN
        /\ challenges[c].run = restarts
        /\ now <= challenges[c].expires
        /\ \A b \in Made : challenges[b].address = w => b <= c
        => \/ nonces[w] = c
           \/ \E s \in sessions :
                 /\ s.address = w /\ s.challenge < c
                 /\ s.asked <= MadeAt(c) /\ MadeAt(c) <= RedeemedAt(s)
=============================================================================

---------------------------- MODULE SignInProofs ----------------------------
(***************************************************************************)
(* Every session is of a challenge that was redeemed in time, and without  *)
(* AUTH_SECRET of the current run, and the newest challenge of an address  *)
(* is kept but for one race, for any number of tabs, accounts, challenges  *)
(* and restarts.                                                           *)
(***************************************************************************)
EXTENDS SignIn, TLAPS

\* What Verify has checked between its two critical sections.
TabsInv ==
    \A t \in Tabs :
        /\ tabs[t].pc # "idle" => tabs[t].challenge \in Made
        /\ tabs[t].pc = "checking" =>
               /\ tabs[t].asked <= challenges[tabs[t].challenge].expires
               /\ challenges[tabs[t].challenge].run = restarts

\* The map holds challenges of this run of the server only.
NoncesInv ==
    \A w \in Addresses :
        nonces[w] # 0 => nonces[w] \in Made /\ challenges[nonces[w]].run = restarts

\* What a token stands for; its secret tells the run that gave it out.
SessionsInv ==
    \A s \in sessions :
        /\ s.challenge \in Made
        /\ s.address = challenges[s.challenge].address
        /\ s.asked <= challenges[s.challenge].expires
        /\ ~SecretIsSet => s.secret = challenges[s.challenge].run + 1

Inv == TypeOK /\ TabsInv /\ NoncesInv /\ SessionsInv

USE SignInAssumption, NoneAssumption

-----------------------------------------------------------------------------

LEMMA ClockTypes == TypeOK => /\ now \in Nat /\ restarts \in Nat /\ ChallengeIds \subseteq Nat \ {0}
                              /\ \A c \in Made : c \in ChallengeIds /\ challenges[c] \in Challenge
  BY DEF TypeOK, ChallengeIds, Made

LEMMA CleanedTypes ==
    TypeOK => /\ Cleaned \in [Addresses -> ChallengeIds \cup {0}]
              /\ \A w \in Addresses : Cleaned[w] # 0 =>
                     Cleaned[w] = nonces[w] /\ now <= challenges[nonces[w]].expires
  BY DEF TypeOK, Cleaned

LEMMA InitInv == Init => Inv
  <1> SUFFICES ASSUME Init PROVE Inv
    OBVIOUS
  <1>1. TypeOK
    BY DEF Init, TypeOK, Tab, NoTab, Session
  <1> QED
    BY <1>1 DEF Init, Inv, TabsInv, NoncesInv, SessionsInv, NoTab, Made

\* The challenges that are there are never changed.
LEMMA NewChallengeInv ==
    ASSUME Inv, NEW t \in Tabs, NewChallenge(t)
    PROVE  Inv'
  <1> USE DEF Inv
  <1>1. PICK w \in Addresses, c \in ChallengeIds \ Made :
           /\ challenges' = [challenges EXCEPT ![c] =
                  [address |-> w, expires |-> now + NonceTTL, run |-> restarts]]
           /\ nonces' = [Cleaned EXCEPT ![w] = c]
           /\ tabs' = [tabs EXCEPT ![t] = [NoTab EXCEPT !.pc = "signed", !.challenge = c]]
    BY DEF NewChallenge
  <1>2. UNCHANGED <<now, sessions, restarts>>
    BY DEF NewChallenge
  <1> DEFINE new == [address |-> w, expires |-> now + NonceTTL, run |-> restarts]
  <1>3. new \in Challenge
    BY ClockTypes DEF Challenge
  <1>4. TypeOK'
    BY <1>1, <1>2, <1>3, CleanedTypes DEF TypeOK, Tab, NoTab
  <1>5. /\ \A d \in Made : d \in Made' /\ challenges'[d] = challenges[d]
        /\ c \in Made' /\ challenges'[c] = new
    BY <1>1, <1>3 DEF TypeOK, Made
  <1>6. TabsInv'
    BY <1>1, <1>2, <1>5 DEF TabsInv, TypeOK, NoTab, Tab
  <1>7. NoncesInv'
    <2> SUFFICES ASSUME NEW v \in Addresses, nonces'[v] # 0
                 PROVE  nonces'[v] \in Made' /\ challenges'[nonces'[v]].run = restarts
      BY <1>2 DEF NoncesInv
    <2>1. CASE v = w
      BY <2>1, <1>1, <1>5, CleanedTypes
    <2>2. CASE v # w
      BY <2>2, <1>1, <1>5, CleanedTypes DEF NoncesInv
    <2> QED
      BY <2>1, <2>2
  <1>8. SessionsInv'
    BY <1>2, <1>5 DEF SessionsInv
  <1> QED
    BY <1>4, <1>6, <1>7, <1>8

LEMMA VerifyLookupInv ==
    ASSUME Inv, NEW t \in Tabs, VerifyLookup(t)
    PROVE  Inv'
  <1> USE DEF Inv
  <1> DEFINE c == tabs[t].challenge
  <1>1. /\ tabs[t].pc = "signed" /\ nonces' = Cleaned
        /\ UNCHANGED <<now, challenges, sessions, restarts>>
        /\ tabs' = [tabs EXCEPT ![t] =
               IF Matches(c, Cleaned) THEN [@ EXCEPT !.pc = "checking", !.asked = now] ELSE NoTab]
    BY DEF VerifyLookup
  <1>2. c \in Made /\ challenges[c] \in Challenge /\ c # 0
    BY <1>1, ClockTypes DEF TabsInv
  <1>3. ASSUME Matches(c, Cleaned)
        PROVE  now <= challenges[c].expires /\ challenges[c].run = restarts
    <2>1. challenges[c].address \in Addresses /\ Cleaned[challenges[c].address] = c
      BY <1>2, <1>3 DEF Matches, Challenge
    <2> QED
      BY <2>1, <1>2, CleanedTypes DEF NoncesInv
  <1>4. TypeOK'
    BY <1>1, CleanedTypes, ClockTypes DEF TypeOK, Tab, NoTab
  <1>5. TabsInv'
    <2> SUFFICES ASSUME NEW u \in Tabs
                 PROVE  /\ tabs'[u].pc # "idle" => tabs'[u].challenge \in Made'
                        /\ tabs'[u].pc = "checking" =>
                               /\ tabs'[u].asked <= challenges'[tabs'[u].challenge].expires
                               /\ challenges'[tabs'[u].challenge].run = restarts'
      BY DEF TabsInv
    <2>1. Made' = Made
      BY <1>1 DEF Made
    <2>2. CASE u # t
      BY <2>1, <2>2, <1>1 DEF TabsInv, TypeOK
    <2>3. CASE u = t /\ Matches(c, Cleaned)
      BY <2>1, <2>3, <1>1, <1>2, <1>3 DEF TypeOK, Tab
    <2>4. CASE u = t /\ ~Matches(c, Cleaned)
      BY <2>4, <1>1 DEF TypeOK, NoTab
    <2> QED
      BY <2>2, <2>3, <2>4
  <1>6. NoncesInv'
    BY <1>1, CleanedTypes DEF NoncesInv, Made
  <1>7. SessionsInv'
    BY <1>1 DEF SessionsInv, Made
  <1> QED
    BY <1>4, <1>5, <1>6, <1>7

LEMMA VerifyRedeemInv ==
    ASSUME Inv, NEW t \in Tabs, VerifyRedeem(t)
    PROVE  Inv'
  <1> USE DEF Inv
  <1> DEFINE c == tabs[t].challenge
             w == challenges[c].address
             session == [address |-> w, challenge |-> c, asked |-> tabs[t].asked,
                         expires |-> now + SessionTTL, secret |-> secret]
  <1>1. /\ tabs[t].pc = "checking" /\ nonces' = [nonces EXCEPT ![w] = 0]
        /\ sessions' = sessions \cup {session}
        /\ tabs' = [tabs EXCEPT ![t] = NoTab]
        /\ UNCHANGED <<now, challenges, restarts>>
    BY DEF VerifyRedeem
  <1>2. /\ c \in Made /\ c \in ChallengeIds /\ challenges[c] \in Challenge
        /\ tabs[t].asked \in Nat /\ tabs[t].asked <= challenges[c].expires
        /\ challenges[c].run = restarts
    BY <1>1, ClockTypes DEF TabsInv, TypeOK, Tab
  <1>3. secret \in Nat /\ (~SecretIsSet => secret = restarts + 1)
    BY ClockTypes DEF secret
  <1>4. session \in Session
    BY <1>2, <1>3, ClockTypes DEF Session, Challenge
  <1>5. TypeOK'
    BY <1>1, <1>4 DEF TypeOK, Tab, NoTab
  <1>6. Made' = Made
    BY <1>1 DEF Made
  <1>7. TabsInv'
    BY <1>1, <1>6 DEF TabsInv, TypeOK, NoTab
  <1>8. NoncesInv'
    BY <1>1, <1>6 DEF NoncesInv, TypeOK
  <1>9. SessionsInv'
    <2> SUFFICES ASSUME NEW s \in sessions'
                 PROVE  /\ s.challenge \in Made
                        /\ s.address = challenges[s.challenge].address
                        /\ s.asked <= challenges[s.challenge].expires
                        /\ ~SecretIsSet => s.secret = challenges[s.challenge].run + 1
      BY <1>1, <1>6 DEF SessionsInv
    <2>1. CASE s \in sessions
      BY <2>1 DEF SessionsInv
    <2>2. CASE s = session
      BY <2>2, <1>2, <1>3
    <2> QED
      BY <2>1, <2>2, <1>1
  <1> QED
    BY <1>5, <1>7, <1>8, <1>9

LEMMA RestartInv == Inv /\ Restart => Inv'
  <1> SUFFICES ASSUME Inv, Restart PROVE Inv'
    OBVIOUS
  <1> USE DEF Inv, Restart
  <1>1. TypeOK'
    BY DEF TypeOK, Tab, NoTab
  <1>2. Made' = Made
    BY DEF Made
  <1>3. TabsInv'
    BY <1>2 DEF TabsInv, TypeOK, NoTab
  <1> QED
    BY <1>1, <1>2, <1>3 DEF NoncesInv, SessionsInv

THEOREM Invariance == Spec => []Inv
  <1>1. Inv /\ [Next]_vars => Inv'
    <2> SUFFICES ASSUME Inv, [Next]_vars PROVE Inv'
      OBVIOUS
    <2>1. ASSUME NEW t \in Tabs, NewChallenge(t) PROVE Inv'
      BY <2>1, NewChallengeInv
    <2>2. ASSUME NEW t \in Tabs, Verify(t) PROVE Inv'
      BY <2>2, VerifyLookupInv, VerifyRedeemInv DEF Verify
    <2>3. CASE Tick
      BY <2>3 DEF Tick, Inv, TypeOK, TabsInv, NoncesInv, SessionsInv, Made
    <2>4. CASE Restart
      BY <2>4, RestartInv
    <2>5. CASE UNCHANGED vars
      BY <2>5 DEF vars, Inv, TypeOK, TabsInv, NoncesInv, SessionsInv, Made
    <2> QED
      BY <2>1, <2>2, <2>3, <2>4, <2>5 DEF Next
  <1> QED
    BY <1>1, InitInv, PTL DEF Spec

\* The variables have their types.
THEOREM SignInTypeCorrect == Spec => []TypeOK
  <1>1. Inv => TypeOK
    BY DEF Inv
  <1> QED
    BY <1>1, Invariance, PTL

\* Every session is of the account and within the time of its challenge.
THEOREM SessionsInTime == Spec => []SignedInTime
  <1>1. Inv => SignedInTime
    BY DEF Inv, SessionsInv, SignedInTime, Made
  <1> QED
    BY <1>1, Invariance, PTL

\* Without AUTH_SECRET the server accepts tokens of its own run only.
THEOREM TokensOfThisRun == Spec => []AcceptedFromThisRun
  <1>1. Inv => AcceptedFromThisRun
    <2> SUFFICES ASSUME Inv, ~SecretIsSet, NEW s \in Accepted
                 PROVE  challenges[s.challenge].run = restarts
      BY DEF AcceptedFromThisRun
    <2>1. s \in sessions /\ s.secret = restarts + 1
      BY DEF Accepted, secret
    <2>2. s.secret = challenges[s.challenge].run + 1 /\ s.challenge \in Made
      BY <2>1 DEF Inv, SessionsInv
    <2>3. challenges[s.challenge].run \in Nat /\ restarts \in Nat
      BY <2>2, ClockTypes DEF Inv, Challenge
    <2> QED
      BY <2>1, <2>2, <2>3
  <1> QED
    BY <1>1, Invariance, PTL

-----------------------------------------------------------------------------

\* Challenges are numbered in the order they are made.
Ordered ==
    \A c \in Made :
        /\ NonceTTL <= challenges[c].expires /\ MadeAt(c) <= now
        /\ challenges[c].run <= restarts
        /\ \A b \in ChallengeIds : b < c => b \in Made

\* The map holds the newest challenge of an address.
NoncesAreNewest ==
    \A w \in Addresses : nonces[w] # 0 =>
        /\ challenges[nonces[w]].address = w
        /\ \A b \in Made : challenges[b].address = w => b <= nonces[w]

\* What is being checked was looked up before a newer challenge was made.
LookedUpBefore ==
    \A t \in Tabs : tabs[t].pc = "checking" =>
        /\ tabs[t].asked <= now
        /\ \A c \in Made :
               /\ challenges[c].address = challenges[tabs[t].challenge].address
               /\ tabs[t].challenge < c
               => tabs[t].asked <= MadeAt(c)

KeptInv == Ordered /\ NoncesAreNewest /\ LookedUpBefore /\ ChallengeKept

Newest(c) == \A b \in Made : challenges[b].address = challenges[c].address => b <= c

\* The exception of ChallengeKept.
Overtaken(c) ==
    \E s \in sessions :
        /\ s.address = challenges[c].address /\ s.challenge < c
        /\ s.asked <= MadeAt(c) /\ MadeAt(c) <= RedeemedAt(s)

LEMMA KeptForm ==
    ChallengeKept <=>
        \A c \in Made : /\ \A s \in sessions : s.challenge # c
                       /\ challenges[c].run = restarts
                       /\ now <= challenges[c].expires
                       /\ Newest(c)
                       => nonces[challenges[c].address] = c \/ Overtaken(c)
  BY DEF ChallengeKept, Newest, Overtaken

LEMMA InitKept == Init => KeptInv
  BY DEF Init, KeptInv, Ordered, NoncesAreNewest, LookedUpBefore, ChallengeKept, Made, NoTab

LEMMA NewChallengeKept ==
    ASSUME Inv, KeptInv, NEW t \in Tabs, NewChallenge(t)
    PROVE  KeptInv'
  <1> USE DEF Inv
  <1>1. PICK w \in Addresses, c \in ChallengeIds \ Made :
           /\ \A b \in ChallengeIds : b < c => b \in Made
           /\ challenges' = [challenges EXCEPT ![c] =
                  [address |-> w, expires |-> now + NonceTTL, run |-> restarts]]
           /\ nonces' = [Cleaned EXCEPT ![w] = c]
           /\ tabs' = [tabs EXCEPT ![t] = [NoTab EXCEPT !.pc = "signed", !.challenge = c]]
    BY DEF NewChallenge
  <1>2. UNCHANGED <<now, sessions, restarts>>
    BY DEF NewChallenge
  <1> DEFINE new == [address |-> w, expires |-> now + NonceTTL, run |-> restarts]
  <1>3. new \in Challenge
    BY ClockTypes DEF Challenge
  <1>4. /\ Made' = Made \cup {c} /\ challenges'[c] = new
        /\ \A d \in Made : challenges'[d] = challenges[d]
    BY <1>1, <1>3 DEF TypeOK, Made
  <1>nonces. nonces'[w] = c /\ \A v \in Addresses \ {w} : nonces'[v] = Cleaned[v]
    BY <1>1, CleanedTypes
  <1>5. \A d \in Made : d < c
    BY <1>1, ClockTypes DEF KeptInv, Ordered, ChallengeIds
  <1>6. MadeAt(c)' = now /\ \A d \in Made : MadeAt(d)' = MadeAt(d)
    BY <1>4, ClockTypes DEF MadeAt
  <1>7. Ordered'
    BY <1>1, <1>2, <1>4, <1>6, ClockTypes DEF KeptInv, Ordered
  <1>8. NoncesAreNewest'
    <2> SUFFICES ASSUME NEW v \in Addresses, nonces'[v] # 0
                 PROVE  /\ challenges'[nonces'[v]].address = v
                        /\ \A b \in Made' : challenges'[b].address = v => b <= nonces'[v]
      BY DEF NoncesAreNewest
    <2>1. CASE v = w
      <3>1. nonces'[v] = c /\ challenges'[c].address = w
        BY <2>1, <1>nonces, <1>4
      <3>2. \A b \in Made' : b <= c
        BY <1>4, <1>5, ClockTypes
      <3> QED
        BY <2>1, <3>1, <3>2
    <2>2. CASE v # w
      <3>1. nonces'[v] = nonces[v] /\ nonces[v] # 0 /\ nonces[v] \in Made
        BY <2>2, <1>1, CleanedTypes DEF NoncesInv
      <3> QED
        BY <2>2, <3>1, <1>4 DEF KeptInv, NoncesAreNewest
    <2> QED
      BY <2>1, <2>2
  <1>9. LookedUpBefore'
    <2> SUFFICES ASSUME NEW u \in Tabs, tabs'[u].pc = "checking"
                 PROVE  /\ tabs'[u].asked <= now'
                        /\ \A d \in Made' :
                               /\ challenges'[d].address = challenges'[tabs'[u].challenge].address
                               /\ tabs'[u].challenge < d
                               => tabs'[u].asked <= MadeAt(d)'
      BY DEF LookedUpBefore
    <2>1. u # t /\ tabs'[u] = tabs[u] /\ tabs[u].challenge \in Made
      BY <1>1 DEF NoTab, TypeOK, TabsInv
    <2>2. tabs[u].asked <= now
      BY <2>1 DEF KeptInv, LookedUpBefore
    <2>3. ASSUME NEW d \in Made', challenges'[d].address = challenges'[tabs'[u].challenge].address,
                 tabs'[u].challenge < d
          PROVE  tabs'[u].asked <= MadeAt(d)'
      <3>1. CASE d \in Made
        BY <2>1, <2>3, <3>1, <1>4, <1>6 DEF KeptInv, LookedUpBefore
      <3>2. CASE d = c
        BY <2>1, <2>2, <3>2, <1>6
      <3> QED
        BY <3>1, <3>2, <1>4
    <2> QED
      BY <2>1, <2>2, <2>3, <1>2
  <1>10. ChallengeKept'
    <2> SUFFICES ASSUME NEW d \in Made', \A s \in sessions' : s.challenge # d,
                        challenges'[d].run = restarts', now' <= challenges'[d].expires,
                        Newest(d)'
                 PROVE  nonces'[challenges'[d].address] = d \/ Overtaken(d)'
      BY DEF ChallengeKept, Newest, Overtaken
    <2>1. CASE d = c
      BY <2>1, <1>nonces, <1>4
    <2>2. CASE d \in Made
      <3> DEFINE v == challenges[d].address
      <3>1. v # w
        BY <2>2, <1>4, <1>5, ClockTypes DEF Newest
      <3>2. Newest(d)
        BY <2>2, <1>4 DEF Newest
      <3>3. nonces[v] = d \/ Overtaken(d)
        BY <2>2, <3>2, <1>2, <1>4, KeptForm DEF KeptInv
      <3>4. ASSUME nonces[v] = d PROVE nonces'[v] = d
        <4>1. v \in Addresses /\ d # 0 /\ d \in ChallengeIds
          BY <2>2, ClockTypes DEF Challenge
        <4>2. Cleaned[v] = d
          BY <3>4, <4>1, <2>2, <1>2, <1>4 DEF Cleaned
        <4> QED
          BY <3>1, <4>1, <4>2, <1>1, CleanedTypes
      <3>5. Overtaken(d) => Overtaken(d)'
        BY <2>2, <1>2, <1>4, <1>6 DEF Overtaken, RedeemedAt
      <3> QED
        BY <3>3, <3>4, <3>5, <2>2, <1>4
    <2> QED
      BY <2>1, <2>2, <1>4
  <1> QED
    BY <1>7, <1>8, <1>9, <1>10 DEF KeptInv

LEMMA VerifyLookupKept ==
    ASSUME Inv, KeptInv, NEW t \in Tabs, VerifyLookup(t)
    PROVE  KeptInv'
  <1> USE DEF Inv
  <1> DEFINE c == tabs[t].challenge
  <1>1. /\ tabs[t].pc = "signed" /\ nonces' = Cleaned
        /\ UNCHANGED <<now, challenges, sessions, restarts>>
        /\ tabs' = [tabs EXCEPT ![t] =
               IF Matches(c, Cleaned) THEN [@ EXCEPT !.pc = "checking", !.asked = now] ELSE NoTab]
    BY DEF VerifyLookup
  <1>2. Made' = Made /\ \A d : MadeAt(d)' = MadeAt(d)
    BY <1>1 DEF Made, MadeAt
  <1>3. Ordered'
    BY <1>1, <1>2 DEF KeptInv, Ordered
  <1>4. NoncesAreNewest'
    BY <1>1, <1>2, CleanedTypes DEF KeptInv, NoncesAreNewest
  <1>5. LookedUpBefore'
    <2> SUFFICES ASSUME NEW u \in Tabs, tabs'[u].pc = "checking"
                 PROVE  /\ tabs'[u].asked <= now
                        /\ \A d \in Made :
                               /\ challenges[d].address = challenges[tabs'[u].challenge].address
                               /\ tabs'[u].challenge < d
                               => tabs'[u].asked <= MadeAt(d)
      BY <1>1, <1>2 DEF LookedUpBefore
    <2>1. CASE u # t
      <3>1. tabs'[u] = tabs[u]
        BY <2>1, <1>1 DEF TypeOK
      <3> QED
        BY <3>1 DEF KeptInv, LookedUpBefore
    <2>2. CASE u = t
      <3>1. Matches(c, Cleaned) /\ tabs'[u].challenge = c /\ tabs'[u].asked = now
        BY <2>2, <1>1 DEF TypeOK, Tab, NoTab
      <3>2. c \in Made /\ c # 0 /\ challenges[c].address \in Addresses
        BY <1>1, ClockTypes DEF TabsInv, Challenge
      <3>3. nonces[challenges[c].address] = c
        BY <3>1, <3>2, CleanedTypes DEF Matches
      <3>4. \A d \in Made : challenges[d].address = challenges[c].address => ~(c < d)
        BY <3>2, <3>3, ClockTypes DEF KeptInv, NoncesAreNewest
      <3> QED
        BY <3>1, <3>4, ClockTypes
    <2> QED
      BY <2>1, <2>2
  <1>6. ChallengeKept'
    <2> SUFFICES ASSUME NEW d \in Made, \A s \in sessions : s.challenge # d,
                        challenges[d].run = restarts, now <= challenges[d].expires, Newest(d)
                 PROVE  Cleaned[challenges[d].address] = d \/ Overtaken(d)
      BY <1>1, <1>2 DEF ChallengeKept, Newest, Overtaken, RedeemedAt
    <2>1. nonces[challenges[d].address] = d \/ Overtaken(d)
      BY KeptForm DEF KeptInv
    <2>2. challenges[d].address \in Addresses /\ d # 0
      BY ClockTypes DEF Challenge
    <2> QED
      BY <2>1, <2>2 DEF Cleaned
  <1> QED
    BY <1>3, <1>4, <1>5, <1>6 DEF KeptInv

\* The one step that may delete a challenge that is still good.
LEMMA VerifyRedeemKept ==
    ASSUME Inv, KeptInv, NEW t \in Tabs, VerifyRedeem(t)
    PROVE  KeptInv'
  <1> USE DEF Inv
  <1> DEFINE c == tabs[t].challenge
             w == challenges[c].address
             session == [address |-> w, challenge |-> c, asked |-> tabs[t].asked,
                         expires |-> now + SessionTTL, secret |-> secret]
  <1>1. /\ tabs[t].pc = "checking" /\ nonces' = [nonces EXCEPT ![w] = 0]
        /\ sessions' = sessions \cup {session}
        /\ tabs' = [tabs EXCEPT ![t] = NoTab]
        /\ UNCHANGED <<now, challenges, restarts>>
    BY DEF VerifyRedeem
  <1>2. Made' = Made /\ \A d : MadeAt(d)' = MadeAt(d)
    BY <1>1 DEF Made, MadeAt
  <1>3. Ordered'
    BY <1>1, <1>2 DEF KeptInv, Ordered
  <1>4. NoncesAreNewest'
    BY <1>1, <1>2 DEF KeptInv, NoncesAreNewest, TypeOK
  <1>5. LookedUpBefore'
    <2> SUFFICES ASSUME NEW u \in Tabs, tabs'[u].pc = "checking"
                 PROVE  tabs'[u] = tabs[u]
      BY <1>1, <1>2 DEF KeptInv, LookedUpBefore
    <2> QED
      BY <1>1 DEF NoTab, TypeOK
  <1>6. ChallengeKept'
    <2> SUFFICES ASSUME NEW d \in Made, \A s \in sessions' : s.challenge # d,
                        challenges[d].run = restarts, now <= challenges[d].expires, Newest(d)
                 PROVE  nonces'[challenges[d].address] = d \/ Overtaken(d)'
      BY <1>1, <1>2 DEF ChallengeKept, Newest, Overtaken
    <2>1. nonces[challenges[d].address] = d \/ Overtaken(d)
      BY <1>1, KeptForm DEF KeptInv
    <2>2. Overtaken(d) => Overtaken(d)'
      BY <1>1, <1>2 DEF Overtaken, RedeemedAt
    <2>3. CASE challenges[d].address # w
      BY <2>1, <2>2, <2>3, <1>1 DEF TypeOK
    <2>4. CASE challenges[d].address = w
      <3>1. c \in Made /\ tabs[t].asked \in Nat /\ c \in Nat /\ d \in Nat
        BY <1>1, ClockTypes DEF TabsInv, TypeOK, Tab
      <3>2. session \in sessions' /\ session.challenge = c
        BY <1>1
      <3>3. c < d
        BY <3>1, <3>2, <2>4 DEF Newest
      <3>4. tabs[t].asked <= MadeAt(d)
        BY <3>3, <2>4, <1>1 DEF KeptInv, LookedUpBefore
      <3>5. MadeAt(d) <= now
        BY DEF KeptInv, Ordered
      <3>6. session.expires - SessionTTL = now
        BY ClockTypes
      <3> QED
        BY <3>2, <3>3, <3>4, <3>5, <3>6, <2>4, <1>1, <1>2 DEF Overtaken, RedeemedAt
    <2> QED
      BY <2>3, <2>4
  <1> QED
    BY <1>3, <1>4, <1>5, <1>6 DEF KeptInv

\* Time passes.
LEMMA TickKept == Inv /\ KeptInv /\ Tick => KeptInv'
  <1> SUFFICES ASSUME Inv, KeptInv, Tick PROVE KeptInv'
    OBVIOUS
  <1>1. /\ now' = now + 1 /\ now \in Nat /\ Made' = Made
        /\ UNCHANGED <<challenges, nonces, tabs, sessions, restarts>>
        /\ \A d : MadeAt(d)' = MadeAt(d)
    BY ClockTypes DEF Tick, Inv, Made, MadeAt
  <1>2. \A d \in Made : challenges[d].expires \in Nat
    BY ClockTypes DEF Inv, Challenge
  <1>3. Ordered'
    <2>1. \A c \in Made : MadeAt(c) <= now => MadeAt(c) <= now + 1
      BY <1>1, <1>2 DEF MadeAt
    <2> QED
      BY <1>1, <2>1 DEF KeptInv, Ordered
  <1>4. NoncesAreNewest'
    BY <1>1 DEF KeptInv, NoncesAreNewest
  <1>5. LookedUpBefore'
    BY <1>1 DEF KeptInv, LookedUpBefore, Inv, TypeOK, Tab
  <1>6. ChallengeKept'
    BY <1>1, <1>2 DEF KeptInv, ChallengeKept, RedeemedAt
  <1> QED
    BY <1>3, <1>4, <1>5, <1>6 DEF KeptInv

\* No challenge is of the new run.
LEMMA RestartKept == Inv /\ KeptInv /\ Restart => KeptInv'
  <1> SUFFICES ASSUME Inv, KeptInv, Restart PROVE KeptInv'
    OBVIOUS
  <1>1. /\ restarts' = restarts + 1 /\ restarts \in Nat /\ Made' = Made
        /\ UNCHANGED <<now, challenges, sessions>>
        /\ \A d : MadeAt(d)' = MadeAt(d)
        /\ \A d \in Made : challenges[d].run \in Nat
    BY ClockTypes DEF Restart, Inv, Made, MadeAt, Challenge
  <1>2. Ordered'
    BY <1>1 DEF KeptInv, Ordered
  <1>3. NoncesAreNewest'
    BY DEF Restart, NoncesAreNewest
  <1>4. LookedUpBefore'
    BY DEF Restart, LookedUpBefore, NoTab, Inv, TypeOK
  <1>5. ChallengeKept'
    BY <1>1 DEF KeptInv, Ordered, ChallengeKept
  <1> QED
    BY <1>2, <1>3, <1>4, <1>5 DEF KeptInv

\* A challenge is kept until it is used or expires, but for one race.
THEOREM ChallengesKept == Spec => []ChallengeKept
  <1>1. Inv /\ KeptInv /\ [Next]_vars => KeptInv'
    <2> SUFFICES ASSUME Inv, KeptInv, [Next]_vars PROVE KeptInv'
      OBVIOUS
    <2>1. ASSUME NEW t \in Tabs, NewChallenge(t) PROVE KeptInv'
      BY <2>1, NewChallengeKept
    <2>2. ASSUME NEW t \in Tabs, Verify(t) PROVE KeptInv'
      BY <2>2, VerifyLookupKept, VerifyRedeemKept DEF Verify
    <2>3. CASE Tick
      BY <2>3, TickKept
    <2>4. CASE Restart
      BY <2>4, RestartKept
    <2>5. CASE UNCHANGED vars
      BY <2>5 DEF vars, KeptInv, Ordered, NoncesAreNewest, LookedUpBefore, ChallengeKept, Made,
                  MadeAt, RedeemedAt
    <2> QED
      BY <2>1, <2>2, <2>3, <2>4, <2>5 DEF Next
  <1>2. KeptInv => ChallengeKept
    BY DEF KeptInv
  <1> QED
    BY <1>1, <1>2, Invariance, InitKept, PTL DEF Spec
=============================================================================

-------------------------- MODULE SuperPlatformProofs --------------------------
(***************************************************************************)
(* Theorems about SuperPlatform, for every bound and every combination of  *)
(* faults.                                                                 *)
(***************************************************************************)
EXTENDS SuperPlatform, TLAPS

-------------------------------------------------------------------------------
\* The inductive invariant

(* Something is on its way that a 2xx already accepted cannot end: it will   *)
(* make the platform register.                                               *)
Owes(r, acc) == \/ r.tx["logout"] > 0 \/ r.tx["login"] > acc["login"]
                \/ r.delayed["login"] > 0 \/ r.delayed["logout"] > 0
                \/ r.relogin > 0 \/ r.resolving > 0

RunningIsHeld == p.running => held

LogoutGoesOn == p.running /\ remote = "out" => Owes(p, accepted)

OfflineGoesOn == p.running /\ p.status # "online" => ~Settled(p)

IInv == TypeOK /\ RunningIsHeld /\ KeepsTrying /\ LogoutGoesOn /\ OfflineGoesOn

(* No link of r is missing in t. *)
Grows(r, t) ==
    /\ t.running = r.running
    /\ \A k \in Kinds : t.tx[k] >= r.tx[k] /\ t.delayed[k] >= r.delayed[k]
    /\ t.relogin >= r.relogin /\ t.resolving >= r.resolving

(* What every continuation does: a link more. *)
Carries(r, t) ==
    /\ Grows(r, t)
    /\ \/ \E k \in Kinds : t.tx[k] > r.tx[k] \/ t.delayed[k] > r.delayed[k]
       \/ t.relogin > r.relogin
       \/ t.resolving > r.resolving

-------------------------------------------------------------------------------
\* The pieces of the handlers

LEMMA CarriesOn ==
    ASSUME NEW r \in PlatformState, NEW t \in PlatformState, NEW acc \in [Kinds -> Nat],
           \A k \in Kinds : acc[k] <= r.tx[k],
           Carries(r, t)
    PROVE  /\ Chains(t) > 0 /\ ~Settled(t) /\ Owes(t, acc)
           /\ \A k \in Kinds : acc[k] <= t.tx[k]
<1>1. /\ r.tx["login"] \in Nat /\ r.tx["logout"] \in Nat
      /\ r.delayed["login"] \in Nat /\ r.delayed["logout"] \in Nat
      /\ r.relogin \in Nat /\ r.resolving \in Nat
      /\ t.tx["login"] \in Nat /\ t.tx["logout"] \in Nat
      /\ t.delayed["login"] \in Nat /\ t.delayed["logout"] \in Nat
      /\ t.relogin \in Nat /\ t.resolving \in Nat
      /\ acc["login"] \in Nat /\ acc["logout"] \in Nat
  BY DEF PlatformState, Kinds
<1>2. /\ t.tx["login"] >= r.tx["login"] /\ t.tx["logout"] >= r.tx["logout"]
      /\ t.delayed["login"] >= r.delayed["login"] /\ t.delayed["logout"] >= r.delayed["logout"]
      /\ t.relogin >= r.relogin /\ t.resolving >= r.resolving
      /\ acc["login"] <= r.tx["login"] /\ acc["logout"] <= r.tx["logout"]
  BY DEF Carries, Grows, Kinds
<1>3. \/ t.tx["login"] > r.tx["login"] \/ t.tx["logout"] > r.tx["logout"]
      \/ t.delayed["login"] > r.delayed["login"] \/ t.delayed["logout"] > r.delayed["logout"]
      \/ t.relogin > r.relogin \/ t.resolving > r.resolving
  BY DEF Carries, Kinds
<1>4. Chains(t) > 0
  BY <1>1, <1>2, <1>3 DEF Chains
<1>5. ~Settled(t)
  <2> SUFFICES ASSUME Settled(t) PROVE FALSE
    OBVIOUS
  <2>1. /\ t.tx["login"] = 0 /\ t.tx["logout"] = 0
        /\ t.delayed["login"] = 0 /\ t.delayed["logout"] = 0
        /\ t.relogin = 0 /\ t.resolving = 0
    BY <1>1 DEF Settled
  <2> QED BY <1>1, <1>2, <1>3, <2>1
<1>6. Owes(t, acc)
  BY <1>1, <1>2, <1>3 DEF Owes
<1>7. \A k \in Kinds : acc[k] <= t.tx[k]
  BY <1>1, <1>2 DEF Kinds
<1> QED BY <1>4, <1>5, <1>6, <1>7

LEMMA DelayCarries ==
    ASSUME NEW r \in PlatformState, NEW k \in Kinds
    PROVE  Delay(r, k) \in PlatformState /\ Carries(r, Delay(r, k))
<1>1. Delay(r, k) \in PlatformState
  BY DEF Delay, PlatformState
<1>2. /\ Delay(r, k).running = r.running /\ Delay(r, k).tx = r.tx
      /\ Delay(r, k).relogin = r.relogin /\ Delay(r, k).resolving = r.resolving
      /\ Delay(r, k).delayed = [r.delayed EXCEPT ![k] = @ + 1]
  BY DEF Delay, PlatformState
<1>3. r.delayed \in [Kinds -> Nat] /\ r.tx \in [Kinds -> Nat] /\ r.relogin \in Nat /\ r.resolving \in Nat
  BY DEF PlatformState
<1> QED BY <1>1, <1>2, <1>3 DEF Carries, Grows

LEMMA ToRegisterCarries ==
    ASSUME NEW r \in PlatformState, NEW k \in Kinds
    PROVE  /\ ToRegister(r, k) \in PlatformState
           /\ Grows(r, ToRegister(r, k))
           /\ r.running \/ k = "logout" => Carries(r, ToRegister(r, k))
<1>3. /\ r.delayed \in [Kinds -> Nat] /\ r.tx \in [Kinds -> Nat]
      /\ r.relogin \in Nat /\ r.resolving \in Nat
  BY DEF PlatformState
<1>1. CASE k = "login" /\ ~r.running
  <2>1. ToRegister(r, k) = [r EXCEPT !.refresh = FALSE]
    BY <1>1 DEF ToRegister
  <2>2. [r EXCEPT !.refresh = FALSE] \in PlatformState
    BY DEF PlatformState
  <2>3. Grows(r, [r EXCEPT !.refresh = FALSE])
    BY <1>3 DEF Grows, PlatformState
  <2> QED BY <1>1, <2>1, <2>2, <2>3
<1>2. CASE ~(k = "login" /\ ~r.running)
  <2> DEFINE n == [r.tx EXCEPT ![k] = @ + 1]
             st == IF r.status = "online" THEN r.status ELSE "registering"
             t == [r EXCEPT !.refresh = FALSE, !.tx = n, !.status = st]
  <2>1. ToRegister(r, k) = t
    BY <1>2 DEF ToRegister
  <2>2. t \in PlatformState
    <3>1. n \in [Kinds -> Nat]
      BY <1>3
    <3>2. st \in StatusTypes
      BY DEF StatusTypes
    <3> HIDE DEF n, st
    <3> QED BY <3>1, <3>2 DEF PlatformState
  <2>4. /\ t.running = r.running /\ t.delayed = r.delayed
        /\ t.relogin = r.relogin /\ t.resolving = r.resolving
        /\ t.tx = [r.tx EXCEPT ![k] = @ + 1]
    BY DEF PlatformState
  <2> HIDE DEF t
  <2>5. Carries(r, t)
    BY <1>3, <2>4 DEF Carries, Grows
  <2> QED BY <2>1, <2>2, <2>5 DEF Carries
<1> QED BY <1>1, <1>2

LEMMA StartLCarries ==
    ASSUME NEW r \in PlatformState, NEW b \in BOOLEAN
    PROVE  StartL(r, b) \in PlatformState /\ Carries(r, StartL(r, b))
<1>1. CASE b
  <2>1. StartL(r, b) = [r EXCEPT !.resolving = @ + 1]
    BY <1>1 DEF StartL
  <2>2. [r EXCEPT !.resolving = @ + 1] \in PlatformState
    BY DEF PlatformState
  <2>3. Carries(r, [r EXCEPT !.resolving = @ + 1])
    BY DEF Carries, Grows, PlatformState
  <2> QED BY <2>1, <2>2, <2>3
<1>2. CASE ~b
  BY <1>2, ToRegisterCarries DEF StartL, Kinds
<1> QED BY <1>1, <1>2

LEMMA AfterRefusalCarries ==
    ASSUME NEW r \in PlatformState, NEW k \in Kinds, NEW b \in BOOLEAN
    PROVE  AfterRefusal(r, k, b) \in PlatformState /\ Carries(r, AfterRefusal(r, k, b))
<1>1. CASE r.moved
  <2> DEFINE s == [r EXCEPT !.moved = FALSE]
  <2>1. /\ s \in PlatformState /\ s.running = r.running /\ s.tx = r.tx /\ s.delayed = r.delayed
        /\ s.relogin = r.relogin /\ s.resolving = r.resolving
    BY DEF PlatformState
  <2>2. AfterRefusal(r, k, b) = StartL(s, b)
    BY <1>1 DEF AfterRefusal
  <2> HIDE DEF s
  <2>3. StartL(s, b) \in PlatformState /\ Carries(s, StartL(s, b))
    BY <2>1, StartLCarries
  <2> QED BY <2>1, <2>2, <2>3 DEF Carries, Grows
<1>2. CASE ~r.moved
  BY <1>2, DelayCarries DEF AfterRefusal
<1> QED BY <1>1, <1>2

LEMMA Reflexive ==
    ASSUME NEW r \in PlatformState
    PROVE  Grows(r, r)
<1>1. /\ r.delayed \in [Kinds -> Nat] /\ r.tx \in [Kinds -> Nat]
      /\ r.relogin \in Nat /\ r.resolving \in Nat
  BY DEF PlatformState
<1> QED BY <1>1 DEF Grows

(* A transaction that has ended leaves the other links alone. *)
LEMMA RepliedFields ==
    ASSUME TypeOK, NEW k \in Kinds, p.tx[k] > 0
    PROVE  /\ Replied(k) \in PlatformState
           /\ Replied(k).running = p.running
           /\ Replied(k).tx = [p.tx EXCEPT ![k] = @ - 1]
<1> DEFINE n == [p.tx EXCEPT ![k] = @ - 1]
<1>1. p \in PlatformState
  BY DEF TypeOK
<1>2. p.tx \in [Kinds -> Nat]
  BY <1>1 DEF PlatformState
<1>3. n \in [Kinds -> Nat]
  BY <1>2
<1>4. Replied(k) = [p EXCEPT !.tx = n]
  BY DEF Replied
<1> HIDE DEF n
<1>5. /\ [p EXCEPT !.tx = n] \in PlatformState
      /\ [p EXCEPT !.tx = n].running = p.running
      /\ [p EXCEPT !.tx = n].tx = n
  BY <1>1, <1>3 DEF PlatformState
<1> QED BY <1>4, <1>5 DEF n

(* The 2xx that are left belong to the transactions that are left. *)
LEMMA WaitingEnds ==
    ASSUME TypeOK, NEW k \in Kinds, Waiting(k)
    PROVE  /\ Replied(k) \in PlatformState
           /\ Replied(k).running = p.running
           /\ \A j \in Kinds : accepted[j] <= Replied(k).tx[j]
<1>1. /\ p.tx \in [Kinds -> Nat] /\ accepted \in [Kinds -> Nat]
      /\ \A j \in Kinds : accepted[j] <= p.tx[j]
  BY DEF TypeOK, PlatformState
<1>2. p.tx[k] > accepted[k] /\ p.tx[k] > 0
  BY <1>1 DEF Waiting
<1>3. Replied(k).tx = [p.tx EXCEPT ![k] = @ - 1]
  BY <1>2, RepliedFields
<1>4. \A j \in Kinds : accepted[j] <= Replied(k).tx[j]
  BY <1>1, <1>2, <1>3
<1> QED BY <1>2, <1>4, RepliedFields

LEMMA AcceptedEnds ==
    ASSUME TypeOK, NEW k \in Kinds, TakesAccepted(k)
    PROVE  /\ Replied(k) \in PlatformState
           /\ Replied(k).running = p.running
           /\ accepted' \in [Kinds -> Nat]
           /\ \A j \in Kinds : accepted'[j] <= Replied(k).tx[j]
<1>1. /\ p.tx \in [Kinds -> Nat] /\ accepted \in [Kinds -> Nat]
      /\ \A j \in Kinds : accepted[j] <= p.tx[j]
  BY DEF TypeOK, PlatformState
<1>2. /\ accepted[k] > 0 /\ p.tx[k] > 0
      /\ accepted' = [accepted EXCEPT ![k] = @ - 1]
  BY <1>1 DEF TakesAccepted
<1>3. Replied(k).tx = [p.tx EXCEPT ![k] = @ - 1]
  BY <1>2, RepliedFields
<1>4. accepted' \in [Kinds -> Nat]
  BY <1>1, <1>2
<1>5. \A j \in Kinds : accepted'[j] <= Replied(k).tx[j]
  BY <1>1, <1>2, <1>3
<1> QED BY <1>2, <1>4, <1>5, RepliedFields

-------------------------------------------------------------------------------
\* The shapes of a step

(* A handler takes a link, which leaves r, and makes the next one, at least  *)
(* for a platform that is running.                                           *)
LEMMA Continued ==
    ASSUME IInv,
           NEW r \in PlatformState,
           r.running => held,
           accepted' \in [Kinds -> Nat],
           \A k \in Kinds : accepted'[k] <= r.tx[k],
           p' \in PlatformState,
           Grows(r, p'),
           r.running => Carries(r, p'),
           UNCHANGED <<held, remote>>,
           loggingOut' \in BOOLEAN,
           starts' \in 0..MaxStarts
    PROVE  IInv'
<1>1. p'.running = r.running
  BY DEF Grows
<1>2. \A k \in Kinds : accepted'[k] <= p'.tx[k]
  <2>1. /\ r.tx \in [Kinds -> Nat] /\ p'.tx \in [Kinds -> Nat]
    BY DEF PlatformState
  <2> QED BY <2>1 DEF Grows
<1>3. TypeOK'
  BY <1>2 DEF IInv, TypeOK
<1>4. r.running => Chains(p') > 0 /\ ~Settled(p') /\ Owes(p', accepted')
  BY CarriesOn
<1> QED BY <1>1, <1>3, <1>4
        DEF IInv, RunningIsHeld, KeepsTrying, LogoutGoesOn, OfflineGoesOn

(* A keepalive that changes no link. *)
LEMMA Unlinked ==
    ASSUME IInv,
           p' \in PlatformState,
           p'.tx = p.tx, p'.delayed = p.delayed, p'.refresh = p.refresh,
           p'.relogin = p.relogin, p'.resolving = p.resolving,
           p'.running = p.running, p'.status = p.status,
           UNCHANGED <<held, remote, accepted, starts, loggingOut>>
    PROVE  IInv'
<1>1. TypeOK'
  BY DEF IInv, TypeOK
<1>2. Chains(p') = Chains(p)
  BY DEF Chains
<1>3. Settled(p') <=> Settled(p)
  BY DEF Settled
<1>4. Owes(p', accepted') <=> Owes(p, accepted)
  BY DEF Owes
<1> QED BY <1>1, <1>2, <1>3, <1>4
        DEF IInv, RunningIsHeld, KeepsTrying, LogoutGoesOn, OfflineGoesOn

-------------------------------------------------------------------------------
\* The actions

LEMMA Facts ==
    ASSUME IInv
    PROVE  /\ TypeOK /\ p \in PlatformState
           /\ p.running => held
           /\ accepted \in [Kinds -> Nat]
           /\ \A k \in Kinds : accepted[k] <= p.tx[k]
           /\ loggingOut \in BOOLEAN /\ starts \in 0..MaxStarts
BY DEF IInv, TypeOK, RunningIsHeld

LEMMA StartStep ==
    ASSUME IInv, NEW b \in BOOLEAN, Start(b)
    PROVE  IInv'
<1> DEFINE r == [p EXCEPT !.running = TRUE]
<1>1. r \in PlatformState /\ r.tx = p.tx
  BY Facts DEF PlatformState
<1>2. /\ held /\ p' = StartL(r, b) /\ starts' = starts + 1 /\ starts < MaxStarts
      /\ loggingOut' = FALSE /\ UNCHANGED <<held, remote, accepted>>
  BY DEF Start
<1> HIDE DEF r
<1>3. p' \in PlatformState /\ Carries(r, p')
  BY <1>1, <1>2, StartLCarries
<1>4. starts' \in 0..MaxStarts
  BY <1>2, Facts, SuperAssumption DEF SuperAssumption
<1> QED BY <1>1, <1>2, <1>3, <1>4, Facts, Continued DEF Carries

LEMMA ShutdownStep ==
    ASSUME IInv, Shutdown
    PROVE  IInv'
<1> DEFINE r == [p EXCEPT !.running = FALSE]
<1>1. r \in PlatformState /\ r.tx = p.tx /\ ~r.running
  BY Facts DEF PlatformState
<1>2. /\ p' = IF r.status = "online" THEN ToRegister(r, "logout") ELSE r
      /\ loggingOut' \in BOOLEAN /\ UNCHANGED <<held, remote, accepted, starts>>
  BY DEF Shutdown
<1> HIDE DEF r
<1>3. p' \in PlatformState /\ Grows(r, p')
  BY <1>1, <1>2, ToRegisterCarries, Reflexive DEF Kinds
<1> QED BY <1>1, <1>2, <1>3, Facts, Continued

LEMMA ReleaseStep ==
    ASSUME IInv, Release
    PROVE  IInv'
<1>1. ~p.running /\ p' = p /\ held' = FALSE /\ UNCHANGED <<remote, accepted, starts, loggingOut>>
  BY DEF Release
<1>2. TypeOK'
  BY <1>1 DEF IInv, TypeOK
<1> QED BY <1>1, <1>2 DEF RunningIsHeld, KeepsTrying, LogoutGoesOn, OfflineGoesOn, IInv

LEMMA ProcessStep ==
    ASSUME IInv, NEW k \in Kinds, Process(k)
    PROVE  IInv'
<1>1. /\ accepted' = [accepted EXCEPT ![k] = @ + 1] /\ p.tx[k] > accepted[k]
      /\ remote' = (IF k = "login" THEN "in" ELSE "out")
      /\ UNCHANGED <<p, held, starts, loggingOut>>
  BY DEF Process, Waiting
<1>2. p.tx \in [Kinds -> Nat]
  BY Facts DEF PlatformState
<1>3. /\ accepted' \in [Kinds -> Nat]
      /\ \A j \in Kinds : accepted'[j] <= p.tx[j]
  BY <1>1, <1>2, Facts
<1>4. TypeOK'
  BY <1>1, <1>3 DEF IInv, TypeOK
<1>5. RunningIsHeld' /\ KeepsTrying' /\ OfflineGoesOn'
  BY <1>1 DEF IInv, RunningIsHeld, KeepsTrying, OfflineGoesOn
<1>6. LogoutGoesOn'
  <2>1. CASE k = "login"
    BY <1>1, <2>1 DEF LogoutGoesOn
  <2>2. CASE k = "logout"
    <3>1. p'.tx["logout"] > 0
      BY <1>1, <1>2, <2>2, Facts DEF Kinds
    <3> QED BY <3>1 DEF LogoutGoesOn, Owes
  <2> QED BY <2>1, <2>2 DEF Kinds
<1> QED BY <1>4, <1>5, <1>6 DEF IInv

LEMMA ForgetStep ==
    ASSUME IInv, Forget
    PROVE  IInv'
<1>1. remote' = "forgotten" /\ UNCHANGED <<p, held, accepted, starts, loggingOut>>
  BY DEF Forget
<1>2. TypeOK'
  BY <1>1 DEF IInv, TypeOK
<1> QED BY <1>1, <1>2 DEF IInv, RunningIsHeld, KeepsTrying, LogoutGoesOn, OfflineGoesOn

(* A transaction that fails: nobody wants the platform, or it goes on from a *)
(* record that differs in its status and counters only.                      *)
LEMMA FailedStep ==
    ASSUME IInv, NEW k \in Kinds,
           Replied(k) \in PlatformState, Replied(k).running = p.running,
           accepted' \in [Kinds -> Nat],
           \A j \in Kinds : accepted'[j] <= Replied(k).tx[j],
           p' \in PlatformState,
           \/ Carries(Replied(k), p')
           \/ ~InUse(Replied(k)) /\ p' = Replied(k),
           UNCHANGED <<held, remote, starts, loggingOut>>
    PROVE  IInv'
<1>1. p.running => InUse(Replied(k))
  BY Facts DEF InUse
<1>2. Grows(Replied(k), p')
  BY Reflexive DEF Carries
<1>3. Replied(k).running => Carries(Replied(k), p')
  BY <1>1
<1> QED BY <1>2, <1>3, Facts, Continued

(* Links do not change with status, counter and address. *)
LEMMA SameLinks ==
    ASSUME NEW r \in PlatformState, NEW s \in PlatformState, NEW t \in PlatformState,
           s.tx = r.tx, s.delayed = r.delayed, s.relogin = r.relogin,
           s.resolving = r.resolving, s.running = r.running,
           Carries(s, t)
    PROVE  Carries(r, t)
BY DEF Carries, Grows

LEMMA NetworkErrorCarries ==
    ASSUME NEW r \in PlatformState, NEW k \in Kinds
    PROVE  LET t == Delay([r EXCEPT !.status = "network_error"], k)
           IN  t \in PlatformState /\ Carries(r, t)
<1> DEFINE s == [r EXCEPT !.status = "network_error"]
<1>1. /\ s \in PlatformState /\ s.running = r.running /\ s.tx = r.tx /\ s.delayed = r.delayed
      /\ s.relogin = r.relogin /\ s.resolving = r.resolving
  BY DEF PlatformState, StatusTypes
<1> HIDE DEF s
<1>2. Delay(s, k) \in PlatformState /\ Carries(s, Delay(s, k))
  BY <1>1, DelayCarries
<1>3. Carries(r, Delay(s, k))
  BY <1>1, <1>2, SameLinks
<1> QED BY <1>2, <1>3 DEF s

LEMMA TimeoutStep ==
    ASSUME IInv, NEW k \in Kinds, Timeout(k)
    PROVE  IInv'
<1>1. /\ \/ Waiting(k) /\ UNCHANGED accepted
         \/ TakesAccepted(k)
      /\ p' = IF InUse(Replied(k))
              THEN Delay([Replied(k) EXCEPT !.status = "network_error"], k) ELSE Replied(k)
      /\ UNCHANGED <<held, remote, starts, loggingOut>>
  BY DEF Timeout
<1>2. /\ Replied(k) \in PlatformState /\ Replied(k).running = p.running
      /\ accepted' \in [Kinds -> Nat]
      /\ \A j \in Kinds : accepted'[j] <= Replied(k).tx[j]
  BY <1>1, Facts, WaitingEnds, AcceptedEnds
<1>3. CASE InUse(Replied(k))
  BY <1>1, <1>2, <1>3, NetworkErrorCarries, FailedStep
<1>4. CASE ~InUse(Replied(k))
  BY <1>1, <1>2, <1>4, FailedStep
<1> QED BY <1>3, <1>4

LEMMA SendFailsStep ==
    ASSUME IInv, NEW k \in Kinds, SendFails(k)
    PROVE  IInv'
<1>1. /\ Waiting(k)
      /\ p' = IF InUse(Replied(k))
              THEN Delay([Replied(k) EXCEPT !.status = "network_error"], k) ELSE Replied(k)
      /\ UNCHANGED <<held, remote, accepted, starts, loggingOut>>
  BY DEF SendFails
<1>2. /\ Replied(k) \in PlatformState /\ Replied(k).running = p.running
      /\ accepted' \in [Kinds -> Nat]
      /\ \A j \in Kinds : accepted'[j] <= Replied(k).tx[j]
  BY <1>1, Facts, WaitingEnds
<1>3. CASE InUse(Replied(k))
  BY <1>1, <1>2, <1>3, NetworkErrorCarries, FailedStep
<1>4. CASE ~InUse(Replied(k))
  BY <1>1, <1>2, <1>4, FailedStep
<1> QED BY <1>3, <1>4

LEMMA LoggedOutStep ==
    ASSUME IInv, LoggedOut
    PROVE  IInv'
<1> DEFINE r == Replied("logout")
           n == IF r.running THEN r.relogin + 1 ELSE r.relogin
           t == [r EXCEPT !.authFailed = 0, !.status = "offline", !.relogin = n]
<1>1. /\ TakesAccepted("logout")
      /\ p' = IF InUse(r) THEN t ELSE r
      /\ UNCHANGED <<held, remote, starts, loggingOut>>
  BY DEF LoggedOut
<1>2. /\ r \in PlatformState /\ r.running = p.running
      /\ accepted' \in [Kinds -> Nat]
      /\ \A j \in Kinds : accepted'[j] <= r.tx[j]
  BY <1>1, Facts, AcceptedEnds DEF Kinds
<1>3. p.running => InUse(r)
  BY Facts DEF InUse
<1> HIDE DEF r
<1>4. /\ r.relogin \in Nat /\ r.tx \in [Kinds -> Nat] /\ r.delayed \in [Kinds -> Nat]
      /\ r.resolving \in Nat /\ r.running \in BOOLEAN
  BY <1>2 DEF PlatformState
<1>5. n \in Nat /\ n >= r.relogin /\ (r.running => n > r.relogin)
  BY <1>4
<1> HIDE DEF n
<1>6. /\ t \in PlatformState /\ t.running = r.running /\ t.tx = r.tx /\ t.delayed = r.delayed
      /\ t.relogin = n /\ t.resolving = r.resolving
  <2>1. 0 \in 0..AuthLimit
    BY SuperAssumption DEF SuperAssumption
  <2>2. t \in PlatformState
    BY <1>2, <1>5, <2>1 DEF PlatformState, StatusTypes
  <2> QED BY <1>2, <2>2 DEF PlatformState
<1> HIDE DEF t
<1>7. Grows(r, t) /\ (r.running => Carries(r, t))
  BY <1>4, <1>5, <1>6 DEF Grows, Carries
<1>8. p' \in PlatformState /\ Grows(r, p') /\ (r.running => Carries(r, p'))
  BY <1>1, <1>2, <1>3, <1>6, <1>7, Reflexive
<1> QED BY <1>1, <1>2, <1>8, Facts, Continued

(* The refresh task keeps the platform trying, and it shows online now: what *)
(* remains to be shown is that a 2xx that is handled owes nothing.           *)
LEMMA LoggedInStep ==
    ASSUME IInv, LoggedIn
    PROVE  IInv'
<1> DEFINE r == Replied("login")
           d == IF r.refresh THEN [r.delayed EXCEPT !["login"] = @ + 1] ELSE r.delayed
           t == [r EXCEPT !.authFailed = 0, !.status = "online", !.late = FALSE,
                          !.refresh = TRUE, !.delayed = d, !.keepTimer = TRUE,
                          !.keepalives = OneMore(@)]
<1>1. /\ TakesAccepted("login")
      /\ p' = IF InUse(r)
              THEN [r EXCEPT !.authFailed = 0, !.status = "online", !.late = FALSE,
                             !.refresh = TRUE,
                             !.delayed["login"] = IF r.refresh THEN @ + 1 ELSE @,
                             !.keepTimer = TRUE, !.keepalives = OneMore(@)]
              ELSE r
      /\ UNCHANGED <<held, remote, starts, loggingOut>>
  BY DEF LoggedIn
<1>2. /\ r \in PlatformState /\ r.running = p.running
      /\ accepted' \in [Kinds -> Nat]
      /\ \A j \in Kinds : accepted'[j] <= r.tx[j]
  BY <1>1, Facts, AcceptedEnds DEF Kinds
<1>3. p.running => InUse(r)
  BY Facts DEF InUse
<1>4. p.tx \in [Kinds -> Nat] /\ p.relogin \in Nat /\ p.resolving \in Nat /\ p.delayed \in [Kinds -> Nat]
  BY Facts DEF PlatformState
<1>5. /\ accepted["login"] > 0 /\ accepted' = [accepted EXCEPT !["login"] = @ - 1]
      /\ p.tx["login"] > 0
  BY <1>1, <1>4, Facts DEF TakesAccepted, Kinds
<1>6. /\ r.tx = [p.tx EXCEPT !["login"] = @ - 1] /\ r.delayed = p.delayed
      /\ r.relogin = p.relogin /\ r.resolving = p.resolving
  <2>1. r.tx = [p.tx EXCEPT !["login"] = @ - 1]
    BY <1>5, Facts, RepliedFields DEF Kinds
  <2> QED BY <2>1, Facts DEF Replied, PlatformState
<1> HIDE DEF r
<1>7. d \in [Kinds -> Nat] /\ \A k \in Kinds : d[k] >= p.delayed[k]
  BY <1>4, <1>6 DEF Kinds
<1>8. p' = IF InUse(r) THEN t ELSE r
  <2>1. [r EXCEPT !.authFailed = 0, !.status = "online", !.late = FALSE,
                  !.refresh = TRUE,
                  !.delayed["login"] = IF r.refresh THEN @ + 1 ELSE @,
                  !.keepTimer = TRUE, !.keepalives = OneMore(@)] = t
    <3>1. [r.delayed EXCEPT !["login"] = IF r.refresh THEN @ + 1 ELSE @] = d
      BY <1>4, <1>6
    <3> QED BY <3>1
  <2> QED BY <1>1, <2>1
<1> HIDE DEF d
<1>9. OneMore(r.keepalives) \in Nat
  BY <1>2 DEF OneMore, PlatformState
<1>10. /\ t \in PlatformState /\ t.running = r.running /\ t.tx = r.tx /\ t.delayed = d
       /\ t.relogin = r.relogin /\ t.resolving = r.resolving
       /\ t.status = "online" /\ t.refresh
  <2> DEFINE m == OneMore(r.keepalives)
  <2>1. 0 \in 0..AuthLimit /\ m \in Nat
    BY <1>9, SuperAssumption DEF SuperAssumption
  <2> HIDE DEF m
  <2>2. t = [r EXCEPT !.authFailed = 0, !.status = "online", !.late = FALSE,
                      !.refresh = TRUE, !.delayed = d, !.keepTimer = TRUE, !.keepalives = m]
    BY DEF m
  <2> HIDE DEF t
  <2>3. t \in PlatformState
    BY <1>2, <1>7, <2>1, <2>2 DEF PlatformState, StatusTypes
  <2> QED BY <1>2, <2>2, <2>3 DEF PlatformState
<1> HIDE DEF t
<1>11. /\ p' \in PlatformState /\ p'.running = p.running /\ p'.tx = r.tx
       /\ p'.relogin = p.relogin /\ p'.resolving = p.resolving
       /\ p.running => p'.delayed = d /\ p'.status = "online" /\ p'.refresh
  BY <1>2, <1>3, <1>6, <1>8, <1>10
<1>12. TypeOK'
  BY <1>1, <1>2, <1>11, Facts DEF TypeOK, IInv
<1>13. RunningIsHeld' /\ OfflineGoesOn'
  BY <1>1, <1>11, Facts DEF RunningIsHeld, OfflineGoesOn
<1>14. KeepsTrying'
  <2> SUFFICES ASSUME held', p'.running PROVE Chains(p') > 0
    BY DEF KeepsTrying
  <2>1. /\ p'.tx["login"] \in Nat /\ p'.tx["logout"] \in Nat
        /\ p'.delayed["login"] \in Nat /\ p'.delayed["logout"] \in Nat
        /\ p'.relogin \in Nat /\ p'.resolving \in Nat
    BY <1>11 DEF PlatformState, Kinds
  <2>2. p'.refresh
    BY <1>11
  <2> QED BY <2>1, <2>2 DEF Chains
<1>15. LogoutGoesOn'
  <2> SUFFICES ASSUME p'.running, remote' = "out" PROVE Owes(p', accepted')
    BY DEF LogoutGoesOn
  <2>1. Owes(p, accepted)
    BY <1>1, <1>11 DEF IInv, LogoutGoesOn
  <2>2. /\ p'.tx["login"] = p.tx["login"] - 1 /\ p'.tx["logout"] = p.tx["logout"]
        /\ accepted'["login"] = accepted["login"] - 1
    BY <1>4, <1>5, <1>6, <1>11, Facts DEF Kinds
  <2>3. p'.delayed["login"] >= p.delayed["login"] /\ p'.delayed["logout"] >= p.delayed["logout"]
    BY <1>7, <1>11 DEF Kinds
  <2>4. /\ p.tx["login"] \in Nat /\ accepted["login"] \in Nat
        /\ p.delayed["login"] \in Nat /\ p.delayed["logout"] \in Nat
        /\ p'.delayed["login"] \in Nat /\ p'.delayed["logout"] \in Nat
    BY <1>4, <1>11, Facts DEF Kinds, PlatformState
  <2>5. p'.relogin = p.relogin /\ p'.resolving = p.resolving
    BY <1>11
  <2> QED BY <2>1, <2>2, <2>3, <2>4, <2>5 DEF Owes
<1> QED BY <1>12, <1>13, <1>14, <1>15 DEF IInv

LEMMA RedirectedStep ==
    ASSUME IInv, NEW k \in Kinds, NEW usable \in BOOLEAN, Redirected(k, usable)
    PROVE  IInv'
<1> DEFINE r == Replied(k)
           n == r.resolving + 1
           t == [r EXCEPT !.moved = TRUE, !.resolving = n]
           s == [r EXCEPT !.moved = FALSE]
<1>1. /\ Waiting(k)
      /\ p' = IF ~InUse(r) THEN r ELSE IF usable THEN t ELSE Delay(s, k)
      /\ UNCHANGED <<held, remote, accepted, starts, loggingOut>>
  BY DEF Redirected
<1>2. /\ r \in PlatformState /\ r.running = p.running
      /\ accepted' \in [Kinds -> Nat]
      /\ \A j \in Kinds : accepted'[j] <= r.tx[j]
  BY <1>1, Facts, WaitingEnds
<1> HIDE DEF r
<1>3. t \in PlatformState /\ Carries(r, t)
  <2>1. n \in Nat /\ n > r.resolving
    BY <1>2 DEF PlatformState
  <2> HIDE DEF n
  <2>2. /\ t \in PlatformState /\ t.running = r.running /\ t.tx = r.tx /\ t.delayed = r.delayed
        /\ t.relogin = r.relogin /\ t.resolving = n
    BY <1>2, <2>1 DEF PlatformState
  <2> HIDE DEF t
  <2>3. Grows(r, r)
    BY <1>2, Reflexive
  <2> QED BY <1>2, <2>1, <2>2, <2>3 DEF Carries, Grows, PlatformState
<1>4. /\ s \in PlatformState /\ s.running = r.running /\ s.tx = r.tx /\ s.delayed = r.delayed
      /\ s.relogin = r.relogin /\ s.resolving = r.resolving
  BY <1>2 DEF PlatformState
<1> HIDE DEF t, s
<1>5. Delay(s, k) \in PlatformState /\ Carries(r, Delay(s, k))
  BY <1>2, <1>4, DelayCarries, SameLinks
<1>6. p' \in PlatformState /\ (Carries(r, p') \/ (~InUse(r) /\ p' = r))
  BY <1>1, <1>2, <1>3, <1>5
<1> QED BY <1>1, <1>2, <1>6, FailedStep DEF r

LEMMA UnauthorizedStep ==
    ASSUME IInv, NEW k \in Kinds, NEW generated \in BOOLEAN, NEW isName \in BOOLEAN,
           Unauthorized(k, generated, isName)
    PROVE  IInv'
<1> DEFINE r == Replied(k)
           s == [r EXCEPT !.authFailed = 0, !.moved = FALSE]
           st == IF generated THEN r.status ELSE "auth_failure"
           n == r.authFailed + 1
           u == [r EXCEPT !.authFailed = n, !.status = st]
<1>1. /\ Waiting(k)
      /\ p' = IF ~InUse(r) THEN r
              ELSE IF r.authFailed = AuthLimit THEN StartL(s, isName) ELSE Delay(u, k)
      /\ UNCHANGED <<held, remote, accepted, starts, loggingOut>>
  BY DEF Unauthorized
<1>2. /\ r \in PlatformState /\ r.running = p.running
      /\ accepted' \in [Kinds -> Nat]
      /\ \A j \in Kinds : accepted'[j] <= r.tx[j]
  BY <1>1, Facts, WaitingEnds
<1> HIDE DEF r
<1>3. /\ s \in PlatformState /\ s.running = r.running /\ s.tx = r.tx /\ s.delayed = r.delayed
      /\ s.relogin = r.relogin /\ s.resolving = r.resolving
  <2>1. 0 \in 0..AuthLimit
    BY SuperAssumption DEF SuperAssumption
  <2>2. s \in PlatformState
    BY <1>2, <2>1 DEF PlatformState
  <2> QED BY <1>2, <2>2 DEF PlatformState
<1>4. ASSUME r.authFailed # AuthLimit
      PROVE  /\ u \in PlatformState /\ u.running = r.running /\ u.tx = r.tx
             /\ u.delayed = r.delayed /\ u.relogin = r.relogin /\ u.resolving = r.resolving
  <2>1. r.authFailed \in 0..AuthLimit /\ r.status \in StatusTypes
    BY <1>2 DEF PlatformState
  <2>2. n \in 0..AuthLimit
    BY <1>4, <2>1, SuperAssumption DEF SuperAssumption
  <2>3. st \in StatusTypes
    BY <2>1 DEF StatusTypes
  <2> HIDE DEF n, st
  <2>4. u \in PlatformState
    BY <1>2, <2>2, <2>3 DEF PlatformState
  <2> QED BY <1>2, <2>4 DEF PlatformState
<1> HIDE DEF s, u
<1>5. StartL(s, isName) \in PlatformState /\ Carries(r, StartL(s, isName))
  BY <1>2, <1>3, StartLCarries, SameLinks
<1>6. r.authFailed # AuthLimit => Delay(u, k) \in PlatformState /\ Carries(r, Delay(u, k))
  BY <1>2, <1>4, DelayCarries, SameLinks
<1>7. p' \in PlatformState /\ (Carries(r, p') \/ (~InUse(r) /\ p' = r))
  BY <1>1, <1>2, <1>5, <1>6
<1> QED BY <1>1, <1>2, <1>7, FailedStep DEF r

LEMMA RefusedStep ==
    ASSUME IInv, NEW k \in Kinds, NEW isName \in BOOLEAN, Refused(k, isName)
    PROVE  IInv'
<1> DEFINE r == Replied(k)
           s == [r EXCEPT !.status = "auth_failure"]
<1>1. /\ Waiting(k)
      /\ p' = IF InUse(r) THEN AfterRefusal(s, k, isName) ELSE r
      /\ UNCHANGED <<held, remote, accepted, starts, loggingOut>>
  BY DEF Refused
<1>2. /\ r \in PlatformState /\ r.running = p.running
      /\ accepted' \in [Kinds -> Nat]
      /\ \A j \in Kinds : accepted'[j] <= r.tx[j]
  BY <1>1, Facts, WaitingEnds
<1> HIDE DEF r
<1>3. /\ s \in PlatformState /\ s.running = r.running /\ s.tx = r.tx /\ s.delayed = r.delayed
      /\ s.relogin = r.relogin /\ s.resolving = r.resolving
  BY <1>2 DEF PlatformState, StatusTypes
<1> HIDE DEF s
<1>4. /\ AfterRefusal(s, k, isName) \in PlatformState
      /\ Carries(r, AfterRefusal(s, k, isName))
  BY <1>2, <1>3, AfterRefusalCarries, SameLinks
<1>5. p' \in PlatformState /\ (Carries(r, p') \/ (~InUse(r) /\ p' = r))
  BY <1>1, <1>2, <1>4
<1> QED BY <1>1, <1>2, <1>5, FailedStep DEF r

LEMMA RunDelayedStep ==
    ASSUME IInv, NEW k \in Kinds, RunDelayed(k)
    PROVE  IInv'
<1> DEFINE n == [p.delayed EXCEPT ![k] = @ - 1]
           r == [p EXCEPT !.delayed = n]
<1>1. /\ p.delayed[k] > 0
      /\ p' = IF InUse(r) THEN ToRegister(r, k) ELSE r
      /\ UNCHANGED <<held, remote, accepted, starts, loggingOut>>
  BY DEF RunDelayed
<1>2. n \in [Kinds -> Nat]
  BY <1>1, Facts DEF PlatformState
<1> HIDE DEF n
<1>3. r \in PlatformState /\ r.running = p.running /\ r.tx = p.tx
  BY <1>2, Facts DEF PlatformState
<1>4. p.running => InUse(r)
  BY Facts DEF InUse
<1> HIDE DEF r
<1>5. p' \in PlatformState /\ Grows(r, p') /\ (r.running => Carries(r, p'))
  BY <1>1, <1>3, <1>4, ToRegisterCarries, Reflexive
<1> QED BY <1>1, <1>3, <1>5, Facts, Continued

LEMMA RunRefreshStep ==
    ASSUME IInv, RunRefresh
    PROVE  IInv'
<1> DEFINE s == [p EXCEPT !.refresh = FALSE]
<1>1. /\ p' = IF InUse(p) THEN ToRegister(p, "login") ELSE s
      /\ UNCHANGED <<held, remote, accepted, starts, loggingOut>>
  BY DEF RunRefresh
<1>2. p.running => InUse(p)
  BY Facts DEF InUse
<1>3. /\ s \in PlatformState /\ s.running = p.running /\ s.tx = p.tx /\ s.delayed = p.delayed
      /\ s.relogin = p.relogin /\ s.resolving = p.resolving
  BY Facts DEF PlatformState
<1> HIDE DEF s
<1>4. Grows(p, s)
  BY <1>3, Facts, Reflexive DEF Grows
<1>5. p' \in PlatformState /\ Grows(p, p') /\ (p.running => Carries(p, p'))
  BY <1>1, <1>2, <1>3, <1>4, Facts, ToRegisterCarries DEF Kinds
<1> QED BY <1>1, <1>5, Facts, Continued

LEMMA RunReloginStep ==
    ASSUME IInv, RunRelogin
    PROVE  IInv'
<1> DEFINE r == [p EXCEPT !.relogin = @ - 1]
<1>1. /\ p.relogin > 0 /\ p' = ToRegister(r, "login")
      /\ UNCHANGED <<held, remote, accepted, starts, loggingOut>>
  BY DEF RunRelogin
<1>2. r \in PlatformState /\ r.running = p.running /\ r.tx = p.tx
  <2>1. p.relogin - 1 \in Nat
    BY <1>1, Facts DEF PlatformState
  <2> QED BY <2>1, Facts DEF PlatformState
<1> HIDE DEF r
<1>3. p' \in PlatformState /\ Grows(r, p') /\ (r.running => Carries(r, p'))
  BY <1>1, <1>2, ToRegisterCarries DEF Kinds
<1> QED BY <1>1, <1>2, <1>3, Facts, Continued

LEMMA ResolvedStep ==
    ASSUME IInv, Resolved \/ ResolverOrphaned
    PROVE  IInv'
<1> DEFINE r == [p EXCEPT !.resolving = @ - 1]
<1>1. /\ p.resolving > 0
      /\ p' = ToRegister(r, "logout") \/ (p' = r /\ ~InUse(r))
      /\ UNCHANGED <<held, remote, accepted, starts, loggingOut>>
  BY DEF Resolved, ResolverOrphaned
<1>2. r \in PlatformState /\ r.running = p.running /\ r.tx = p.tx
  <2>1. p.resolving - 1 \in Nat
    BY <1>1, Facts DEF PlatformState
  <2> QED BY <2>1, Facts DEF PlatformState
<1>3. p.running => InUse(r)
  BY Facts DEF InUse
<1> HIDE DEF r
<1>4. p' \in PlatformState /\ Grows(r, p') /\ (r.running => Carries(r, p'))
  BY <1>1, <1>2, <1>3, ToRegisterCarries, Reflexive DEF Kinds, Carries
<1> QED BY <1>1, <1>2, <1>4, Facts, Continued

LEMMA KeepaliveStep ==
    ASSUME IInv, KeepaliveDue \/ KeepaliveLate \/ KeepaliveAnswered
    PROVE  IInv'
<1>1. p.keepalives \in Nat
  BY Facts DEF PlatformState
<1>2. \E n \in Nat, b \in BOOLEAN : p' = [p EXCEPT !.keepalives = n, !.late = b]
  <2>1. p.late \in BOOLEAN
    BY Facts DEF PlatformState
  <2>2. CASE KeepaliveDue
    <3>1. OneMore(p.keepalives) \in Nat
      BY <1>1 DEF OneMore
    <3>2. p' = [p EXCEPT !.keepalives = OneMore(p.keepalives), !.late = p.late]
      BY <2>2, Facts DEF KeepaliveDue, PlatformState
    <3> QED BY <2>1, <3>1, <3>2
  <2>3. CASE KeepaliveLate
    <3>1. p' = [p EXCEPT !.keepalives = p.keepalives, !.late = TRUE]
      BY <2>3, Facts DEF KeepaliveLate, PlatformState
    <3> QED BY <1>1, <3>1
  <2>4. CASE KeepaliveAnswered
    <3>1. p.keepalives - 1 \in Nat
      BY <1>1, <2>4 DEF KeepaliveAnswered
    <3>2. p' = [p EXCEPT !.keepalives = p.keepalives - 1, !.late = FALSE]
      BY <2>4 DEF KeepaliveAnswered
    <3> QED BY <3>1, <3>2
  <2> QED BY <2>2, <2>3, <2>4
<1>3. UNCHANGED <<held, remote, accepted, starts, loggingOut>>
  BY DEF KeepaliveDue, KeepaliveLate, KeepaliveAnswered
<1>4. PICK n \in Nat, b \in BOOLEAN : p' = [p EXCEPT !.keepalives = n, !.late = b]
  BY <1>2
<1>5. /\ p' \in PlatformState /\ p'.tx = p.tx /\ p'.delayed = p.delayed
      /\ p'.refresh = p.refresh /\ p'.relogin = p.relogin /\ p'.resolving = p.resolving
      /\ p'.running = p.running /\ p'.status = p.status
  BY <1>4, Facts DEF PlatformState
<1> QED BY <1>3, <1>5, Unlinked

LEMMA KeepaliveFailsStep ==
    ASSUME IInv, NEW isName \in BOOLEAN, KeepaliveFails(isName)
    PROVE  IInv'
<1> DEFINE n == p.keepalives - 1
           r == [p EXCEPT !.keepalives = n]
           s == [p EXCEPT !.keepalives = n, !.keepTimer = FALSE, !.status = "offline"]
<1>1. /\ p.keepalives > 0
      /\ p' = IF p.late THEN StartL(s, isName) ELSE r
      /\ UNCHANGED <<held, remote, accepted, starts, loggingOut>>
  BY DEF KeepaliveFails
<1>2. n \in Nat
  BY <1>1, Facts DEF PlatformState
<1> HIDE DEF n
<1>3. CASE p.late
  <2>1. s \in PlatformState /\ s.running = p.running /\ s.tx = p.tx
    BY <1>2, Facts DEF PlatformState, StatusTypes
  <2> HIDE DEF s
  <2>2. p' \in PlatformState /\ Carries(s, p')
    BY <1>1, <1>3, <2>1, StartLCarries
  <2> QED BY <1>1, <2>1, <2>2, Facts, Continued DEF Carries
<1>4. CASE ~p.late
  <2>1. /\ r \in PlatformState /\ r.tx = p.tx /\ r.delayed = p.delayed
        /\ r.refresh = p.refresh /\ r.relogin = p.relogin /\ r.resolving = p.resolving
        /\ r.running = p.running /\ r.status = p.status
    BY <1>2, Facts DEF PlatformState
  <2> HIDE DEF r
  <2> QED BY <1>1, <1>4, <2>1, Unlinked
<1> QED BY <1>3, <1>4

LEMMA StutterStep ==
    ASSUME IInv, UNCHANGED vars
    PROVE  IInv'
BY DEF IInv, TypeOK, RunningIsHeld, KeepsTrying, LogoutGoesOn, OfflineGoesOn, vars

-------------------------------------------------------------------------------
\* The theorems

LEMMA InitIInv == Init => IInv
<1> SUFFICES ASSUME Init PROVE IInv
  OBVIOUS
<1> DEFINE z == [k \in Kinds |-> 0]
<1>1. p = [status |-> "offline", running |-> FALSE, tx |-> z, delayed |-> z, refresh |-> FALSE,
           relogin |-> 0, resolving |-> 0, keepTimer |-> FALSE, keepalives |-> 0,
           late |-> FALSE, authFailed |-> 0, moved |-> FALSE]
  BY DEF Init
<1>2. z \in [Kinds -> Nat] /\ \A k \in Kinds : z[k] <= z[k]
  OBVIOUS
<1>3. 0 \in 0..AuthLimit /\ 0 \in 0..MaxStarts
  BY SuperAssumption DEF SuperAssumption
<1>4. accepted = z /\ held = TRUE /\ remote = "out" /\ starts = 0 /\ loggingOut = FALSE
  BY DEF Init
<1> HIDE DEF z
<1>5. p \in PlatformState /\ p.tx = z /\ ~p.running
  BY <1>1, <1>2, <1>3 DEF PlatformState, StatusTypes
<1>6. TypeOK
  BY <1>2, <1>3, <1>4, <1>5 DEF TypeOK
<1> QED BY <1>5, <1>6 DEF IInv, RunningIsHeld, KeepsTrying, LogoutGoesOn, OfflineGoesOn

LEMMA StepIInv == IInv /\ [Next]_vars => IInv'
<1> SUFFICES ASSUME IInv, [Next]_vars PROVE IInv'
  OBVIOUS
<1>1. CASE \E b \in BOOLEAN : Start(b)
  BY <1>1, StartStep
<1>2. CASE Shutdown
  BY <1>2, ShutdownStep
<1>3. CASE Release
  BY <1>3, ReleaseStep
<1>4. ASSUME NEW k \in Kinds, Process(k) \/ Reply(k) \/ RunDelayed(k)
      PROVE  IInv'
  <2>1. CASE Process(k)
    BY <2>1, ProcessStep
  <2>2. CASE RunDelayed(k)
    BY <2>2, RunDelayedStep
  <2>3. CASE Accept(k)
    BY <2>3, LoggedInStep, LoggedOutStep DEF Accept
  <2>4. CASE Timeout(k)
    BY <2>4, TimeoutStep
  <2>5. CASE SendFails(k)
    BY <2>5, SendFailsStep
  <2>6. CASE \E b \in BOOLEAN : Redirected(k, b) \/ Refused(k, b)
    BY <2>6, RedirectedStep, RefusedStep
  <2>7. CASE \E b, c \in BOOLEAN : Unauthorized(k, b, c)
    BY <2>7, UnauthorizedStep
  <2> QED BY <1>4, <2>1, <2>2, <2>3, <2>4, <2>5, <2>6, <2>7 DEF Reply
<1>5. CASE Task
  BY <1>5, RunRefreshStep, RunReloginStep, ResolvedStep DEF Task
<1>6. CASE KeepaliveDue \/ KeepaliveLate \/ KeepaliveAnswered
  BY <1>6, KeepaliveStep
<1>7. CASE \E b \in BOOLEAN : KeepaliveFails(b)
  BY <1>7, KeepaliveFailsStep
<1>8. CASE Forget
  BY <1>8, ForgetStep
<1>9. CASE UNCHANGED vars
  BY <1>9, StutterStep
<1> QED BY <1>1, <1>2, <1>3, <1>4, <1>5, <1>6, <1>7, <1>8, <1>9 DEF Next

(* The inductive invariant holds in every reachable state. *)
THEOREM Invariance == Spec => []IInv
BY InitIInv, StepIInv, PTL DEF Spec

(* Every variable keeps its type: the count of 401 replies stays within its  *)
(* limit, and there is never a 2xx without a transaction to take it.         *)
THEOREM TypeCorrect == Spec => []TypeOK
<1>1. IInv => TypeOK
  BY DEF IInv
<1> QED BY Invariance, <1>1, PTL

(* on_register_reply(), to_register()'s send callback and the tasks never    *)
(* leave a running platform without a next step.                             *)
THEOREM KeepsTryingCorrect == Spec => []KeepsTrying
<1>1. IInv => KeepsTrying
  BY DEF IInv
<1> QED BY Invariance, <1>1, PTL

(* However many chains run, and in whatever order replies arrive: a running  *)
(* platform with nothing under way shows online and is not logged out.       *)
THEOREM SettledIsRegisteredCorrect == Spec => []SettledIsRegistered
<1>1. ASSUME IInv, p.running, Settled(p)
      PROVE  p.status = "online" /\ remote # "out"
  <2>1. p.status = "online"
    BY <1>1 DEF IInv, OfflineGoesOn
  <2>2. /\ p.tx["login"] \in Nat /\ p.tx["logout"] \in Nat
        /\ p.delayed["login"] \in Nat /\ p.delayed["logout"] \in Nat
        /\ accepted["login"] \in Nat
    BY <1>1, Facts DEF PlatformState, Kinds
  <2>3. /\ p.tx["login"] = 0 /\ p.tx["logout"] = 0
        /\ p.delayed["login"] = 0 /\ p.delayed["logout"] = 0
        /\ p.relogin = 0 /\ p.resolving = 0
    BY <1>1, <2>2 DEF Settled
  <2>4. ~Owes(p, accepted)
    BY <2>2, <2>3 DEF Owes
  <2>5. remote # "out"
    BY <1>1, <2>4 DEF IInv, LogoutGoesOn
  <2> QED BY <2>1, <2>5
<1>2. IInv => SettledIsRegistered
  BY <1>1 DEF SettledIsRegistered
<1> QED BY Invariance, <1>2, PTL

(* The tasks and timers that outlive the object do nothing: what is not in   *)
(* use sends nothing and receives nothing.                                   *)
LEMMA QuietStep ==
    ASSUME IInv, Next, ~InUse(p)
    PROVE  p'.tx = p.tx /\ p'.keepalives = p.keepalives
<1>1. /\ p.tx \in [Kinds -> Nat] /\ p.relogin \in Nat /\ p.resolving \in Nat
      /\ p.keepalives \in Nat /\ p \in PlatformState
  BY Facts DEF PlatformState
<1>2. /\ ~held /\ p.relogin = 0 /\ p.resolving = 0 /\ p.keepalives = 0
      /\ p.tx["login"] = 0 /\ p.tx["logout"] = 0
  BY <1>1 DEF InUse, Kinds
<1>3. \A k \in Kinds : p.tx[k] = 0 /\ accepted[k] = 0
  BY <1>1, <1>2, Facts DEF Kinds
<1>4. \A k \in Kinds : ~Waiting(k) /\ ~TakesAccepted(k)
  BY <1>3 DEF Waiting, TakesAccepted
<1>5. \A k \in Kinds : ~Process(k) /\ ~Reply(k)
  BY <1>4 DEF Process, Reply, Accept, LoggedIn, LoggedOut, Timeout, SendFails, Redirected,
              Refused, Unauthorized, Kinds
<1>6. ASSUME NEW k \in Kinds, RunDelayed(k)
      PROVE  p'.tx = p.tx /\ p'.keepalives = p.keepalives
  <2> DEFINE r == [p EXCEPT !.delayed[k] = @ - 1]
  <2>1. /\ r.tx = p.tx /\ r.relogin = p.relogin /\ r.resolving = p.resolving
        /\ r.keepalives = p.keepalives
    BY <1>1 DEF PlatformState
  <2>2. p' = IF InUse(r) THEN ToRegister(r, k) ELSE r
    BY <1>6 DEF RunDelayed
  <2> HIDE DEF r
  <2>3. ~InUse(r)
    BY <2>1 DEF InUse
  <2> QED BY <2>1, <2>2, <2>3
<1>7. ASSUME Task
      PROVE  p'.tx = p.tx /\ p'.keepalives = p.keepalives
  <2>1. ~RunRelogin /\ ~Resolved /\ ~ResolverOrphaned
    BY <1>2 DEF RunRelogin, Resolved, ResolverOrphaned
  <2>2. p' = [p EXCEPT !.refresh = FALSE]
    BY <1>7, <2>1 DEF Task, RunRefresh
  <2> QED BY <1>1, <2>2 DEF PlatformState
<1>8. ASSUME KeepaliveDue \/ KeepaliveLate \/ KeepaliveAnswered
      PROVE  p'.tx = p.tx /\ p'.keepalives = p.keepalives
  <2>1. KeepaliveLate
    BY <1>2, <1>8 DEF KeepaliveDue, KeepaliveAnswered
  <2> QED BY <1>1, <2>1 DEF KeepaliveLate, PlatformState
<1>9. \A b \in BOOLEAN : ~Start(b) /\ ~KeepaliveFails(b)
  BY <1>2 DEF Start, KeepaliveFails
<1>10. ~Shutdown /\ ~Release
  BY <1>2 DEF Shutdown, Release
<1>11. Forget => p' = p
  BY DEF Forget
<1> QED BY <1>5, <1>6, <1>7, <1>8, <1>9, <1>10, <1>11 DEF Next

THEOREM ReleasedIsQuietCorrect == Spec => ReleasedIsQuiet
<1>1. IInv /\ [Next]_vars => [~InUse(p) => p'.tx = p.tx /\ p'.keepalives = p.keepalives]_vars
  BY QuietStep
<1> QED BY Invariance, <1>1, PTL DEF Spec, ReleasedIsQuiet

===============================================================================

--------------------------- MODULE SubscriptionProofs ---------------------------
(***************************************************************************)
(* Theorems about Subscription, for every set of dialogs, every bound and  *)
(* every combination of faults.                                            *)
(***************************************************************************)
EXTENDS Subscription, TLAPS

-------------------------------------------------------------------------------
\* The inductive invariant

(* A running subscription has its callback registered, or start() will do it. *)
TellsObject == s.running /\ s.mapped /\ platform # "gone" => s.starting \/ s.callback

IInv == TypeOK /\ KeepsSubscribing /\ TellsObject

Excuses == {"none", "refused", "missed"}

(* what every handler keeps of the object r when it makes it t *)
Keeps(r, t) ==
    /\ t \in Subscription
    /\ t.running = r.running /\ t.starting = r.starting /\ t.callback = r.callback
    /\ t.mapped => r.mapped

(* t learns nothing that r does not know *)
Deaf(r, t) == t.dialog = r.dialog /\ (t.status = "active" => r.status = "active")

(* t has sent nothing that r has not sent *)
Silent(r, t) == \A d \in Targets : t.sent[d] <= r.sent[d]

-------------------------------------------------------------------------------
\* The pieces of the handlers

LEMMA ToSubscribeKeeps ==
    ASSUME NEW r \in Subscription
    PROVE  /\ Keeps(r, ToSubscribe(r)) /\ Deaf(r, ToSubscribe(r))
           /\ platform = "gone" => Silent(r, ToSubscribe(r))
           /\ platform # "gone" => Busy(ToSubscribe(r))
<1>1. r.sent \in [Targets -> Nat] /\ r.dialog \in Targets /\ r.status \in StatusTypes
  BY DEF Subscription
<1>2. CASE platform = "gone"
  <2> DEFINE t == [r EXCEPT !.mapped = FALSE]
  <2>1. ToSubscribe(r) = t
    BY <1>2 DEF ToSubscribe
  <2>2. /\ t \in Subscription
        /\ t.running = r.running /\ t.starting = r.starting /\ t.callback = r.callback
        /\ t.mapped = FALSE /\ t.dialog = r.dialog /\ t.status = r.status /\ t.sent = r.sent
    BY DEF Subscription
  <2> HIDE DEF t
  <2> QED BY <1>1, <1>2, <2>1, <2>2 DEF Keeps, Deaf, Silent
<1>3. CASE platform # "gone"
  <2> DEFINE n == [r.sent EXCEPT ![r.dialog] = @ + 1]
             st == IF r.dialog = NoDialog THEN "pending" ELSE r.status
             t == [r EXCEPT !.sent = n, !.status = st]
  <2>1. ToSubscribe(r) = t
    BY <1>3 DEF ToSubscribe
  <2>2. n \in [Targets -> Nat] /\ n[r.dialog] > 0
    BY <1>1
  <2>3. st \in StatusTypes /\ (st = "active" => r.status = "active")
    BY <1>1 DEF StatusTypes
  <2> HIDE DEF n, st
  <2>4. /\ t \in Subscription
        /\ t.running = r.running /\ t.starting = r.starting /\ t.callback = r.callback
        /\ t.mapped = r.mapped /\ t.dialog = r.dialog /\ t.status = st /\ t.sent = n
    BY <2>2, <2>3 DEF Subscription
  <2> HIDE DEF t
  <2>5. Busy(t)
    BY <1>1, <2>2, <2>4 DEF Busy
  <2> QED BY <1>3, <2>1, <2>3, <2>4, <2>5 DEF Keeps, Deaf
<1> QED BY <1>2, <1>3

LEMMA DelayKeeps ==
    ASSUME NEW r \in Subscription
    PROVE  /\ Keeps(r, Delay(r)) /\ Busy(Delay(r))
           /\ Delay(r).mapped = r.mapped /\ Delay(r).dialog = r.dialog
           /\ Delay(r).status = r.status /\ Delay(r).sent = r.sent
<1> DEFINE t == [r EXCEPT !.tasks = @ + 1]
<1>1. Delay(r) = t
  BY DEF Delay
<1>2. /\ t \in Subscription /\ t.tasks > 0
      /\ t.running = r.running /\ t.starting = r.starting /\ t.callback = r.callback
      /\ t.mapped = r.mapped /\ t.dialog = r.dialog /\ t.status = r.status /\ t.sent = r.sent
  BY DEF Subscription
<1> HIDE DEF t
<1> QED BY <1>1, <1>2 DEF Keeps, Busy

(* a transaction that ends, a task that runs *)
LEMMA EndsKeep ==
    ASSUME NEW r \in Subscription
    PROVE  /\ \A d \in Targets : r.sent[d] > 0 =>
                 /\ Keeps(r, Unsent(r, d)) /\ Deaf(r, Unsent(r, d)) /\ Silent(r, Unsent(r, d))
                 /\ Unsent(r, d).mapped = r.mapped /\ Unsent(r, d).accepted = r.accepted
                 /\ Unsent(r, d).sent = [r.sent EXCEPT ![d] = @ - 1]
           /\ \A d \in Dialogs : r.accepted[d] > 0 =>
                 LET t == [r EXCEPT !.accepted[d] = @ - 1]
                 IN  /\ Keeps(r, t) /\ Deaf(r, t) /\ Silent(r, t)
                     /\ t.mapped = r.mapped /\ t.sent = r.sent
           /\ r.tasks > 0 =>
                 LET t == [r EXCEPT !.tasks = @ - 1]
                 IN  /\ Keeps(r, t) /\ Deaf(r, t) /\ Silent(r, t)
                     /\ t.mapped = r.mapped /\ t.sent = r.sent
<1>1. r.sent \in [Targets -> Nat] /\ r.accepted \in [Dialogs -> Nat] /\ r.tasks \in Nat
  BY DEF Subscription
<1>2. ASSUME NEW d \in Targets, r.sent[d] > 0
      PROVE  /\ Keeps(r, Unsent(r, d)) /\ Deaf(r, Unsent(r, d)) /\ Silent(r, Unsent(r, d))
             /\ Unsent(r, d).mapped = r.mapped /\ Unsent(r, d).accepted = r.accepted
             /\ Unsent(r, d).sent = [r.sent EXCEPT ![d] = @ - 1]
  <2> DEFINE n == [r.sent EXCEPT ![d] = @ - 1]
             t == [r EXCEPT !.sent = n]
  <2>1. Unsent(r, d) = t
    BY DEF Unsent
  <2>2. n \in [Targets -> Nat] /\ \A e \in Targets : n[e] <= r.sent[e]
    BY <1>1, <1>2
  <2>3. n = [r.sent EXCEPT ![d] = @ - 1]
    OBVIOUS
  <2> HIDE DEF n
  <2>4. /\ t \in Subscription /\ t.sent = n /\ t.accepted = r.accepted
        /\ t.running = r.running /\ t.starting = r.starting /\ t.callback = r.callback
        /\ t.mapped = r.mapped /\ t.dialog = r.dialog /\ t.status = r.status
    BY <2>2 DEF Subscription
  <2> HIDE DEF t
  <2> QED BY <2>1, <2>2, <2>3, <2>4 DEF Keeps, Deaf, Silent
<1>3. ASSUME NEW d \in Dialogs, r.accepted[d] > 0, NEW t, t = [r EXCEPT !.accepted[d] = @ - 1]
      PROVE  /\ Keeps(r, t) /\ Deaf(r, t) /\ Silent(r, t)
             /\ t.mapped = r.mapped /\ t.sent = r.sent
  <2> DEFINE n == [r.accepted EXCEPT ![d] = @ - 1]
  <2>1. t = [r EXCEPT !.accepted = n]
    BY <1>3
  <2>2. n \in [Dialogs -> Nat]
    BY <1>1, <1>3
  <2> HIDE DEF n
  <2>3. /\ t \in Subscription /\ t.sent = r.sent
        /\ t.running = r.running /\ t.starting = r.starting /\ t.callback = r.callback
        /\ t.mapped = r.mapped /\ t.dialog = r.dialog /\ t.status = r.status
    BY <2>1, <2>2 DEF Subscription
  <2> QED BY <1>1, <2>3 DEF Keeps, Deaf, Silent
<1>4. ASSUME r.tasks > 0, NEW t, t = [r EXCEPT !.tasks = @ - 1]
      PROVE  /\ Keeps(r, t) /\ Deaf(r, t) /\ Silent(r, t)
             /\ t.mapped = r.mapped /\ t.sent = r.sent
  <2>1. /\ t \in Subscription /\ t.sent = r.sent
        /\ t.running = r.running /\ t.starting = r.starting /\ t.callback = r.callback
        /\ t.mapped = r.mapped /\ t.dialog = r.dialog /\ t.status = r.status
    BY <1>1, <1>4 DEF Subscription
  <2> QED BY <1>1, <2>1 DEF Keeps, Deaf, Silent
<1> QED BY <1>2, <1>3, <1>4

(* a new status, with or without a new dialog *)
LEMMA StatusKeeps ==
    ASSUME NEW r \in Subscription, NEW st \in StatusTypes, NEW u, u = [r EXCEPT !.status = st]
    PROVE  /\ Keeps(r, u) /\ u.mapped = r.mapped /\ u.sent = r.sent
           /\ u.dialog = r.dialog /\ u.status = st /\ Busy(u) = Busy(r)
<1>1. /\ u \in Subscription /\ u.sent = r.sent /\ u.dialog = r.dialog /\ u.status = st
      /\ u.running = r.running /\ u.starting = r.starting /\ u.callback = r.callback
      /\ u.mapped = r.mapped /\ u.tasks = r.tasks /\ u.accepted = r.accepted
  BY DEF Subscription
<1>2. Busy(u) = Busy(r)
  BY <1>1 DEF Busy
<1> QED BY <1>1, <1>2 DEF Keeps

Holds(r, d, st) == [r EXCEPT !.dialog = d, !.status = st]

LEMMA DialogKeeps ==
    ASSUME NEW r \in Subscription, NEW st \in StatusTypes, NEW d \in Targets
    PROVE  /\ Keeps(r, Holds(r, d, st))
           /\ Holds(r, d, st).mapped = r.mapped /\ Holds(r, d, st).sent = r.sent
           /\ Holds(r, d, st).dialog = d /\ Holds(r, d, st).status = st
<1> DEFINE t == Holds(r, d, st)
<1>1. /\ t \in Subscription /\ t.sent = r.sent /\ t.dialog = d /\ t.status = st
      /\ t.running = r.running /\ t.starting = r.starting /\ t.callback = r.callback
      /\ t.mapped = r.mapped
  BY DEF Subscription, Holds
<1> QED BY <1>1 DEF Keeps

-------------------------------------------------------------------------------
\* Steps

LEMMA Facts ==
    ASSUME IInv
    PROVE  /\ s \in Subscription /\ held \in BOOLEAN
           /\ platform \in PlatformStatus \cup {"gone"}
           /\ events \in [PlatformStatus -> Nat] /\ peer \in [Dialogs -> DialogStates]
           /\ starts \in 0..MaxStarts /\ excuse \in Excuses
           /\ KeepsSubscribing /\ TellsObject
           /\ "online" \in PlatformStatus /\ "offline" \in PlatformStatus
BY DEF IInv, TypeOK, Excuses, PlatformStatus

(* What the step has to show of the other variables is their type. *)
LEMMA BecomeStep ==
    ASSUME IInv, NEW t, NEW why \in Excuses, Keeps(s, t), Become(t, why),
           platform' = platform, events'["online"] = events["online"],
           \/ Busy(t) \/ ~t.mapped \/ platform = "gone" \/ why # "none"
           \/ why = excuse /\ (Busy(s) => Busy(t))
    PROVE  s' \in Subscription /\ excuse' \in Excuses /\ KeepsSubscribing' /\ TellsObject'
<1>1. s' = t /\ excuse' = (IF Busy(t) THEN "none" ELSE why)
  BY DEF Become
<1>2. s' \in Subscription /\ excuse' \in Excuses
  BY <1>1 DEF Keeps, Excuses
<1>3. TellsObject'
  BY <1>1, Facts DEF TellsObject, Keeps
<1>4. ASSUME t.running, t.mapped, platform = "online", excuse' = "none"
      PROVE  Busy(t) \/ events'["online"] > 0
  <2>1. s.running /\ s.mapped
    BY <1>4 DEF Keeps
  <2>2. CASE Busy(t)
    BY <2>2
  <2>3. CASE ~Busy(t)
    <3>1. excuse' = why /\ why = "none"
      BY <1>1, <1>4, <2>3
    <3>2. excuse = "none" /\ ~Busy(s)
      BY <1>4, <2>3, <3>1
    <3> QED BY <1>4, <2>1, <3>2, Facts DEF KeepsSubscribing
  <2> QED BY <2>2, <2>3
<1>5. KeepsSubscribing'
  BY <1>1, <1>4 DEF KeepsSubscribing, Busy
<1> QED BY <1>2, <1>3, <1>5

(* What a step keeps: the invariant, and what the two action properties say. *)
Learns == ~s.mapped /\ ~s'.mapped => Deaf(s, s')
Sends == ~Alive => Silent(s, s')

LEMMA StartStep ==
    ASSUME IInv, Start
    PROVE  IInv' /\ Learns /\ Sends
<1> DEFINE on == platform # "gone"
           r == [s EXCEPT !.running = TRUE, !.mapped = on, !.starting = on]
           t == IF platform = "online" THEN ToSubscribe(r) ELSE r
<1>1. Become(t, "none") /\ UNCHANGED <<held, platform, events, peer>> /\ held
      /\ starts' = starts + 1 /\ starts < MaxStarts
  BY DEF Start
<1>2. /\ r \in Subscription /\ r.mapped = on /\ r.starting = on
      /\ r.dialog = s.dialog /\ r.status = s.status /\ r.sent = s.sent
  BY Facts DEF Subscription
<1> HIDE DEF r
<1>3. /\ t \in Subscription /\ t.starting = on /\ (t.mapped => on)
      /\ platform = "online" => Busy(t)
      /\ platform # "online" => t = r
  BY <1>2, ToSubscribeKeeps DEF Keeps
<1>4. s' = t /\ excuse' \in Excuses
  BY <1>1 DEF Become, Excuses
<1>5. starts' \in 0..MaxStarts
  BY <1>1, Facts, SubscriptionAssumption
<1>6. TypeOK'
  BY <1>1, <1>3, <1>4, <1>5, Facts DEF TypeOK, Excuses
<1>7. KeepsSubscribing'
  BY <1>1, <1>3, <1>4 DEF KeepsSubscribing, Busy
<1>8. TellsObject'
  BY <1>1, <1>3, <1>4 DEF TellsObject
<1>9. Learns
  <2> SUFFICES ASSUME ~t.mapped PROVE Deaf(s, t)
    BY <1>4 DEF Learns
  <2>1. CASE platform = "online"
    BY <2>1, <1>2, ToSubscribeKeeps DEF Deaf
  <2>2. CASE platform # "online"
    BY <2>2, <1>2, <1>3 DEF Deaf
  <2> QED BY <2>1, <2>2
<1> QED BY <1>1, <1>6, <1>7, <1>8, <1>9 DEF IInv, Sends, Alive

LEMMA CallStep ==
    ASSUME IInv, Registered \/ Shutdown \/ Release
    PROVE  IInv' /\ Learns /\ Sends
<1>1. CASE Registered
  <2>1. /\ s.starting /\ s' = [s EXCEPT !.starting = FALSE, !.callback = TRUE]
        /\ UNCHANGED <<held, platform, events, peer, starts, excuse>>
    BY <1>1 DEF Registered
  <2>2. /\ s' \in Subscription /\ s'.callback /\ s'.running = s.running
        /\ s'.mapped = s.mapped /\ s'.dialog = s.dialog /\ s'.status = s.status
        /\ s'.sent = s.sent /\ s'.tasks = s.tasks /\ s'.accepted = s.accepted
    BY <2>1, Facts DEF Subscription
  <2>3. TypeOK'
    BY <2>1, <2>2, Facts DEF TypeOK, Excuses
  <2>4. KeepsSubscribing'
    BY <2>1, <2>2, Facts DEF KeepsSubscribing, Busy
  <2>5. TellsObject'
    BY <2>2 DEF TellsObject
  <2>6. Silent(s, s')
    BY <2>2, Facts DEF Silent, Subscription
  <2> QED BY <2>2, <2>3, <2>4, <2>5, <2>6 DEF IInv, Learns, Sends, Deaf
<1>2. CASE Shutdown
  <2>1. /\ s' = [s EXCEPT !.running = FALSE, !.mapped = FALSE]
        /\ UNCHANGED <<held, platform, events, peer, starts, excuse>>
    BY <1>2 DEF Shutdown
  <2>2. /\ s' \in Subscription /\ ~s'.running
        /\ s'.dialog = s.dialog /\ s'.status = s.status /\ s'.sent = s.sent
    BY <2>1, Facts DEF Subscription
  <2>3. TypeOK'
    BY <2>1, <2>2, Facts DEF TypeOK, Excuses
  <2>4. KeepsSubscribing' /\ TellsObject'
    BY <2>2 DEF KeepsSubscribing, TellsObject
  <2>5. Silent(s, s')
    BY <2>2, Facts DEF Silent, Subscription
  <2> QED BY <2>2, <2>3, <2>4, <2>5 DEF IInv, Learns, Sends, Deaf
<1>3. CASE Release
  <2>1. held' = FALSE /\ UNCHANGED <<s, platform, events, peer, starts, excuse>>
    BY <1>3 DEF Release
  <2>2. TypeOK'
    BY <2>1, Facts DEF TypeOK, Excuses
  <2>3. KeepsSubscribing' /\ TellsObject'
    BY <2>1, Facts DEF KeepsSubscribing, TellsObject, Busy
  <2>4. Silent(s, s')
    BY <2>1, Facts DEF Silent, Subscription
  <2> QED BY <2>1, <2>2, <2>3, <2>4 DEF IInv, Learns, Sends, Deaf
<1> QED BY <1>1, <1>2, <1>3

(* The peer accepts: one transaction less, one 2xx more. *)
LEMMA AcceptStep ==
    ASSUME IInv, NEW d \in Dialogs, AcceptNew(d) \/ AcceptRefresh(d)
    PROVE  IInv' /\ Learns /\ Sends
<1> DEFINE Accepted(e) == [Unsent(s, e) EXCEPT !.accepted[d] = @ + 1]
<1>1. ASSUME NEW e \in Targets, s.sent[e] > 0, s' = Accepted(e)
      PROVE  /\ s' \in Subscription /\ Busy(s') /\ Deaf(s, s') /\ Silent(s, s')
             /\ s'.running = s.running /\ s'.mapped = s.mapped
             /\ s'.starting = s.starting /\ s'.callback = s.callback
  <2> DEFINE r == Unsent(s, e)
             n == [r.accepted EXCEPT ![d] = @ + 1]
  <2>1. Keeps(s, r) /\ Deaf(s, r) /\ Silent(s, r) /\ r.mapped = s.mapped
    BY <1>1, Facts, EndsKeep
  <2> HIDE DEF r
  <2>2. r \in Subscription /\ n \in [Dialogs -> Nat] /\ n[d] > 0
    BY <2>1 DEF Keeps, Subscription
  <2>3. s' = [r EXCEPT !.accepted = n]
    BY <1>1 DEF r
  <2> HIDE DEF n
  <2>4. /\ s' \in Subscription /\ s'.accepted = n
        /\ s'.running = r.running /\ s'.mapped = r.mapped /\ s'.starting = r.starting
        /\ s'.callback = r.callback /\ s'.dialog = r.dialog /\ s'.status = r.status
        /\ s'.sent = r.sent
    BY <2>2, <2>3 DEF Subscription
  <2>5. Busy(s')
    BY <2>2, <2>4 DEF Busy
  <2> QED BY <2>1, <2>4, <2>5 DEF Keeps, Deaf, Silent
<1>2. /\ UNCHANGED <<held, platform, events, starts, excuse>>
      /\ peer' \in [Dialogs -> DialogStates]
      /\ \E e \in Targets : s.sent[e] > 0 /\ s' = Accepted(e)
  <2>1. CASE AcceptNew(d)
    BY <2>1, Facts DEF AcceptNew, DialogStates, Targets
  <2>2. CASE AcceptRefresh(d)
    BY <2>2, Facts DEF AcceptRefresh, Targets
  <2> QED BY <2>1, <2>2
<1>3. /\ s' \in Subscription /\ Busy(s') /\ Deaf(s, s') /\ Silent(s, s')
      /\ s'.running = s.running /\ s'.mapped = s.mapped
      /\ s'.starting = s.starting /\ s'.callback = s.callback
  BY <1>1, <1>2
<1>4. TypeOK'
  BY <1>2, <1>3, Facts DEF TypeOK, Excuses
<1>5. KeepsSubscribing'
  BY <1>3 DEF KeepsSubscribing, Busy
<1>6. TellsObject'
  BY <1>2, <1>3, Facts DEF TellsObject
<1> QED BY <1>3, <1>4, <1>5, <1>6 DEF IInv, Learns, Sends

(* A 2xx has arrived. *)
LEMMA SucceedsStep ==
    ASSUME IInv, NEW d \in Dialogs, Succeeds(d)
    PROVE  IInv' /\ Learns /\ Sends
<1> DEFINE r == [s EXCEPT !.accepted[d] = @ - 1]
           a == [r EXCEPT !.dialog = d, !.status = "active"]
<1>1. /\ s.accepted[d] > 0
      /\ UNCHANGED <<held, platform, events, starts>>
      /\ s.mapped => Become(Delay(a), excuse)
      /\ ~s.mapped => Become(r, excuse)
      /\ peer' \in [Dialogs -> DialogStates]
  BY Facts DEF Succeeds, DialogStates
<1>2. Keeps(s, r) /\ Deaf(s, r) /\ Silent(s, r) /\ r.mapped = s.mapped /\ r.sent = s.sent
  BY <1>1, Facts, EndsKeep
<1> HIDE DEF r
<1>3. CASE s.mapped
  <2>1. Keeps(r, a) /\ a.mapped = r.mapped /\ a.sent = r.sent
    <3>1. r \in Subscription /\ d \in Targets /\ "active" \in StatusTypes
      BY <1>2 DEF Keeps, Targets, StatusTypes
    <3>2. a = Holds(r, d, "active")
      BY DEF Holds
    <3> HIDE DEF a
    <3> QED BY <3>1, <3>2, DialogKeeps
  <2> HIDE DEF a
  <2>2. Keeps(a, Delay(a)) /\ Busy(Delay(a)) /\ Delay(a).sent = a.sent /\ Delay(a).mapped = a.mapped
    BY <2>1, DelayKeeps DEF Keeps
  <2>3. Keeps(s, Delay(a))
    BY <1>2, <2>1, <2>2 DEF Keeps
  <2>4. s' = Delay(a)
    BY <1>1, <1>3 DEF Become
  <2>5. s' \in Subscription /\ excuse' \in Excuses /\ KeepsSubscribing' /\ TellsObject'
    BY <1>1, <1>3, <2>2, <2>3, Facts, BecomeStep
  <2>6. Learns /\ Sends
    BY <1>2, <1>3, <2>1, <2>2, <2>4 DEF Learns, Sends, Alive
  <2> QED BY <1>1, <2>5, <2>6, Facts DEF IInv, TypeOK, Excuses
<1>4. CASE ~s.mapped
  <2>1. s' = r
    BY <1>1, <1>4 DEF Become
  <2>2. s' \in Subscription /\ excuse' \in Excuses /\ KeepsSubscribing' /\ TellsObject'
    BY <1>1, <1>2, <1>4, Facts, BecomeStep
  <2>3. Learns /\ Sends
    BY <1>2, <2>1 DEF Learns, Sends
  <2> QED BY <1>1, <2>2, <2>3, Facts DEF IInv, TypeOK, Excuses
<1> QED BY <1>3, <1>4

(* An error has arrived: r is what the end of the transaction leaves. *)
LEMMA FailsStep ==
    ASSUME IInv, NEW r, NEW b \in BOOLEAN, Fails(r, b),
           Keeps(s, r), Deaf(s, r), Silent(s, r), r.mapped = s.mapped,
           UNCHANGED <<held, platform, events, peer, starts>>
    PROVE  IInv' /\ Learns /\ Sends
<1> DEFINE j == Rejected(r)
<1>1. Keeps(r, j) /\ j.mapped = r.mapped /\ j.sent = r.sent
  <2>1. r \in Subscription /\ NoDialog \in Targets /\ "terminated" \in StatusTypes
    BY DEF Keeps, Targets, StatusTypes
  <2>2. j = Holds(r, NoDialog, "terminated")
    BY DEF Rejected, Holds
  <2> HIDE DEF j
  <2> QED BY <2>1, <2>2, DialogKeeps
<1> HIDE DEF j
<1>2. CASE ~s.mapped
  <2>1. Become(r, excuse) /\ s' = r
    BY <1>2 DEF Fails, Become
  <2>2. s' \in Subscription /\ excuse' \in Excuses /\ KeepsSubscribing' /\ TellsObject'
    BY <1>2, <2>1, Facts, BecomeStep
  <2> QED BY <2>1, <2>2, Facts DEF IInv, TypeOK, Excuses, Learns, Sends
<1>3. CASE s.mapped /\ b
  <2>1. Become(ToSubscribe(j), excuse) /\ s' = ToSubscribe(j)
    BY <1>3 DEF Fails, Become, j
  <2>2. Keeps(j, ToSubscribe(j)) /\ (platform = "gone" \/ Busy(ToSubscribe(j)))
    BY <1>1, ToSubscribeKeeps DEF Keeps
  <2>3. Keeps(s, ToSubscribe(j))
    BY <1>1, <2>2 DEF Keeps
  <2>4. s' \in Subscription /\ excuse' \in Excuses /\ KeepsSubscribing' /\ TellsObject'
    BY <2>1, <2>2, <2>3, Facts, BecomeStep
  <2>5. Learns /\ Sends
    BY <1>3 DEF Learns, Sends, Alive
  <2> QED BY <2>4, <2>5, Facts DEF IInv, TypeOK, Excuses
<1>4. CASE s.mapped /\ ~b
  <2>1. Become(j, "refused") /\ s' = j
    BY <1>4 DEF Fails, Become, j
  <2>2. Keeps(s, j)
    BY <1>1 DEF Keeps
  <2>3. s' \in Subscription /\ excuse' \in Excuses /\ KeepsSubscribing' /\ TellsObject'
    BY <2>1, <2>2, Facts, BecomeStep DEF Excuses
  <2>4. Learns /\ Sends
    BY <1>1, <1>4, <2>1 DEF Learns, Sends, Alive
  <2> QED BY <2>3, <2>4, Facts DEF IInv, TypeOK, Excuses
<1> QED BY <1>2, <1>3, <1>4

LEMMA ReplyStep ==
    ASSUME IInv, Replies
    PROVE  IInv' /\ Learns /\ Sends
<1>1. CASE \E d \in Dialogs : AcceptNew(d) \/ AcceptRefresh(d) \/ Succeeds(d)
  BY <1>1, AcceptStep, SucceedsStep
<1>2. ASSUME NEW d \in Targets, Refuse(d) \/ ServerError(d) \/ Timeout(d)
      PROVE  IInv' /\ Learns /\ Sends
  <2>1. CASE Refuse(d)
    <3>1. /\ s.sent[d] > 0 /\ Fails(Unsent(s, d), FALSE)
          /\ UNCHANGED <<held, platform, events, peer, starts>>
      BY <2>1 DEF Refuse
    <3> QED BY <3>1, Facts, EndsKeep, FailsStep
  <2>2. CASE ServerError(d)
    <3>1. /\ s.sent[d] > 0 /\ Fails(Unsent(s, d), TRUE)
          /\ UNCHANGED <<held, platform, events, peer, starts>>
      BY <2>2 DEF ServerError
    <3> QED BY <3>1, Facts, EndsKeep, FailsStep
  <2>3. CASE Timeout(d)
    <3>1. UNCHANGED <<held, platform, events, peer, starts>>
      BY <2>3 DEF Timeout
    <3>2. CASE s.sent[d] > 0 /\ Fails(Unsent(s, d), FALSE)
      BY <3>1, <3>2, Facts, EndsKeep, FailsStep
    <3>3. CASE /\ d # NoDialog /\ s.accepted[d] > 0
               /\ Fails([s EXCEPT !.accepted[d] = @ - 1], FALSE)
      <4> DEFINE r == [s EXCEPT !.accepted[d] = @ - 1]
      <4>1. d \in Dialogs
        BY <3>3 DEF Targets
      <4>2. Keeps(s, r) /\ Deaf(s, r) /\ Silent(s, r) /\ r.mapped = s.mapped
        BY <3>3, <4>1, Facts, EndsKeep
      <4>3. Fails(r, FALSE)
        BY <3>3
      <4> HIDE DEF r
      <4> QED BY <3>1, <4>2, <4>3, FailsStep
    <3> QED BY <2>3, <3>2, <3>3 DEF Timeout
  <2> QED BY <1>2, <2>1, <2>2, <2>3
<1>3. ASSUME NEW d \in Targets, SendFails(d)
      PROVE  IInv' /\ Learns /\ Sends
  <2> DEFINE r == Unsent(s, d)
             u == [r EXCEPT !.status = "terminated"]
             t == IF Alive THEN Delay(u) ELSE r
  <2>1. /\ s.sent[d] > 0 /\ Become(t, excuse)
        /\ UNCHANGED <<held, platform, events, peer, starts>>
    BY <1>3 DEF SendFails
  <2>2. Keeps(s, r) /\ Deaf(s, r) /\ Silent(s, r) /\ r.mapped = s.mapped
    BY <2>1, Facts, EndsKeep
  <2> HIDE DEF r
  <2>3. Keeps(r, u) /\ u.mapped = r.mapped /\ u.dialog = r.dialog /\ u.status = "terminated"
    <3>1. r \in Subscription /\ "terminated" \in StatusTypes /\ NoDialog \in Targets
      BY <2>2 DEF Keeps, StatusTypes, Targets
    <3> QED BY <3>1, StatusKeeps
  <2> HIDE DEF u
  <2>4. /\ Keeps(u, Delay(u)) /\ Busy(Delay(u)) /\ Delay(u).mapped = u.mapped
        /\ Delay(u).dialog = u.dialog /\ Delay(u).status = u.status
    BY <2>3, DelayKeeps DEF Keeps
  <2>5. Keeps(s, t) /\ (Busy(t) \/ ~t.mapped) /\ Deaf(s, t) /\ (~Alive => Silent(s, t))
    BY <2>2, <2>3, <2>4 DEF Keeps, Deaf, Alive
  <2> HIDE DEF t
  <2>6. s' = t
    BY <2>1 DEF Become
  <2>7. s' \in Subscription /\ excuse' \in Excuses /\ KeepsSubscribing' /\ TellsObject'
    BY <2>1, <2>5, Facts, BecomeStep
  <2> QED BY <2>1, <2>5, <2>6, <2>7, Facts DEF IInv, TypeOK, Excuses, Learns, Sends
<1> QED BY <1>1, <1>2, <1>3 DEF Replies

LEMMA RunTaskStep ==
    ASSUME IInv, RunTask
    PROVE  IInv' /\ Learns /\ Sends
<1> DEFINE r == [s EXCEPT !.tasks = @ - 1]
           t == IF Alive THEN ToSubscribe(r) ELSE r
<1>1. /\ s.tasks > 0 /\ Become(t, excuse)
      /\ UNCHANGED <<held, platform, events, peer, starts>>
  BY DEF RunTask
<1>2. Keeps(s, r) /\ Deaf(s, r) /\ Silent(s, r) /\ r.mapped = s.mapped
  BY <1>1, Facts, EndsKeep
<1> HIDE DEF r
<1>3. /\ Keeps(r, ToSubscribe(r)) /\ Deaf(r, ToSubscribe(r))
      /\ platform = "gone" \/ Busy(ToSubscribe(r))
  BY <1>2, ToSubscribeKeeps DEF Keeps
<1>4. /\ Keeps(s, t) /\ Deaf(s, t) /\ (~Alive => Silent(s, t))
      /\ platform = "gone" \/ Busy(t) \/ ~t.mapped
  BY <1>2, <1>3 DEF Keeps, Deaf, Alive
<1> HIDE DEF t
<1>5. s' = t
  BY <1>1 DEF Become
<1>6. s' \in Subscription /\ excuse' \in Excuses /\ KeepsSubscribing' /\ TellsObject'
  BY <1>1, <1>4, Facts, BecomeStep
<1> QED BY <1>1, <1>4, <1>5, <1>6, Facts DEF IInv, TypeOK, Excuses, Learns, Sends

LEMMA BroadcastStep ==
    ASSUME IInv, NEW st \in PlatformStatus, Broadcast(st)
    PROVE  IInv' /\ Learns /\ Sends
<1>1. /\ events[st] > 0 /\ events' = [events EXCEPT ![st] = @ - 1]
      /\ UNCHANGED <<held, platform, peer, starts>>
  BY DEF Broadcast
<1>2. events' \in [PlatformStatus -> Nat] /\ (st = "offline" => events'["online"] = events["online"])
  BY <1>1, Facts
<1>3. \A d \in Targets : s.sent[d] <= s.sent[d]
  BY Facts DEF Subscription
<1>4. CASE ~(s.callback /\ Alive)
  <2>1. Become(s, IF s.starting /\ st = "online" THEN "missed" ELSE excuse)
    BY <1>4 DEF Broadcast
  <2>2. /\ s' = s /\ excuse' \in Excuses
        /\ excuse' = (IF Busy(s) THEN "none"
                      ELSE IF s.starting /\ st = "online" THEN "missed" ELSE excuse)
    BY <2>1, Facts DEF Become, Excuses
  <2>3. ASSUME s.running, s.mapped, platform = "online", excuse' = "none", ~Busy(s)
        PROVE  events'["online"] > 0
    <3>1. s.starting
      BY <1>4, <2>3, Facts DEF TellsObject, Alive
    <3>2. st # "online" /\ excuse = "none"
      BY <2>2, <2>3, <3>1
    <3>3. st = "offline"
      BY <3>2 DEF PlatformStatus
    <3> QED BY <1>2, <2>3, <3>2, <3>3, Facts DEF KeepsSubscribing
  <2>4. KeepsSubscribing'
    BY <1>1, <2>2, <2>3 DEF KeepsSubscribing, Busy
  <2>5. TellsObject'
    BY <1>1, <2>2, Facts DEF TellsObject
  <2>6. Learns /\ Sends
    BY <1>3, <2>2 DEF Learns, Sends, Deaf, Silent
  <2> QED BY <1>1, <1>2, <2>2, <2>4, <2>5, <2>6, Facts DEF IInv, TypeOK, Excuses
<1>5. CASE s.callback /\ Alive /\ st = "online"
  <2> DEFINE t == ToSubscribe(s)
  <2>1. Become(t, excuse)
    BY <1>5 DEF Broadcast
  <2>2. Keeps(s, t) /\ Deaf(s, t) /\ (platform = "gone" \/ Busy(t))
    BY Facts, ToSubscribeKeeps
  <2> HIDE DEF t
  <2>3. s' = t /\ excuse' = (IF Busy(t) THEN "none" ELSE excuse)
    BY <2>1 DEF Become
  <2>4. KeepsSubscribing'
    BY <1>1, <2>2, <2>3 DEF KeepsSubscribing, Busy
  <2>5. TellsObject'
    BY <1>1, <2>2, <2>3, Facts DEF TellsObject, Keeps
  <2>6. Learns /\ Sends
    BY <1>5, <2>2, <2>3 DEF Learns, Sends
  <2> QED BY <1>1, <1>2, <2>2, <2>3, <2>4, <2>5, <2>6, Facts DEF IInv, TypeOK, Excuses, Keeps
<1>6. CASE s.callback /\ Alive /\ st = "offline"
  <2> DEFINE u == [s EXCEPT !.status = "terminated"]
  <2>1. Become(u, excuse)
    BY <1>6 DEF Broadcast
  <2>2. /\ Keeps(s, u) /\ Busy(u) = Busy(s) /\ u.dialog = s.dialog
        /\ u.status = "terminated" /\ u.sent = s.sent
    BY Facts, StatusKeeps DEF StatusTypes
  <2> HIDE DEF u
  <2>3. s' = u
    BY <2>1 DEF Become
  <2>4. s' \in Subscription /\ excuse' \in Excuses /\ KeepsSubscribing' /\ TellsObject'
    BY <1>1, <1>2, <1>6, <2>1, <2>2, Facts, BecomeStep
  <2>5. Learns /\ Sends
    BY <1>3, <2>2, <2>3 DEF Learns, Sends, Deaf, Silent
  <2> QED BY <1>1, <1>2, <2>4, <2>5, Facts DEF IInv, TypeOK, Excuses
<1> QED BY <1>4, <1>5, <1>6 DEF PlatformStatus

LEMMA PlatformStep ==
    ASSUME IInv,
           CamouflageOnline \/ PlatformGone \/ \E st \in PlatformStatus : PlatformIs(st)
    PROVE  IInv' /\ Learns /\ Sends
<1>1. \A d \in Targets : s.sent[d] <= s.sent[d]
  BY Facts DEF Subscription
<1>2. CASE CamouflageOnline
  <2>1. /\ platform = "offline" /\ platform' = "online" /\ Become(s, "missed")
        /\ UNCHANGED <<held, events, peer, starts>>
    BY <1>2 DEF CamouflageOnline
  <2>2. s' = s /\ excuse' = (IF Busy(s) THEN "none" ELSE "missed")
    BY <2>1 DEF Become
  <2>3. TypeOK'
    BY <2>1, <2>2, Facts DEF TypeOK, Excuses
  <2>4. KeepsSubscribing' /\ TellsObject'
    BY <2>1, <2>2, Facts DEF KeepsSubscribing, TellsObject, Busy
  <2> QED BY <1>1, <2>2, <2>3, <2>4 DEF IInv, Learns, Sends, Deaf, Silent
<1>3. CASE PlatformGone
  <2>1. /\ platform' = "gone" /\ s' = [s EXCEPT !.callback = FALSE]
        /\ UNCHANGED <<held, events, peer, starts, excuse>>
    BY <1>3 DEF PlatformGone
  <2>2. /\ s' \in Subscription
        /\ s'.dialog = s.dialog /\ s'.status = s.status /\ s'.sent = s.sent
    BY <2>1, Facts DEF Subscription
  <2>3. TypeOK'
    BY <2>1, <2>2, Facts DEF TypeOK, Excuses
  <2>4. KeepsSubscribing' /\ TellsObject'
    BY <2>1 DEF KeepsSubscribing, TellsObject
  <2> QED BY <1>1, <2>2, <2>3, <2>4 DEF IInv, Learns, Sends, Deaf, Silent
<1>4. ASSUME NEW st \in PlatformStatus, PlatformIs(st)
      PROVE  IInv' /\ Learns /\ Sends
  <2>1. /\ platform # "gone" /\ platform' = st
        /\ events' = [events EXCEPT ![st] = @ + 1]
        /\ UNCHANGED <<s, held, peer, starts, excuse>>
    BY <1>4 DEF PlatformIs
  <2>2. events' \in [PlatformStatus -> Nat] /\ (st = "online" => events'["online"] > 0)
    BY <2>1, Facts
  <2>3. TypeOK'
    BY <2>1, <2>2, Facts DEF TypeOK, Excuses
  <2>4. KeepsSubscribing' /\ TellsObject'
    BY <2>1, <2>2, Facts DEF KeepsSubscribing, TellsObject, Busy
  <2> QED BY <1>1, <2>1, <2>3, <2>4 DEF IInv, Learns, Sends, Deaf, Silent
<1> QED BY <1>2, <1>3, <1>4

LEMMA NotificationStep ==
    ASSUME IInv, Notifications
    PROVE  IInv' /\ Learns /\ Sends
<1>1. ASSUME NEW d \in Dialogs, NEW state \in {"active", "pending"}, NEW extends \in BOOLEAN,
             Notify(d, state, extends)
      PROVE  IInv' /\ Learns /\ Sends
  <2> DEFINE u == [s EXCEPT !.status = state]
             t == IF extends THEN Delay(u) ELSE u
  <2>1. /\ s.mapped /\ Become(t, excuse)
        /\ UNCHANGED <<held, platform, events, peer, starts>>
    BY <1>1 DEF Notify
  <2>2. Keeps(s, u) /\ Busy(u) = Busy(s) /\ u.mapped = s.mapped
    BY Facts, StatusKeeps DEF StatusTypes
  <2> HIDE DEF u
  <2>3. Keeps(u, Delay(u)) /\ Busy(Delay(u)) /\ Delay(u).mapped = u.mapped
    BY <2>2, DelayKeeps DEF Keeps
  <2>4. Keeps(s, t) /\ (Busy(s) => Busy(t)) /\ t.mapped
    BY <2>1, <2>2, <2>3 DEF Keeps
  <2> HIDE DEF t
  <2>5. s' \in Subscription /\ excuse' \in Excuses /\ KeepsSubscribing' /\ TellsObject'
    BY <2>1, <2>4, Facts, BecomeStep
  <2> QED BY <2>1, <2>5, Facts DEF IInv, TypeOK, Excuses, Learns, Sends, Alive
<1>2. ASSUME NEW d \in Dialogs, NEW known \in BOOLEAN, NotifyTerminated(d, known)
      PROVE  IInv' /\ Learns /\ Sends
  <2> DEFINE w == [s EXCEPT !.status = "terminated"]
             u == IF known THEN w ELSE s
             t == Delay(u)
  <2>1. /\ s.mapped /\ Become(t, excuse) /\ peer' \in [Dialogs -> DialogStates]
        /\ UNCHANGED <<held, platform, events, starts>>
    BY <1>2, Facts DEF NotifyTerminated, DialogStates
  <2>2. Keeps(s, w) /\ w.mapped = s.mapped
    BY Facts, StatusKeeps DEF StatusTypes
  <2> HIDE DEF w
  <2>3. Keeps(s, u) /\ u.mapped = s.mapped
    BY <2>2, Facts DEF Keeps
  <2> HIDE DEF u
  <2>4. Keeps(u, t) /\ Busy(t)
    BY <2>3, DelayKeeps DEF Keeps
  <2>5. Keeps(s, t)
    BY <2>3, <2>4 DEF Keeps
  <2> HIDE DEF t
  <2>6. s' \in Subscription /\ excuse' \in Excuses /\ KeepsSubscribing' /\ TellsObject'
    BY <2>1, <2>4, <2>5, Facts, BecomeStep
  <2> QED BY <2>1, <2>6, Facts DEF IInv, TypeOK, Excuses, Learns, Sends, Alive
<1>3. ASSUME NEW d \in Dialogs, Forget(d)
      PROVE  IInv' /\ Learns /\ Sends
  <2>1. /\ peer' = [peer EXCEPT ![d] = "none"]
        /\ UNCHANGED <<s, held, platform, events, starts, excuse>>
    BY <1>3 DEF Forget
  <2>2. TypeOK'
    BY <2>1, Facts DEF TypeOK, Excuses, DialogStates
  <2>3. KeepsSubscribing' /\ TellsObject'
    BY <2>1, Facts DEF KeepsSubscribing, TellsObject, Busy
  <2>4. Silent(s, s')
    BY <2>1, Facts DEF Silent, Subscription
  <2> QED BY <2>1, <2>2, <2>3, <2>4 DEF IInv, Learns, Sends, Deaf
<1> QED BY <1>1, <1>2, <1>3 DEF Notifications

-------------------------------------------------------------------------------
\* Theorems

LEMMA InitIInv == Init => IInv
<1> SUFFICES ASSUME Init PROVE IInv
  OBVIOUS
<1>1. TypeOK
  <2>1. s \in Subscription
    BY DEF Init, Subscription, StatusTypes, Targets
  <2>2. starts \in 0..MaxStarts
    BY SubscriptionAssumption DEF Init
  <2> QED BY <2>1, <2>2 DEF Init, TypeOK, PlatformStatus, DialogStates
<1>2. KeepsSubscribing /\ TellsObject
  BY DEF Init, KeepsSubscribing, TellsObject
<1> QED BY <1>1, <1>2 DEF IInv

LEMMA StepIInv == IInv /\ Next => IInv' /\ Learns /\ Sends
<1> SUFFICES ASSUME IInv, Next PROVE IInv' /\ Learns /\ Sends
  OBVIOUS
<1>1. CASE Start
  BY <1>1, StartStep
<1>2. CASE Registered \/ Shutdown \/ Release
  BY <1>2, CallStep
<1>3. CASE Replies
  BY <1>3, ReplyStep
<1>4. CASE RunTask
  BY <1>4, RunTaskStep
<1>5. CASE \E st \in PlatformStatus : Broadcast(st)
  BY <1>5, BroadcastStep
<1>6. CASE CamouflageOnline \/ PlatformGone \/ \E st \in PlatformStatus : PlatformIs(st)
  BY <1>6, PlatformStep
<1>7. CASE Notifications
  BY <1>7, NotificationStep
<1> QED BY <1>1, <1>2, <1>3, <1>4, <1>5, <1>6, <1>7 DEF Next

LEMMA StutterIInv == IInv /\ UNCHANGED vars => IInv'
<1> SUFFICES ASSUME IInv, UNCHANGED vars PROVE IInv'
  OBVIOUS
<1>1. UNCHANGED <<s, held, platform, events, peer, starts, excuse>>
  BY DEF vars
<1>2. TypeOK'
  BY <1>1, Facts DEF TypeOK, Excuses
<1>3. KeepsSubscribing' /\ TellsObject'
  BY <1>1, Facts DEF KeepsSubscribing, TellsObject, Busy
<1> QED BY <1>2, <1>3 DEF IInv

(* The inductive invariant holds in every reachable state. *)
THEOREM Invariance == Spec => []IInv
<1>1. IInv /\ [Next]_vars => IInv'
  BY StepIInv, StutterIInv
<1> QED BY InitIInv, <1>1, PTL DEF Spec

(* Every variable keeps its type: no transaction, task, 2xx or broadcast is  *)
(* taken that is not there.                                                  *)
THEOREM TypeCorrect == Spec => []TypeOK
<1>1. IInv => TypeOK
  BY DEF IInv
<1> QED BY Invariance, <1>1, PTL

(* on_subscribe_reply(), on_recv_notify() and the tasks never leave a        *)
(* running subscription without a next step, but for the two excuses.        *)
THEOREM KeepsSubscribingCorrect == Spec => []KeepsSubscribing
<1>1. IInv => KeepsSubscribing
  BY DEF IInv
<1> QED BY Invariance, <1>1, PTL

(* get_subscribe() keeps replies and NOTIFYs from a subscription that has    *)
(* been shut down.                                                           *)
THEOREM StoppedLearnsNothingCorrect == Spec => StoppedLearnsNothing
<1>1. IInv /\ [Next]_vars
        => [~s.mapped /\ ~s'.mapped => /\ s'.dialog = s.dialog
                                       /\ s'.status = "active" => s.status = "active"]_vars
  BY StepIInv DEF Learns, Deaf
<1> QED BY Invariance, <1>1, PTL DEF Spec, StoppedLearnsNothing

(* The tasks and callbacks that outlive the object send nothing. *)
THEOREM ReleasedSendsNothingCorrect == Spec => ReleasedSendsNothing
<1>1. IInv /\ [Next]_vars => [~Alive => \A d \in Targets : s'.sent[d] <= s.sent[d]]_vars
  BY StepIInv DEF Sends, Silent
<1> QED BY Invariance, <1>1, PTL DEF Spec, ReleasedSendsNothing

===============================================================================

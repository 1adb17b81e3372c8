---------------------------- MODULE SipServerProofs ----------------------------
(***************************************************************************)
(* Theorems about the two parts of the SIP server.  First PlatformServer:  *)
(* its platforms, for every set of pollers and objects, every bound and    *)
(* every combination of faults.  Then SipSession: the connections their    *)
(* messages come on, for any number of messages and keepalives and however *)
(* TCP cuts the stream.  The two share no variable.                        *)
(***************************************************************************)
EXTENDS PlatformServer, SipSession, SequenceTheorems, WellFoundedInduction, TLAPS

-------------------------------------------------------------------------------
\* The inductive invariant

(* A handler only works on objects that are made, and only these have timers. *)
HandlersHold == \A t \in Pollers : calls[t].step \in {"status", "timer"} =>
                    calls[t].obj \in Objects /\ plat[calls[t].obj].made
TimersHold == \A o \in Objects : plat[o].timer # NoTimer => plat[o].made

(* Unless set_status() has met set_status(), one handler is about to assign  *)
(* the timer of an object, and it is the one that assigned the status.       *)
AtTimer(t, o) == calls[t].obj = o /\ calls[t].step = "timer"
Orderly == \A o \in Objects \ raced : \A t \in Pollers : AtTimer(t, o) =>
               /\ \A u \in Pollers : AtTimer(u, o) => u = t
               /\ plat[o].status = "online" <=> calls[t].to # "offline"

IInv == TypeOK /\ HandlersHold /\ TimersHold /\ Orderly /\ WatchedWhenOnline

(* the invariant but for the type of the variables *)
Order == HandlersHold /\ TimersHold /\ Orderly /\ WatchedWhenOnline

(* the objects are as before but for fresh *)
SameObjects == \A o \in Objects : /\ plat'[o].made = plat[o].made
                                  /\ plat'[o].status = plat[o].status
                                  /\ plat'[o].timer = plat[o].timer

(* a handler c that begins *)
Begins(c) == /\ c \in Call /\ c.step \in {"status", "insert"}
             /\ c.step = "status" => c.obj \in Objects /\ plat[c.obj].made

-------------------------------------------------------------------------------
\* The pieces of the handlers

LEMMA CallTypes ==
    /\ Idle \in Call /\ Idle.step = "idle"
    /\ LET c == [Idle EXCEPT !.step = "insert"] IN c \in Call /\ c.step = "insert"
    /\ \A o \in Objects : \A st \in {"online", "offline", "camouflage"} :
         \A reply \in {"none", "peer", "app"} :
           LET c == SetStatus(o, st, reply)
           IN  c \in Call /\ c.step = "status" /\ c.obj = o
BY DEF Idle, Call, Steps, SetStatus

(* Steps that leave status, timers and handlers alone, but for a poller that *)
(* takes up a handler, keep the order.                                       *)
LEMMA BeginningKeepsOrder ==
    ASSUME IInv, SameObjects, raced' = raced,
           \/ calls' = calls
           \/ \E t \in Pollers, c \in Call : Free(t) /\ Begins(c) /\ Enters(t, c)
    PROVE  Order'
<1>1. CASE calls' = calls
  BY <1>1 DEF IInv, Order, SameObjects, HandlersHold, TimersHold, Orderly, AtTimer,
              WatchedWhenOnline, InProgress
<1>2. CASE \E t \in Pollers, c \in Call : Free(t) /\ Begins(c) /\ Enters(t, c)
  <2>1. PICK t \in Pollers, c \in Call : /\ calls[t] = Idle /\ Begins(c)
                                         /\ calls' = [calls EXCEPT ![t] = c]
    BY <1>2 DEF Enters, Free
  <2>2. /\ calls'[t] = c /\ c.step # "timer" /\ calls[t].step # "timer"
        /\ \A u \in Pollers \ {t} : calls'[u] = calls[u]
    BY <2>1, CallTypes DEF Begins, IInv, TypeOK
  <2>3. \A u \in Pollers, o \in Objects :
            /\ AtTimer(u, o)' <=> AtTimer(u, o)
            /\ AtTimer(u, o) => calls'[u] = calls[u]
    BY <2>2 DEF AtTimer
  <2>4. HandlersHold'
    BY <2>1, <2>2 DEF IInv, HandlersHold, SameObjects, Begins
  <2>5. TimersHold'
    BY DEF IInv, TimersHold, SameObjects
  <2>6. Orderly'
    BY <2>3 DEF IInv, Orderly, SameObjects
  <2>7. WatchedWhenOnline'
    BY <2>3 DEF IInv, WatchedWhenOnline, InProgress, AtTimer, SameObjects
  <2> QED BY <2>4, <2>5, <2>6, <2>7 DEF Order
<1> QED BY <1>1, <1>2

(* Steps that only assign the object o, which no handler works on, and leave *)
(* it without a timer and not online, keep the order.                        *)
LEMMA RenewingKeepsOrder ==
    ASSUME IInv, NEW o \in Objects, \A t \in Pollers : ~Sets(t, o),
           plat'[o].timer = NoTimer, plat'[o].status # "online",
           \A p \in Objects \ {o} : plat'[p] = plat[p],
           raced' \in {raced, raced \ {o}}, calls' = calls
    PROVE  Order'
<1>1. \A t \in Pollers : calls[t].obj = o => calls[t].step \notin {"status", "timer"}
  BY DEF Sets
<1>2. HandlersHold'
  BY <1>1 DEF IInv, HandlersHold
<1>3. TimersHold'
  BY DEF IInv, TimersHold
<1>4. Orderly'
  BY <1>1 DEF IInv, Orderly, AtTimer
<1>5. WatchedWhenOnline'
  BY <1>1 DEF IInv, WatchedWhenOnline, InProgress
<1> QED BY <1>2, <1>3, <1>4, <1>5 DEF Order

LEMMA NewObjectIsFree ==
    ASSUME IInv, \E o \in Objects : ~plat[o].made
    PROVE  /\ NewObject \in Objects /\ ~plat[NewObject].made
           /\ \A t \in Pollers : ~Sets(t, NewObject)
<1>1. NewObject \in Objects /\ ~plat[NewObject].made
  BY DEF NewObject
<1> QED BY <1>1 DEF IInv, HandlersHold, Sets

LEMMA NewPlatformType ==
    ASSUME NEW made \in BOOLEAN, NEW st \in StatusTypes
    PROVE  /\ NewPlatform(made, st) \in Platform
           /\ NewPlatform(made, st).made = made
           /\ NewPlatform(made, st).status = st
           /\ NewPlatform(made, st).timer = NoTimer
BY DEF NewPlatform, Platform

LEMMA MakingKeeps ==
    ASSUME IInv, NEW st \in StatusTypes, st # "online", Makes(st)
    PROVE  /\ plat' \in [Objects -> Platform] /\ registry' \in Objects
           /\ \A o \in Objects : registry' = o => plat'[o].made
           /\ plat'[NewObject].made /\ plat'[NewObject].timer = NoTimer
           /\ plat'[NewObject].status # "online"
           /\ \A p \in Objects \ {NewObject} : plat'[p] = plat[p]
<1>1. NewObject \in Objects
  BY NewObjectIsFree DEF Makes
<1>2. plat' = [plat EXCEPT ![NewObject] = NewPlatform(TRUE, st)] /\ registry' = NewObject
  BY DEF Makes
<1> DEFINE new == NewPlatform(TRUE, st)
<1>3. new \in Platform /\ new.made /\ new.status = st /\ new.timer = NoTimer
  BY NewPlatformType
<1> HIDE DEF new
<1>4. /\ plat \in [Objects -> Platform] /\ plat' = [plat EXCEPT ![NewObject] = new]
      /\ \A o \in Objects : registry = o => plat[o].made
  BY <1>2 DEF IInv, TypeOK, new
<1>5. /\ plat' \in [Objects -> Platform] /\ plat'[NewObject] = new
      /\ \A p \in Objects \ {NewObject} : plat'[p] = plat[p]
  BY <1>1, <1>3, <1>4
<1> QED BY <1>1, <1>2, <1>3, <1>5

-------------------------------------------------------------------------------
\* The handlers

LEMMA InsertKeeps ==
    ASSUME IInv, NEW t \in Pollers, Insert(t)
    PROVE  IInv'
<1> DEFINE n == NewObject
           c == SetStatus(n, "online", "app")
<1>1. /\ calls[t].step = "insert" /\ Makes("registering")
      /\ calls' = [calls EXCEPT ![t] = c]
      /\ UNCHANGED <<running, asked, peer, events, raced>>
  BY DEF Insert, Enters
<1>2. n \in Objects /\ ~plat[n].made /\ \A u \in Pollers : ~Sets(u, n)
  BY <1>1, NewObjectIsFree DEF Makes
<1>3. /\ plat' \in [Objects -> Platform] /\ registry' \in Objects
      /\ \A o \in Objects : registry' = o => plat'[o].made
      /\ plat'[n].made /\ plat'[n].timer = NoTimer /\ plat'[n].status # "online"
      /\ \A p \in Objects \ {n} : plat'[p] = plat[p]
  BY <1>1, MakingKeeps DEF StatusTypes
<1>4. c \in Call /\ c.step = "status" /\ c.obj = n
  BY <1>2, CallTypes
<1> HIDE DEF n, c
<1>5. TypeOK'
  BY <1>1, <1>3, <1>4 DEF IInv, TypeOK
<1>6. /\ calls'[t] = c /\ \A u \in Pollers \ {t} : calls'[u] = calls[u]
  BY <1>1 DEF IInv, TypeOK
<1>7. \A u \in Pollers, o \in Objects :
          /\ AtTimer(u, o)' <=> AtTimer(u, o)
          /\ AtTimer(u, o) => calls'[u] = calls[u] /\ o # n
  BY <1>1, <1>2, <1>4, <1>6 DEF AtTimer, Sets
<1>8. HandlersHold'
  BY <1>2, <1>3, <1>4, <1>6 DEF IInv, HandlersHold, Sets
<1>9. TimersHold'
  BY <1>3 DEF IInv, TimersHold
<1>10. Orderly'
  BY <1>1, <1>3, <1>7 DEF IInv, Orderly
<1>11. WatchedWhenOnline'
  BY <1>1, <1>3, <1>7 DEF IInv, WatchedWhenOnline, InProgress, AtTimer
<1> QED BY <1>5, <1>8, <1>9, <1>10, <1>11 DEF IInv

LEMMA AddPlatformKeeps ==
    ASSUME IInv, AddPlatform
    PROVE  IInv'
<1> DEFINE n == NewObject
<1>1. /\ events' \in 0..MaxEvents /\ Makes("offline")
      /\ UNCHANGED <<running, calls, asked, peer, raced>>
  BY ServerAssumption DEF AddPlatform, ServerAssumption, IInv, TypeOK
<1>2. n \in Objects /\ \A u \in Pollers : ~Sets(u, n)
  BY <1>1, NewObjectIsFree DEF Makes
<1>3. /\ plat' \in [Objects -> Platform] /\ registry' \in Objects
      /\ \A o \in Objects : registry' = o => plat'[o].made
      /\ plat'[n].timer = NoTimer /\ plat'[n].status # "online"
      /\ \A p \in Objects \ {n} : plat'[p] = plat[p]
  BY <1>1, MakingKeeps DEF StatusTypes
<1> HIDE DEF n
<1>4. TypeOK'
  BY <1>1, <1>3 DEF IInv, TypeOK
<1>5. Order'
  BY <1>1, <1>2, <1>3, RenewingKeepsOrder
<1> QED BY <1>4, <1>5 DEF IInv, Order

LEMMA ReleaseKeeps ==
    ASSUME IInv, NEW o \in Objects, Release(o)
    PROVE  IInv'
<1>1. /\ registry # o /\ \A t \in Pollers : ~Sets(t, o)
      /\ plat' = [plat EXCEPT ![o] = NewPlatform(FALSE, "offline")]
      /\ raced' = raced \ {o}
      /\ UNCHANGED <<registry, running, calls, asked, peer, events>>
  BY DEF Release, InUse
<1>2. /\ plat' \in [Objects -> Platform]
      /\ plat'[o].timer = NoTimer /\ plat'[o].status # "online"
      /\ \A p \in Objects \ {o} : plat'[p] = plat[p]
  BY <1>1, NewPlatformType DEF IInv, TypeOK, StatusTypes
<1>3. TypeOK'
  BY <1>1, <1>2 DEF IInv, TypeOK
<1>4. Order'
  BY <1>1, <1>2, RenewingKeepsOrder
<1> QED BY <1>3, <1>4 DEF IInv, Order

(* The first half of set_status(): either it meets another handler between   *)
(* the halves, and the object is raced, or it is the only one to go on.      *)
LEMMA AssignStatusKeeps ==
    ASSUME IInv, NEW t \in Pollers, AssignStatus(t)
    PROVE  IInv'
<1>0. PICK c \in Call, o \in Objects : c = calls[t] /\ o = c.obj
  BY DEF AssignStatus, IInv, TypeOK, HandlersHold
<1> DEFINE d == [c EXCEPT !.step = "timer"]
           st == IF c.to = "offline" THEN "offline" ELSE "online"
<1>1. /\ c.step = "status"
      /\ raced' = IF Meets(t, o) THEN raced \cup {o} ELSE raced \ {o}
      /\ calls' = [calls EXCEPT ![t] = d]
      /\ UNCHANGED <<registry, running, asked, peer, events>>
  BY <1>0 DEF AssignStatus, Enters
<1>2. PICK f \in BOOLEAN : plat' = [plat EXCEPT ![o].status = st, ![o].fresh = f]
  BY <1>0 DEF AssignStatus
<1>3. plat[o].made
  BY <1>0, <1>1 DEF IInv, HandlersHold
<1>4. d \in Call /\ d.step = "timer" /\ d.obj = o /\ d.to = c.to
  BY <1>0 DEF Call, Steps
<1>5. /\ plat' \in [Objects -> Platform]
      /\ plat'[o].status = st /\ plat'[o].made = plat[o].made /\ plat'[o].timer = plat[o].timer
      /\ \A p \in Objects \ {o} : plat'[p] = plat[p]
  <2>1. st \in StatusTypes
    BY DEF StatusTypes
  <2> DEFINE q == [plat[o] EXCEPT !.status = st, !.fresh = f]
  <2>2. plat' = [plat EXCEPT ![o] = q]
    BY <1>2, <1>3 DEF IInv, TypeOK
  <2>3. /\ q \in Platform
        /\ q.status = st /\ q.made = plat[o].made /\ q.timer = plat[o].timer
    BY <1>3, <2>1 DEF IInv, TypeOK, Platform
  <2> HIDE DEF q, st
  <2> QED BY <1>3, <2>2, <2>3 DEF IInv, TypeOK
<1>6. st = "online" <=> c.to # "offline"
  OBVIOUS
<1>7. calls'[t] = d /\ \A u \in Pollers \ {t} : calls'[u] = calls[u]
  BY <1>1 DEF IInv, TypeOK
<1>8. Meets(t, o) <=> \E u \in Pollers \ {t} : AtTimer(u, o)
  BY DEF Meets, AtTimer
<1>9. ~AtTimer(t, o) /\ \A p \in Objects \ {o} : ~AtTimer(t, p) /\ ~AtTimer(t, p)'
  BY <1>0, <1>1, <1>4, <1>7 DEF AtTimer
<1> HIDE DEF d, st
<1>10. TypeOK'
  <2>1. calls' \in [Pollers -> Call]
    BY <1>1, <1>4 DEF IInv, TypeOK
  <2>2. raced' \subseteq Objects
    BY <1>1, <1>3 DEF IInv, TypeOK
  <2>3. \A p \in Objects : registry' = p => plat'[p].made
    BY <1>1, <1>5, <1>3 DEF IInv, TypeOK
  <2> QED BY <1>1, <1>5, <2>1, <2>2, <2>3 DEF IInv, TypeOK
<1>11. HandlersHold'
  <2>1. \A p \in Objects : plat'[p].made <=> plat[p].made
    BY <1>3, <1>5
  <2> SUFFICES ASSUME NEW u \in Pollers, calls'[u].step \in {"status", "timer"}
               PROVE  calls'[u].obj \in Objects /\ plat'[calls'[u].obj].made
    BY DEF HandlersHold
  <2>2. CASE u = t
    BY <1>3, <1>4, <1>7, <2>1, <2>2
  <2>3. CASE u # t
    BY <1>7, <2>1, <2>3 DEF IInv, HandlersHold
  <2> QED BY <2>2, <2>3
<1>12. TimersHold'
  BY <1>3, <1>5 DEF IInv, TimersHold
<1>13. \A p \in Objects \ {o} : \A u \in Pollers :
           /\ AtTimer(u, p)' <=> AtTimer(u, p)
           /\ AtTimer(u, p) => calls'[u] = calls[u]
  BY <1>7, <1>9 DEF AtTimer
<1>14. AtTimer(t, o)'
  BY <1>4, <1>7 DEF AtTimer
<1>15. \A u \in Pollers \ {t} : AtTimer(u, o)' <=> AtTimer(u, o)
  BY <1>7 DEF AtTimer
<1>16. o \notin raced' => ~Meets(t, o)
  BY <1>1
<1>17. \A p \in Objects \ {o} : p \in raced' <=> p \in raced
  BY <1>1
<1>18. Orderly'
  <2> SUFFICES ASSUME NEW p \in Objects, p \notin raced', NEW u \in Pollers, AtTimer(u, p)'
               PROVE  /\ \A v \in Pollers : AtTimer(v, p)' => v = u
                      /\ plat'[p].status = "online" <=> calls'[u].to # "offline"
    BY DEF Orderly
  <2>1. CASE p = o
    BY <1>4, <1>5, <1>6, <1>7, <1>8, <1>15, <1>16, <2>1
  <2>2. CASE p # o
    BY <1>5, <1>13, <1>17, <2>2 DEF IInv, Orderly
  <2> QED BY <2>1, <2>2
<1>19. WatchedWhenOnline'
  <2> SUFFICES ASSUME NEW p \in Objects, plat'[p].made, ~InProgress(p)', p \notin raced'
               PROVE  plat'[p].timer # NoTimer <=> plat'[p].status = "online"
    BY DEF WatchedWhenOnline
  <2>1. p # o
    BY <1>14 DEF InProgress, AtTimer
  <2> QED BY <1>5, <1>13, <1>17, <2>1 DEF IInv, WatchedWhenOnline, InProgress, AtTimer
<1> QED BY <1>10, <1>11, <1>12, <1>18, <1>19 DEF IInv

(* The second half: the timer follows the status of an object that is not    *)
(* raced, for this handler has assigned it.                                  *)
LEMMA AssignTimerKeeps ==
    ASSUME IInv, NEW t \in Pollers, NEW heard \in BOOLEAN, AssignTimer(t, heard)
    PROVE  IInv'
<1>0. PICK c \in Call, o \in Objects : c = calls[t] /\ o = c.obj
  BY DEF AssignTimer, IInv, TypeOK, HandlersHold
<1> DEFINE k == NextTimer(t, c)
<1>1. /\ c.step = "timer"
      /\ plat' = [plat EXCEPT ![o].timer = k]
      /\ peer' = IF heard THEN Hears(c) ELSE peer
      /\ calls' = [calls EXCEPT ![t] = Idle]
      /\ UNCHANGED <<registry, running, asked, events, raced>>
  BY <1>0 DEF AssignTimer, Enters
<1>2. plat[o].made
  BY <1>0, <1>1 DEF IInv, HandlersHold
<1>3. k \in Pollers \cup {NoTimer} /\ (k # NoTimer <=> c.to # "offline")
  BY ServerAssumption DEF ServerAssumption, NextTimer
<1>4. peer' \in {"off", "starting", "registering", "registered"}
  BY <1>1 DEF Hears, IInv, TypeOK
<1> HIDE DEF k
<1>5. /\ plat' \in [Objects -> Platform]
      /\ plat'[o].timer = k /\ plat'[o].made = plat[o].made /\ plat'[o].status = plat[o].status
      /\ \A p \in Objects \ {o} : plat'[p] = plat[p]
  <2> DEFINE q == [plat[o] EXCEPT !.timer = k]
  <2>1. plat' = [plat EXCEPT ![o] = q]
    BY <1>1, <1>2 DEF IInv, TypeOK
  <2>2. q \in Platform /\ q.timer = k /\ q.made = plat[o].made /\ q.status = plat[o].status
    BY <1>2, <1>3 DEF IInv, TypeOK, Platform
  <2> HIDE DEF q
  <2> QED BY <1>2, <2>1, <2>2 DEF IInv, TypeOK
<1>6. calls'[t] = Idle /\ \A u \in Pollers \ {t} : calls'[u] = calls[u]
  BY <1>1 DEF IInv, TypeOK
<1>7. AtTimer(t, o) /\ \A p \in Objects : ~AtTimer(t, p)'
  BY <1>0, <1>1, <1>6, CallTypes DEF AtTimer
<1>8. \A p \in Objects \ {o} : \A u \in Pollers :
          /\ AtTimer(u, p)' <=> AtTimer(u, p)
          /\ AtTimer(u, p) => calls'[u] = calls[u]
  BY <1>6, <1>7 DEF AtTimer
<1>9. \A u \in Pollers : AtTimer(u, o)' => AtTimer(u, o) /\ u # t
  BY <1>6, <1>7 DEF AtTimer
<1>10. TypeOK'
  <2>1. calls' \in [Pollers -> Call]
    BY <1>1, CallTypes DEF IInv, TypeOK
  <2>2. \A p \in Objects : registry' = p => plat'[p].made
    BY <1>1, <1>2, <1>5 DEF IInv, TypeOK
  <2> QED BY <1>1, <1>4, <1>5, <2>1, <2>2 DEF IInv, TypeOK
<1>11. HandlersHold'
  <2>1. \A p \in Objects : plat'[p].made <=> plat[p].made
    BY <1>2, <1>5
  <2> SUFFICES ASSUME NEW u \in Pollers, calls'[u].step \in {"status", "timer"}
               PROVE  calls'[u].obj \in Objects /\ plat'[calls'[u].obj].made
    BY DEF HandlersHold
  <2>2. u # t
    BY <1>6, CallTypes
  <2> QED BY <1>6, <2>1, <2>2 DEF IInv, HandlersHold
<1>12. TimersHold'
  BY <1>2, <1>5 DEF IInv, TimersHold
<1>13. o \notin raced => plat[o].status = "online" <=> c.to # "offline"
  BY <1>0, <1>7 DEF IInv, Orderly
<1>14. o \notin raced => \A u \in Pollers : ~AtTimer(u, o)'
  BY <1>2, <1>7, <1>9 DEF IInv, Orderly
<1>15. Orderly'
  <2> SUFFICES ASSUME NEW p \in Objects, p \notin raced, NEW u \in Pollers, AtTimer(u, p)'
               PROVE  /\ \A v \in Pollers : AtTimer(v, p)' => v = u
                      /\ plat'[p].status = "online" <=> calls'[u].to # "offline"
    BY <1>1 DEF Orderly
  <2>1. p # o
    BY <1>14
  <2> QED BY <1>5, <1>8, <2>1 DEF IInv, Orderly
<1>16. WatchedWhenOnline'
  <2> SUFFICES ASSUME NEW p \in Objects, plat'[p].made, ~InProgress(p)', p \notin raced
               PROVE  plat'[p].timer # NoTimer <=> plat'[p].status = "online"
    BY <1>1 DEF WatchedWhenOnline
  <2>1. CASE p = o
    BY <1>3, <1>5, <1>13, <2>1
  <2>2. CASE p # o
    BY <1>5, <1>8, <2>2 DEF IInv, WatchedWhenOnline, InProgress, AtTimer
  <2> QED BY <2>1, <2>2
<1> QED BY <1>10, <1>11, <1>12, <1>15, <1>16 DEF IInv

(* The handlers that begin on a free poller, and the steps beside them. *)
LEMMA RegisterKeeps ==
    ASSUME IInv, NEW t \in Pollers, Register(t) \/ Logout(t)
    PROVE  IInv'
<1>1. /\ UNCHANGED <<plat, registry, running, events, raced>>
      /\ asked' \in 0..MaxAsked
      /\ peer' \in {"off", "starting", "registering", "registered"}
  BY ServerAssumption DEF Register, Logout, ServerAssumption, IInv, TypeOK
<1>2. SameObjects
  BY <1>1 DEF SameObjects
<1>3. \/ calls' = calls
      \/ \E c \in Call : Free(t) /\ Begins(c) /\ Enters(t, c)
  <2>1. registry # NoObject => registry \in Objects /\ plat[registry].made
    BY DEF IInv, TypeOK
  <2> QED BY <2>1, CallTypes DEF Register, Logout, Begins
<1>4. TypeOK'
  BY <1>1, <1>3 DEF IInv, TypeOK, Enters
<1> QED BY <1>1, <1>2, <1>3, <1>4, BeginningKeepsOrder DEF IInv, Order

LEMMA DecideKeeps ==
    ASSUME IInv, NEW t \in Pollers, NEW allow \in BOOLEAN, Decide(t, allow)
    PROVE  IInv'
<1>1. UNCHANGED <<plat, registry, running, peer, events, raced>> /\ asked' \in 0..MaxAsked
  BY ServerAssumption DEF Decide, ServerAssumption, IInv, TypeOK
<1>2. SameObjects
  BY <1>1 DEF SameObjects
<1>3. \/ calls' = calls
      \/ \E c \in Call : Free(t) /\ Begins(c) /\ Enters(t, c)
  <2>1. registry # NoObject => registry \in Objects /\ plat[registry].made
    BY DEF IInv, TypeOK
  <2>2. CASE registry # NoObject
    BY <2>1, <2>2, CallTypes DEF Decide, Begins
  <2>3. CASE registry = NoObject
    <3> DEFINE c == [Idle EXCEPT !.step = "insert"]
    <3>1. c \in Call /\ c.step = "insert"
      BY CallTypes
    <3>2. calls' = calls \/ (Free(t) /\ Enters(t, c))
      BY <2>3 DEF Decide
    <3> HIDE DEF c
    <3> QED BY <3>1, <3>2 DEF Begins
  <2> QED BY <2>2, <2>3
<1>4. TypeOK'
  BY <1>1, <1>3 DEF IInv, TypeOK, Enters
<1> QED BY <1>1, <1>2, <1>3, <1>4, BeginningKeepsOrder DEF IInv, Order

LEMMA CamouflageKeeps ==
    ASSUME IInv, NEW t \in Pollers,
           Camouflage(t) \/ \E o \in Objects : Tick(t, o)
    PROVE  IInv'
<1>1. UNCHANGED <<plat, registry, running, asked, peer, raced>> /\ events' \in 0..MaxEvents
  BY ServerAssumption DEF Camouflage, Tick, ServerAssumption, IInv, TypeOK
<1>2. SameObjects
  BY <1>1 DEF SameObjects
<1>3. \E c \in Call : Free(t) /\ Begins(c) /\ Enters(t, c)
  <2>1. registry # NoObject => registry \in Objects /\ plat[registry].made
    BY DEF IInv, TypeOK
  <2>2. CASE Camouflage(t)
    BY <2>1, <2>2, CallTypes DEF Camouflage, Begins
  <2>3. CASE \E o \in Objects : Tick(t, o)
    <3>1. PICK o \in Objects : Tick(t, o)
      BY <2>3
    <3>2. plat[o].made
      BY <3>1, ServerAssumption DEF Tick, Expired, ServerAssumption, IInv, TimersHold
    <3> QED BY <3>1, <3>2, CallTypes DEF Tick, Begins
  <2> QED BY <2>2, <2>3
<1>4. TypeOK'
  BY <1>1, <1>3 DEF IInv, TypeOK, Enters
<1> QED BY <1>1, <1>2, <1>3, <1>4, BeginningKeepsOrder DEF IInv, Order

(* Keepalives and time only touch fresh. *)
LEMMA FreshKeeps ==
    ASSUME IInv, NEW o \in Objects, NEW f \in BOOLEAN,
           plat' = [plat EXCEPT ![o].fresh = f]
    PROVE  /\ plat' \in [Objects -> Platform] /\ SameObjects
           /\ \A p \in Objects : registry = p => plat'[p].made
<1> DEFINE q == [plat[o] EXCEPT !.fresh = f]
<1>1. plat' = [plat EXCEPT ![o] = q]
  BY DEF IInv, TypeOK
<1>2. /\ q \in Platform /\ q.made = plat[o].made
      /\ q.status = plat[o].status /\ q.timer = plat[o].timer
  BY DEF IInv, TypeOK, Platform
<1> HIDE DEF q
<1> QED BY <1>1, <1>2 DEF SameObjects, IInv, TypeOK

LEMMA KeepaliveKeeps ==
    ASSUME IInv, (\E t \in Pollers : Keepalive(t)) \/ (\E o \in Objects : Elapse(o))
    PROVE  IInv'
<1>1. /\ UNCHANGED <<registry, running, calls, asked, raced>> /\ events' \in 0..MaxEvents
      /\ peer' \in {"off", "starting", "registering", "registered"}
  BY ServerAssumption DEF Keepalive, Elapse, ServerAssumption, IInv, TypeOK
<1>2. \/ plat' = plat
      \/ \E o \in Objects, f \in BOOLEAN : plat' = [plat EXCEPT ![o].fresh = f]
  BY DEF Keepalive, Elapse, Answers, IsOnline, IInv, TypeOK
<1>3. /\ plat' \in [Objects -> Platform] /\ SameObjects
      /\ \A p \in Objects : registry = p => plat'[p].made
  <2>1. CASE plat' = plat
    BY <2>1 DEF SameObjects, IInv, TypeOK
  <2> QED BY <1>2, <2>1, FreshKeeps
<1>4. TypeOK'
  BY <1>1, <1>3 DEF IInv, TypeOK
<1> QED BY <1>1, <1>3, <1>4, BeginningKeepsOrder DEF IInv, Order

LEMMA EnvironmentKeeps ==
    ASSUME IInv,
           RemovePlatform \/ Run \/ Shutdown \/ PeerStarts \/ PeerFallsSilent \/ UNCHANGED vars
    PROVE  IInv'
<1>1. /\ UNCHANGED <<plat, calls, asked, raced>> /\ events' \in 0..MaxEvents
      /\ registry' \in {registry, NoObject} /\ running' \in BOOLEAN
      /\ peer' \in {"off", "starting", "registering", "registered"}
  <2>1. /\ events \in 0..MaxEvents /\ running \in BOOLEAN /\ MaxEvents \in Nat
        /\ peer \in {"off", "starting", "registering", "registered"}
    BY ServerAssumption DEF ServerAssumption, IInv, TypeOK
  <2>2. CASE RemovePlatform
    BY <2>1, <2>2 DEF RemovePlatform
  <2>3. CASE Shutdown
    <3>1. events < MaxEvents /\ events' = events + 1
      BY <2>3 DEF Shutdown
    <3>2. events' \in 0..MaxEvents
      BY <2>1, <3>1
    <3>3. /\ UNCHANGED <<plat, calls, asked, raced, peer>>
          /\ registry' = NoObject /\ running' = FALSE
      BY <2>3 DEF Shutdown
    <3> QED BY <2>1, <3>2, <3>3
  <2>4. CASE Run
    BY <2>1, <2>4 DEF Run
  <2>5. CASE PeerStarts \/ PeerFallsSilent
    BY <2>1, <2>5 DEF PeerStarts, PeerFallsSilent
  <2>6. CASE UNCHANGED vars
    BY <2>1, <2>6 DEF vars
  <2> QED BY <2>2, <2>3, <2>4, <2>5, <2>6
<1>2. SameObjects
  BY <1>1 DEF SameObjects
<1>3. TypeOK'
  BY <1>1, ServerAssumption DEF IInv, TypeOK, ServerAssumption
<1> QED BY <1>1, <1>2, <1>3, BeginningKeepsOrder DEF IInv, Order

-------------------------------------------------------------------------------
\* The theorems

LEMMA Initially == Init => IInv
<1> SUFFICES ASSUME Init PROVE IInv
  OBVIOUS
<1>1. \A o \in Objects : plat[o] = NewPlatform(FALSE, "offline")
  BY DEF Init
<1>2. \A t \in Pollers : calls[t].step = "idle"
  BY CallTypes DEF Init
<1>3. TypeOK
  <2>1. plat \in [Objects -> Platform] /\ calls \in [Pollers -> Call]
    BY NewPlatformType, CallTypes DEF Init, StatusTypes
  <2>2. asked \in 0..MaxAsked /\ events \in 0..MaxEvents
    BY ServerAssumption DEF Init, ServerAssumption
  <2>3. registry = NoObject /\ running \in BOOLEAN /\ peer = "off" /\ raced = {}
    BY DEF Init
  <2> QED BY <2>1, <2>2, <2>3, ServerAssumption DEF TypeOK, ServerAssumption
<1>4. HandlersHold /\ TimersHold /\ Orderly
  BY <1>1, <1>2, NewPlatformType DEF HandlersHold, TimersHold, Orderly, AtTimer, StatusTypes
<1>5. WatchedWhenOnline
  BY <1>1, NewPlatformType DEF WatchedWhenOnline, StatusTypes
<1> QED BY <1>3, <1>4, <1>5 DEF IInv

LEMMA StepKeeps == IInv /\ [Next]_vars => IInv'
<1> SUFFICES ASSUME IInv, [Next]_vars PROVE IInv'
  OBVIOUS
<1>1. ASSUME NEW t \in Pollers, Handler(t) PROVE IInv'
  <2>1. CASE Register(t) \/ Logout(t)
    BY <2>1, RegisterKeeps
  <2>2. CASE Insert(t)
    BY <2>2, InsertKeeps
  <2>3. CASE AssignStatus(t)
    BY <2>3, AssignStatusKeeps
  <2>4. CASE Finish(t)
    BY <2>4, AssignTimerKeeps DEF Finish
  <2>5. CASE Camouflage(t) \/ \E o \in Objects : Tick(t, o)
    BY <2>5, CamouflageKeeps
  <2>6. CASE Keepalive(t)
    BY <2>6, KeepaliveKeeps
  <2>7. CASE \E allow \in BOOLEAN : Decide(t, allow)
    BY <2>7, DecideKeeps
  <2> QED BY <1>1, <2>1, <2>2, <2>3, <2>4, <2>5, <2>6, <2>7 DEF Handler
<1>2. ASSUME NEW o \in Objects, Elapse(o) \/ Release(o) PROVE IInv'
  BY <1>2, KeepaliveKeeps, ReleaseKeeps
<1>3. CASE AddPlatform
  BY <1>3, AddPlatformKeeps
<1>4. CASE RemovePlatform \/ Run \/ Shutdown \/ PeerStarts \/ PeerFallsSilent \/ UNCHANGED vars
  BY <1>4, EnvironmentKeeps
<1> QED BY <1>1, <1>2, <1>3, <1>4 DEF Next

(* The invariant holds in every reachable state: handlers of a platform,     *)
(* however many pollers run them, only work on objects that exist.           *)
THEOREM Invariance == Spec => []IInv
<1> QED BY Initially, StepKeeps, PTL DEF Spec

(* Every variable keeps its type, and the map only holds objects that exist  *)
(* (sip_server.cpp, the maps of platforms).                                  *)
THEOREM TypeCorrect == Spec => []TypeOK
<1>1. IInv => TypeOK
  BY DEF IInv
<1> QED BY <1>1, Invariance, PTL

(* The keepalive timer follows the status (set_status() and                  *)
(* camouflage_online() of subordinate_platform_impl.cpp) as long as two of   *)
(* these calls do not overlap on the object.                                 *)
THEOREM WatchedWhenOnlineCorrect == Spec => []WatchedWhenOnline
<1>1. IInv => WatchedWhenOnline
  BY DEF IInv
<1> QED BY <1>1, Invariance, PTL

-------------------------------------------------------------------------------
(* The sessions.  LostOnlyWhenCut is proved from an invariant that says where  *)
(* the buffers were cut: recv is the stream between the places b[1], b[2], ... *)
(* b[Len(b)] = arrived, the parser holds what is just before b[1], and of what *)
(* is before that, the agent has been given or is about to be given the uncut  *)
(* messages and no other.  First the stream, then what handle_recv() finds in  *)
(* a buffer of it, then the invariant, then its steps.                         *)

\* A set of numbers has a least one: the order of Nat is well founded.
LEMMA NatMin == ASSUME NEW S \in SUBSET Nat, S # {} PROVE \E x \in S : \A y \in S : x =< y
<1>1. IsWellFoundedOn(OpToRel(<, Nat), Nat) BY NatLessThanWellFounded, Zenon
<1>2. PICK x \in S : \A y \in S : ~(<<y, x>> \in OpToRel(<, Nat)) BY <1>1, WFMin, Zenon
<1>3. \A y \in S : <<y, x>> \in OpToRel(<, Nat) <=> y < x BY Zenon DEF OpToRel
<1>4. \A y \in S : ~(y < x) BY <1>2, <1>3, Zenon
<1> HIDE <1>2
<1>5. \A y \in S : x \in Nat /\ y \in Nat OBVIOUS
<1> QED BY <1>4, <1>5, SMT

\* Induction over Nat, for a set: the least number outside it has none before.
LEMMA NatInd == ASSUME NEW S \in SUBSET Nat, 0 \in S, \A n \in S : n + 1 \in S PROVE Nat \subseteq S
<1> SUFFICES ASSUME Nat \ S # {} PROVE FALSE OBVIOUS
<1>1. PICK x \in Nat \ S : \A y \in Nat \ S : x =< y BY NatMin
<1>2. x # 0 /\ x - 1 \in Nat /\ x - 1 \in S BY <1>1
<1> QED BY <1>1, <1>2

\* The minimum and maximum of a set.
LEMMA MinIs ==
    ASSUME NEW S \in SUBSET Nat, S # {}
    PROVE  Min(S) \in S /\ \A y \in S : Min(S) =< y
<1>1. \E x \in S : \A y \in S : x =< y BY NatMin
<1> QED BY <1>1 DEF Min

LEMMA MaxIs ==
    ASSUME NEW S \in SUBSET Nat, NEW n \in Nat, S # {}, \A y \in S : y =< n
    PROVE  Max(S) \in S /\ \A y \in S : y =< Max(S)
<1> DEFINE T == {n - y : y \in S}
<1>1. \A y \in S : n - y \in Nat OBVIOUS
<1>2. T \in SUBSET Nat /\ T # {} BY <1>1
<1>0. PICK t \in T : \A u \in T : t =< u BY <1>2, NatMin
<1>3. PICK x \in S : t = n - x BY <1>0
<1>4. \A y \in S : n - x =< n - y BY <1>0, <1>3
<1>5. \A y \in S : x >= y BY <1>4
<1>6. \E z \in S : \A y \in S : z >= y BY <1>5
<1> HIDE DEF T
<1> QED BY <1>6 DEF Max

\* what CheckLine finds
LEMMA CheckLineIs ==
    ASSUME NEW T, NEW line \in Seq(T),
           Len(line) > 1, line[1].part = "method", line[2].part = "version"
    PROVE  CheckLine(line) = 1
<1> DEFINE I == {i \in 1..Len(line) : line[i].part \in SipFlags}
<1>1. 2 \in I /\ 1 \notin I /\ I \subseteq Nat BY DEF SipFlags
<1>2. Min(I) \in I /\ Min(I) =< 2 BY <1>1, MinIs
<1>3. Min(I) = 2 BY <1>1, <1>2
<1> QED BY <1>1, <1>3 DEF CheckLine, SelectInSeq

\* The stream.
Blank == Char(0, "blank")
PartNames == {"method", "version", "eol", "headers", "body", "blank", "junk"}
Chars == [msg : Nat, part : PartNames]

\* Message m begins at s[i].
At(s, i, m) ==
    /\ i \in Nat \ {0} /\ i + 4 =< Len(s)
    /\ s[i] = Char(m, "method") /\ s[i + 1] = Char(m, "version") /\ s[i + 2] = Char(m, "eol")
    /\ s[i + 3] = Char(m, "headers") /\ s[i + 4] = Char(m, "body")

\* Character c is part k of message m.
PartIs(c, m, k) ==
    /\ c.msg = m /\ c.part # "blank"
    /\ k = 0 <=> c.part = "method"
    /\ k = 1 <=> c.part = "version"
    /\ k = 2 <=> c.part = "eol"
    /\ k = 3 <=> c.part = "headers"
    /\ k = 4 <=> c.part = "body"

\* Part k of a message that begins at s[i].
LEMMA PartAt ==
    ASSUME NEW s, NEW i, NEW m, At(s, i, m), NEW k \in 0..4, NEW q, q = i + k
    PROVE  i \in Nat \ {0} /\ q \in 1..Len(s) /\ PartIs(s[q], m, k)
<1>1. i \in Nat \ {0} /\ i + 4 =< Len(s) BY DEF At
<1>2. k \in {0, 1, 2, 3, 4} OBVIOUS
<1>3. i + 0 = i BY <1>1
<1>4. CASE k = 0 BY <1>3, <1>4 DEF At, Char, PartIs
<1>5. CASE k = 1 BY <1>5 DEF At, Char, PartIs
<1>6. CASE k = 2 BY <1>6 DEF At, Char, PartIs
<1>7. CASE k = 3 BY <1>7 DEF At, Char, PartIs
<1>8. CASE k = 4 BY <1>8 DEF At, Char, PartIs
<1>9. PartIs(s[q], m, k) BY <1>2, <1>4, <1>5, <1>6, <1>7, <1>8
<1> QED BY <1>1, <1>9

\* s consists of messages among 1..n, in order, and blanks.
Covered(s, n, i) ==
    s[i] = Blank \/ \E m \in 1..n : \E k \in 0..4 : At(s, i - k, m)
Ordered(s) ==
    \A i, j \in DOMAIN s : \A m, l \in Nat : At(s, i, m) /\ At(s, j, l) /\ i < j => m < l
WellFormed(s, n) ==
    /\ s \in Seq(Chars)
    /\ \A i \in DOMAIN s : Covered(s, n, i)
    /\ Ordered(s)

\* The text of a message is its five parts.
LEMMA TextIs ==
    ASSUME NEW m \in Nat
    PROVE  /\ Text(m) \in Seq(Chars) /\ Len(Text(m)) = 5
           /\ Text(m)[1] = Char(m, "method") /\ Text(m)[2] = Char(m, "version")
           /\ Text(m)[3] = Char(m, "eol") /\ Text(m)[4] = Char(m, "headers")
           /\ Text(m)[5] = Char(m, "body")
<1>1. DOMAIN Parts = 1..5 /\ Parts[1] = "method" /\ Parts[2] = "version" /\ Parts[3] = "eol"
      /\ Parts[4] = "headers" /\ Parts[5] = "body" BY DEF Parts
<1>2. \A i \in 1..5 : Parts[i] \in PartNames
  <2> SUFFICES ASSUME NEW i \in 1..5 PROVE Parts[i] \in PartNames OBVIOUS
  <2>1. i \in {1, 2, 3, 4, 5} OBVIOUS
  <2> QED BY <1>1, <2>1 DEF PartNames
<1> QED BY <1>1, <1>2 DEF Text, Char, Chars

\* A message is in the sequence that has it.
LEMMA AtIn ==
    ASSUME NEW s \in Seq(Chars), NEW i, NEW m, At(s, i, m)
    PROVE  i \in Nat \ {0} /\ i + 4 =< Len(s) /\ i \in DOMAIN s /\ Len(s) \in Nat
<1>1. i \in Nat \ {0} /\ i + 4 =< Len(s) BY DEF At
<1>2. Len(s) \in Nat /\ DOMAIN s = 1..Len(s) OBVIOUS
<1> QED BY <1>1, <1>2

\* A prefix of a sequence has its messages.
LEMMA AtExtends ==
    ASSUME NEW s \in Seq(Chars), NEW t \in Seq(Chars), NEW i, NEW m, At(s, i, m)
    PROVE  At(s \o t, i, m)
<1> DEFINE u == s \o t
<1>1. Len(u) = Len(s) + Len(t) /\ \A q \in 1..Len(s) : u[q] = s[q] BY ConcatProperties
<1>2. Len(s) \in Nat /\ Len(t) \in Nat OBVIOUS
<1> HIDE DEF u
<1>3. i \in Nat \ {0} /\ i + 4 =< Len(s) BY DEF At
<1>4. {i, i + 1, i + 2, i + 3, i + 4} \subseteq 1..Len(s) /\ i + 4 =< Len(u) BY <1>1, <1>2, <1>3
<1>5. /\ u[i] = s[i] /\ u[i + 1] = s[i + 1] /\ u[i + 2] = s[i + 2]
      /\ u[i + 3] = s[i + 3] /\ u[i + 4] = s[i + 4]
  BY <1>1, <1>4
<1>6. At(u, i, m) BY <1>3, <1>4, <1>5 DEF At
<1> QED BY <1>6 DEF u

\* A message that ends before the end of s is in s.
LEMMA AtOf ==
    ASSUME NEW s \in Seq(Chars), NEW t \in Seq(Chars), NEW i, NEW m,
           At(s \o t, i, m), i + 4 =< Len(s)
    PROVE  At(s, i, m)
<1> DEFINE u == s \o t
<1>1. \A q \in 1..Len(s) : u[q] = s[q] BY ConcatProperties
<1>2. Len(s) \in Nat OBVIOUS
<1>3. At(u, i, m) OBVIOUS
<1> HIDE DEF u
<1>4. i \in Nat \ {0} BY <1>3 DEF At
<1>5. {i, i + 1, i + 2, i + 3, i + 4} \subseteq 1..Len(s) BY <1>2, <1>4
<1>6. /\ u[i] = s[i] /\ u[i + 1] = s[i + 1] /\ u[i + 2] = s[i + 2]
      /\ u[i + 3] = s[i + 3] /\ u[i + 4] = s[i + 4]
  BY <1>1, <1>5
<1> QED BY <1>3, <1>4, <1>6 DEF At

\* A stream is well formed, whatever it ends with: a blank line ...
LEMMA BlankKeepsForm ==
    ASSUME NEW n \in Nat, NEW s, WellFormed(s, n)
    PROVE  WellFormed(s \o <<Blank>>, n)
<1> DEFINE t == s \o <<Blank>>
<1>s. s \in Seq(Chars) /\ (\A i \in DOMAIN s : Covered(s, n, i)) /\ Ordered(s) BY DEF WellFormed
<1>b. Blank \in Chars BY DEF Blank, Chars, Char, PartNames
<1>0. <<Blank>> \in Seq(Chars) /\ Len(<<Blank>>) = 1 BY <1>b
<1>1. t \in Seq(Chars) /\ Len(t) = Len(s) + 1 /\ t[Len(s) + 1] = Blank
      /\ \A i \in DOMAIN s : t[i] = s[i] BY <1>0, <1>s
<1>2. \A i, m : At(s, i, m) => At(t, i, m) BY <1>0, <1>s, AtExtends
<1>3. \A i, m : At(t, i, m) => At(s, i, m)
  <2> SUFFICES ASSUME NEW i, NEW m, At(t, i, m) PROVE i + 4 =< Len(s) BY <1>0, <1>s, AtOf
  <2> HIDE DEF t
  <2>1. CASE i + 4 = Len(s) + 1
    <3>1. t[i + 4] = Blank BY <1>1, <2>1
    <3>2. t[i + 4].part = "body" BY DEF At, Char
    <3>3. Blank.part = "blank" BY DEF Blank, Char
    <3> QED BY <3>1, <3>2, <3>3, Zenon
  <2>2. i \in Nat \ {0} /\ i + 4 =< Len(t) /\ Len(s) \in Nat BY <1>1, <1>s, AtIn
  <2> QED BY <1>1, <2>1, <2>2
<1> HIDE DEF t
<1>4. ASSUME NEW i \in DOMAIN t PROVE Covered(t, n, i)
  <2>1. CASE i = Len(s) + 1 BY <1>1, <2>1 DEF Covered
  <2>2. CASE i \in DOMAIN s
    <3>1. Covered(s, n, i) /\ t[i] = s[i] BY <1>1, <1>s, <2>2
    <3> QED BY <1>2, <3>1 DEF Covered
  <2>3. i \in DOMAIN s \/ i = Len(s) + 1 BY <1>1, <1>s
  <2> QED BY <2>1, <2>2, <2>3
<1>5. Ordered(t)
  <2> SUFFICES ASSUME NEW i \in DOMAIN t, NEW j \in DOMAIN t, NEW m \in Nat, NEW l \in Nat,
                      At(t, i, m), At(t, j, l), i < j
               PROVE  m < l BY DEF Ordered
  <2>1. At(s, i, m) /\ At(s, j, l) BY <1>3
  <2>2. i \in DOMAIN s /\ j \in DOMAIN s BY <1>s, <2>1, AtIn
  <2> QED BY <1>s, <2>1, <2>2 DEF Ordered
<1> QED BY <1>1, <1>4, <1>5 DEF t, WellFormed

\* ... or the text of the message after those it has.
LEMMA TextKeepsForm ==
    ASSUME NEW n \in Nat, NEW s, WellFormed(s, n)
    PROVE  WellFormed(s \o Text(n + 1), n + 1)
<1> DEFINE t == s \o Text(n + 1)
           L == Len(s)
<1>s. s \in Seq(Chars) /\ (\A i \in DOMAIN s : Covered(s, n, i)) /\ Ordered(s) BY DEF WellFormed
<1>0. Text(n + 1) \in Seq(Chars) /\ Len(Text(n + 1)) = 5 BY TextIs
<1>1. t \in Seq(Chars) /\ Len(t) = L + 5 /\ \A i \in DOMAIN s : t[i] = s[i]
  <2>1. t \in Seq(Chars) BY <1>0, <1>s, ConcatProperties
  <2>2. Len(t) = Len(s) + Len(Text(n + 1)) BY <1>0, <1>s, ConcatProperties
  <2>3. \A i \in 1..Len(s) : t[i] = s[i] BY <1>0, <1>s, ConcatProperties
  <2>4. DOMAIN s = 1..Len(s) BY <1>s
  <2> HIDE DEF t
  <2> QED BY <1>0, <2>1, <2>2, <2>3, <2>4
<1>a. L \in Nat BY <1>s
<1>b. \A i \in 1..5 : t[L + i] = Text(n + 1)[i]
  <2>1. \A i \in 1..(Len(s) + Len(Text(n + 1))) :
            t[i] = IF i =< Len(s) THEN s[i] ELSE Text(n + 1)[i - Len(s)]
    BY <1>0, <1>s, ConcatProperties
  <2> HIDE DEF t
  <2>2. ASSUME NEW i \in 1..5 PROVE t[L + i] = Text(n + 1)[i]
    <3>1. L + i \in 1..(L + 5) /\ ~(L + i =< L) /\ (L + i) - L = i BY <1>a
    <3> QED BY <1>0, <2>1, <3>1
  <2> QED BY <2>2
<1>2. \A i, m : At(s, i, m) => At(t, i, m) BY <1>0, <1>s, AtExtends
<1>3. \A i, m : At(t, i, m) /\ i + 4 =< L => At(s, i, m) BY <1>0, <1>s, AtOf
<1> HIDE DEF t
<1>c. t[L + 1] = Char(n + 1, "method") /\ t[L + 2] = Char(n + 1, "version")
      /\ t[L + 3] = Char(n + 1, "eol") /\ t[L + 4] = Char(n + 1, "headers")
      /\ t[L + 5] = Char(n + 1, "body")
  BY <1>b, TextIs
<1> HIDE DEF L
<1>4. At(t, L + 1, n + 1) BY <1>1, <1>a, <1>c DEF At
<1>5. ASSUME NEW i \in Nat, NEW m, At(t, i, m), i + 4 > L PROVE i = L + 1 /\ m = n + 1
  <2>0. i \in Nat \ {0} /\ i + 4 =< Len(t) BY <1>1, <1>5, AtIn
  <2>1. i =< L + 1 /\ i \in Nat \ {0} BY <1>1, <1>a, <2>0
  <2>2. t[i + 4].part = "body" BY <1>5 DEF At, Char
  <2>3. i + 4 \in {L + 1, L + 2, L + 3, L + 4, L + 5} BY <1>5, <2>1, <1>a
  <2>4. t[L + 1].part # "body" /\ t[L + 2].part # "body" /\ t[L + 3].part # "body"
        /\ t[L + 4].part # "body" BY <1>c DEF Char
  <2>5. i + 4 = L + 5 BY <2>2, <2>3, <2>4
  <2>6. i = L + 1 BY <2>5, <1>a, <2>1
  <2>7. t[i] = Char(m, "method") BY <1>5 DEF At
  <2>8. Char(m, "method").msg = Char(n + 1, "method").msg BY <1>c, <2>6, <2>7
  <2> QED BY <2>6, <2>8 DEF Char
<1>6. ASSUME NEW i \in DOMAIN t PROVE Covered(t, n + 1, i)
  <2>1. CASE i \in DOMAIN s
    <3>1. Covered(s, n, i) /\ t[i] = s[i] BY <1>1, <1>s, <2>1
    <3>2. 1..n \subseteq 1..(n + 1) OBVIOUS
    <3> QED BY <1>2, <3>1, <3>2 DEF Covered
  <2>2. CASE i \in L + 1 .. L + 5
    <3>1. i - (L + 1) \in 0..4 /\ i - (i - (L + 1)) = L + 1 BY <1>a, <2>2
    <3>2. At(t, i - (i - (L + 1)), n + 1) BY <3>1, <1>4
    <3> QED BY <3>1, <3>2 DEF Covered
  <2>3. DOMAIN t = 1..(L + 5) BY <1>1
  <2>4. DOMAIN s = 1..L BY <1>s DEF L
  <2>5. i \in 1..L \/ i \in L + 1 .. L + 5 BY <1>a, <2>3
  <2> QED BY <2>1, <2>2, <2>4, <2>5
<1>7. \A i, m : At(s, i, m) /\ m \in Nat => m \in 1..n
  <2> SUFFICES ASSUME NEW i, NEW m \in Nat, At(s, i, m) PROVE m \in 1..n OBVIOUS
  <2>1. i \in DOMAIN s /\ i \in Nat BY <1>s, AtIn
  <2>2. s[i].part = "method" /\ s[i].msg = m BY DEF At, Char
  <2>3. CASE s[i] = Blank BY <2>2, <2>3 DEF Blank, Char
  <2>4. ASSUME NEW l \in 1..n, NEW k \in 0..4, At(s, i - k, l) PROVE m \in 1..n
    <3>1. i = (i - k) + k BY <2>1
    <3>2. PartIs(s[i], l, k) BY <2>4, <3>1, PartAt
    <3> QED BY <2>2, <3>2 DEF PartIs
  <2>5. Covered(s, n, i) BY <1>s, <2>1
  <2> QED BY <2>3, <2>4, <2>5 DEF Covered
<1>8. Ordered(t)
  <2> SUFFICES ASSUME NEW i \in DOMAIN t, NEW j \in DOMAIN t, NEW m \in Nat, NEW l \in Nat,
                      At(t, i, m), At(t, j, l), i < j
               PROVE  m < l BY DEF Ordered
  <2>0. i \in Nat /\ j \in Nat BY <1>1, AtIn
  <2>1. CASE j + 4 =< L
    <3>1. At(s, i, m) /\ At(s, j, l) BY <1>3, <2>1, <2>0, <1>a
    <3>2. i \in DOMAIN s /\ j \in DOMAIN s BY <1>s, <3>1, AtIn
    <3> QED BY <1>s, <3>1, <3>2 DEF Ordered
  <2>2. CASE j + 4 > L
    <3>1. j = L + 1 /\ l = n + 1 BY <1>5, <2>0, <2>2
    <3>2. i + 4 =< L BY <1>5, <2>0, <3>1, <1>a
    <3> QED BY <1>3, <1>7, <3>1, <3>2
  <2> QED BY <2>1, <2>2, <2>0, <1>a
<1> QED BY <1>1, <1>6, <1>8 DEF t, WellFormed

\* What FlattenSeq puts together, one sequence after the other.
Flattens(seqs, f, n) == f = [i \in 1..n |-> IF i = 1 THEN seqs[i] ELSE f[i-1] \o seqs[i]]

\* FlattenSeq() is recursive in the length: there is such a function ...
LEMMA FlattenExists == 
  ASSUME NEW seqs, NEW n \in Nat PROVE \E f : Flattens(seqs, f, n)
<1> DEFINE S == {k \in Nat : \E f : Flattens(seqs, f, k)}
<1>1. 0 \in S
  <2>1. Flattens(seqs, [i \in 1..0 |-> 0], 0) 
    <3>1. 1..0 = {} OBVIOUS
    <3> QED BY <3>1 DEF Flattens
  <2> QED BY <2>1
<1>2. ASSUME NEW k \in S PROVE k + 1 \in S
  <2>1. PICK f : Flattens(seqs, f, k) OBVIOUS
  <2> DEFINE g == [i \in 1..k+1 |-> IF i = 1 THEN seqs[i] ELSE f[i-1] \o seqs[i]]
  <2>2. ASSUME NEW i \in 1..k PROVE f[i] = g[i]
    <3>1. i \in 1..k+1 OBVIOUS
    <3>2. f[i] = IF i = 1 THEN seqs[i] ELSE f[i-1] \o seqs[i] BY <2>1, Zenon DEF Flattens
    <3>3. g[i] = IF i = 1 THEN seqs[i] ELSE f[i-1] \o seqs[i] BY <3>1, Zenon
    <3> QED BY <3>2, <3>3
  <2>3. \A i \in 1..k+1 : i # 1 => f[i - 1] = g[i - 1] 
    <3> HIDE DEF g
    <3> QED BY <2>2
  <2>4. g = [i \in 1..k+1 |-> IF i = 1 THEN seqs[i] ELSE g[i-1] \o seqs[i]]
     BY <2>3, Zenon
  <2>5. Flattens(seqs, g, k+1) BY <2>4, Zenon DEF Flattens
  <2> QED BY <2>5
<1> QED BY <1>1, <1>2, NatInd

\* ... for every length, and FlattenSeq() is its last value.
LEMMA FlattenIs ==
  ASSUME NEW seqs, Len(seqs) \in Nat \ {0}
  PROVE  \E f : Flattens(seqs, f, Len(seqs)) /\ FlattenSeq(seqs) = f[Len(seqs)]
<1>1. \E f : f = [i \in 1..Len(seqs) |-> IF i = 1 THEN seqs[i] ELSE f[i-1] \o seqs[i]]
  BY FlattenExists DEF Flattens
<1> DEFINE F == CHOOSE f : f = [i \in 1..Len(seqs) |-> IF i = 1 THEN seqs[i] ELSE f[i-1] \o seqs[i]]
<1>2. FlattenSeq(seqs) = F[Len(seqs)] BY DEF FlattenSeq
<1>3. Flattens(seqs, F, Len(seqs)) BY <1>1, Zenon DEF Flattens
<1> QED BY <1>2, <1>3, Zenon

\* The text of message m, behind a blank line or not.
Piece(padded, m) == (IF m \in padded THEN <<Char(0, "blank")>> ELSE <<>>) \o Text(m)

\* Concatenation is associative.
LEMMA ThreeParts ==
    ASSUME NEW s \in Seq(Chars), NEW t \in Seq(Chars), NEW u \in Seq(Chars)
    PROVE  s \o (t \o u) = (s \o t) \o u
BY ConcatAssociative, SMTT(30)

\* What the peer adds for one message, with or without keepalive.
LEMMA PieceKeepsForm ==
    ASSUME NEW n \in Nat, NEW s, WellFormed(s, n), NEW padded
    PROVE  WellFormed(s \o Piece(padded, n + 1), n + 1)
<1>1. s \in Seq(Chars) BY DEF WellFormed
<1>2. Text(n + 1) \in Seq(Chars) BY TextIs
<1>3. CASE n + 1 \in padded
  <2>1. Blank \in Chars BY DEF Blank, Chars, Char, PartNames
  <2>2. <<Blank>> \in Seq(Chars) BY <2>1
  <2>3. s \o Piece(padded, n + 1) = (s \o <<Blank>>) \o Text(n + 1)
    <3>1. Piece(padded, n + 1) = <<Blank>> \o Text(n + 1) BY <1>3 DEF Piece, Blank
    <3>2. s \o (<<Blank>> \o Text(n + 1)) = (s \o <<Blank>>) \o Text(n + 1)
      BY <1>1, <1>2, <2>2, ThreeParts
    <3> QED BY <3>1, <3>2
  <2>4. WellFormed(s \o <<Blank>>, n) BY BlankKeepsForm
  <2> QED BY <2>3, <2>4, TextKeepsForm
<1>4. CASE n + 1 \notin padded
  <2>1. Piece(padded, n + 1) = Text(n + 1) BY <1>2, <1>4, ConcatEmptySeq DEF Piece
  <2> QED BY <2>1, TextKeepsForm
<1> QED BY <1>3, <1>4

\* A stream of nothing is well formed.
LEMMA EmptyIsWellFormed ==
    ASSUME NEW s \in Seq(Chars), Len(s) = 0
    PROVE  WellFormed(s, 0)
BY DEF WellFormed, Ordered

\* So the stream is well formed, for any number of messages and any keepalives.
LEMMA StreamIsWellFormed ==
    ASSUME NEW padded
    PROVE  WellFormed(StreamOf(padded), Messages)
<1> USE SessionAssumption DEF SessionAssumption
<1> DEFINE pieces == [m \in 1..Messages |-> Piece(padded, m)]
<1>1. StreamOf(padded) = FlattenSeq(pieces) BY DEF StreamOf, Piece
<1>2. Len(pieces) = Messages OBVIOUS
<1>3. CASE Messages = 0
  <2>1. FlattenSeq(pieces) = pieces BY <1>2, <1>3 DEF FlattenSeq
  <2>2. pieces \in Seq(Chars) BY <1>3
  <2> QED BY <1>1, <1>2, <1>3, <2>1, <2>2, EmptyIsWellFormed
<1>4. CASE Messages # 0
  <2>1. PICK f : Flattens(pieces, f, Messages) /\ FlattenSeq(pieces) = f[Messages]
    BY <1>2, <1>4, FlattenIs
  <2> DEFINE S == {k \in Nat : k \in 1..Messages => WellFormed(f[k], k)}
  <2>2. 0 \in S OBVIOUS
  <2>3. ASSUME NEW k \in S, k + 1 \in 1..Messages PROVE WellFormed(f[k + 1], k + 1)
    <3>1. f[k + 1] = IF k + 1 = 1 THEN pieces[k + 1] ELSE f[(k + 1) - 1] \o pieces[k + 1]
      BY <2>1, <2>3, Zenon DEF Flattens
    <3>2. pieces[k + 1] = Piece(padded, k + 1) BY <2>3
    <3>3. CASE k = 0
      <4>0. <<>> \in Seq(Chars) /\ Len(<<>>) = 0 OBVIOUS
      <4>1. WellFormed(<<>>, 0) BY <4>0, EmptyIsWellFormed
      <4>2. WellFormed(<<>> \o Piece(padded, 0 + 1), 0 + 1) BY <4>1, PieceKeepsForm
      <4>3. Piece(padded, 1) \in Seq(Chars)
        <5>1. Text(1) \in Seq(Chars) BY TextIs
        <5>2. Blank \in Chars BY DEF Blank, Chars, Char, PartNames
        <5> QED BY <5>1, <5>2, ConcatProperties DEF Piece, Blank
      <4>4. <<>> \o Piece(padded, 1) = Piece(padded, 1) BY <4>3, ConcatEmptySeq
      <4> HIDE DEF pieces
      <4>5. f[k + 1] = Piece(padded, 1) BY <3>1, <3>2, <3>3
      <4> QED BY <4>2, <4>4, <4>5, <3>3
    <3>4. CASE k # 0
      <4>1. WellFormed(f[k], k) BY <2>3, <3>4
      <4> HIDE DEF pieces
      <4>3. k \in Nat /\ (k + 1) - 1 = k /\ k + 1 # 1 BY <3>4
      <4>2. f[k + 1] = f[k] \o Piece(padded, k + 1) BY <3>1, <3>2, <4>3
      <4> HIDE DEF S
      <4> QED BY <4>1, <4>2, <4>3, PieceKeepsForm
    <3> QED BY <3>3, <3>4
  <2>4. \A k \in S : k + 1 \in S BY <2>3
  <2>5. Messages \in S
    <3> HIDE DEF S
    <3> S \in SUBSET Nat BY DEF S
    <3> QED BY <2>2, <2>4, NatInd
  <2>6. WellFormed(f[Messages], Messages) BY <2>5, <1>4
  <2> QED BY <1>1, <2>1, <2>6
<1> QED BY <1>3, <1>4

-----------------------------------------------------------------------------
\* The search for a start line.

\* The elements of a slice.
LEMMA SliceIs ==
    ASSUME NEW s \in Seq(Chars), NEW p \in Nat, NEW q \in Nat, p =< q, q =< Len(s)
    PROVE  /\ SubSeq(s, p + 1, q) \in Seq(Chars)
           /\ Len(SubSeq(s, p + 1, q)) = q - p
           /\ \A i \in 1..(q - p) : SubSeq(s, p + 1, q)[i] = s[p + i]
<1>1. \A i \in p + 1 .. q : s[i] \in Chars BY ElementOfSeq
<1>2. SubSeq(s, p + 1, q) \in Seq(Chars) BY <1>1, SubSeqProperties
<1>3. Len(SubSeq(s, p + 1, q)) = q - p BY <1>1, SubSeqProperties
<1> QED BY <1>2, <1>3

\* What CheckLine() returns is where a start line begins.
LEMMA CheckLineFinds ==
    ASSUME NEW line \in Seq(Chars)
    PROVE  /\ CheckLine(line) \in Nat
           /\ CheckLine(line) # 0 =>
                 /\ CheckLine(line) < Len(line)
                 /\ line[CheckLine(line)].part = "method"
                 /\ line[CheckLine(line) + 1].part = "version"
<1> DEFINE I == {i \in 1..Len(line) : line[i].part \in SipFlags}
           flag == IF I # {} THEN Min(I) ELSE 0
<1>1. I \subseteq Nat OBVIOUS
<1>2. I # {} => Min(I) \in I BY <1>1, MinIs
<1>3. flag \in 0..Len(line) BY <1>2
<1>4. CheckLine(line) = IF flag > 1 /\ line[flag].part = "version" /\ line[flag - 1].part = "method"
                        THEN flag - 1 ELSE 0
  BY DEF CheckLine, SelectInSeq
<1> HIDE DEF flag
<1> QED BY <1>3, <1>4

LinesBefore(data, end) == {0} \cup {i \in LineEnds(data) : i < end}

\* A line begins after a line end, or at the beginning.
LEMMA LineStartIs ==
    ASSUME NEW data \in Seq(Chars), NEW end \in Nat
    PROVE  /\ LineStart(data, end) \in Nat \ {0}
           /\ LineStart(data, end) - 1 \in LinesBefore(data, end)
           /\ \A i \in LinesBefore(data, end) : i =< LineStart(data, end) - 1
<1> DEFINE S == LinesBefore(data, end)
<1>1. S \in SUBSET Nat /\ S # {} /\ \A y \in S : y =< end BY DEF LinesBefore, LineEnds
<1>2. Max(S) \in S /\ \A y \in S : y =< Max(S)
  <2> HIDE DEF S
  <2> QED BY <1>1, MaxIs
<1>3. LineStart(data, end) = Max(S) + 1 BY DEF LineStart, LinesBefore
<1> HIDE DEF S
<1>a. Max(S) \in Nat BY <1>1, <1>2
<1>4. LineStart(data, end) \in Nat \ {0} /\ LineStart(data, end) - 1 = Max(S) BY <1>a, <1>3
<1> QED BY <1>2, <1>4 DEF S

\* A line reaches as far as its length, or to the end of the data.
LEMMA LineIs ==
    ASSUME NEW data \in Seq(Chars), NEW pos \in Nat \ {0}, NEW end \in Nat \ {0}
    PROVE  \E hi \in Nat :
              /\ hi =< pos + end - 2 /\ hi =< Len(data)
              /\ hi = pos + end - 2 \/ hi = Len(data)
              /\ Line(data, pos, end) = SubSeq(data, pos, hi)
<1> DEFINE S == {pos + end - 2, Len(data)}
<1>1. S \in SUBSET Nat /\ S # {} OBVIOUS
<1>2. Min(S) \in S /\ \A y \in S : Min(S) =< y
  <2> HIDE DEF S
  <2> QED BY <1>1, MinIs
<1>3. Line(data, pos, end) = SubSeq(data, pos, Min(S)) BY DEF Line
<1>4. Min(S) \in Nat BY <1>1, <1>2
<1>5. Min(S) =< pos + end - 2 /\ Min(S) =< Len(data) /\ (Min(S) = pos + end - 2 \/ Min(S) = Len(data))
  BY <1>2
<1> HIDE DEF S
<1> QED BY <1>3, <1>4, <1>5

\* The characters of a line.
LEMMA LineOfData ==
    ASSUME NEW data \in Seq(Chars), NEW pos \in Nat \ {0}, NEW hi \in Nat, hi =< Len(data)
    PROVE  /\ SubSeq(data, pos, hi) \in Seq(Chars)
           /\ Len(SubSeq(data, pos, hi)) = IF pos =< hi THEN hi - pos + 1 ELSE 0
           /\ \A i \in 1..(hi - pos + 1) : SubSeq(data, pos, hi)[i] = data[pos + i - 1]
<1>1. \A i \in pos .. hi : data[i] \in Chars BY ElementOfSeq
<1> QED BY <1>1, SubSeqProperties

\* A start line found at the beginning of the data is there.
LEMMA StartInIs ==
    ASSUME NEW data \in Seq(Chars), NEW end \in LineEnds(data)
    PROVE  /\ StartIn(LineAt(data, end)) \in Nat
           /\ StartIn(LineAt(data, end)) = 1 =>
                 /\ end > 2 /\ data[1].part = "method" /\ data[2].part = "version"
<1> DEFINE pos == LineStart(data, end)
           line == Line(data, pos, end)
           at == CheckLine(line)
<1>1. end \in 1..Len(data) BY DEF LineEnds
<1>2. pos \in Nat \ {0} BY <1>1, LineStartIs
<1>3. StartIn(LineAt(data, end)) = IF at = 0 THEN 0 ELSE pos - 1 + at BY DEF StartIn, LineAt
<1> HIDE DEF pos
<1>4. PICK hi \in Nat : /\ hi =< pos + end - 2 /\ hi =< Len(data)
                        /\ line = SubSeq(data, pos, hi)
  <2>1. end \in Nat \ {0} BY <1>1
  <2> QED BY <1>2, <2>1, LineIs
<1> HIDE DEF line
<1>5. /\ line \in Seq(Chars)
      /\ Len(line) = IF pos =< hi THEN hi - pos + 1 ELSE 0
      /\ \A i \in 1..(hi - pos + 1) : line[i] = data[pos + i - 1]
  BY <1>2, <1>4, LineOfData
<1>6. /\ at \in Nat
      /\ at # 0 => at < Len(line) /\ line[at].part = "method" /\ line[at + 1].part = "version"
  BY <1>5, CheckLineFinds
<1> HIDE DEF at
<1>7. ASSUME StartIn(LineAt(data, end)) = 1
      PROVE  end > 2 /\ data[1].part = "method" /\ data[2].part = "version"
  <2>1. at = 1 /\ pos = 1 BY <1>2, <1>3, <1>6, <1>7
  <2>2. hi > 1 BY <1>4, <1>5, <1>6, <2>1
  <2>3. line[1] = data[1] /\ line[2] = data[2] BY <1>5, <2>1, <2>2
  <2> QED BY <1>1, <1>4, <1>6, <2>1, <2>2, <2>3
<1> QED BY <1>2, <1>3, <1>6, <1>7

\* A whole start line at the beginning of a line.
HasStart(data, i) ==
    /\ i \in Nat \ {0} /\ i + 2 =< Len(data)
    /\ data[i].part = "method" /\ data[i + 1].part = "version" /\ data[i + 2].part = "eol"
    /\ i > 1 => data[i - 1].part \in Newlines

\* A start line that is in the data is found in its own line, where it is.
LEMMA StartInFinds ==
    ASSUME NEW data \in Seq(Chars), NEW i, HasStart(data, i)
    PROVE  i + 2 \in LineEnds(data) /\ StartIn(LineAt(data, i + 2)) = i
<1> DEFINE pos == LineStart(data, i + 2)
           line == Line(data, pos, i + 2)
           S == LinesBefore(data, i + 2)
<1> USE DEF HasStart
<1>1. i + 2 \in LineEnds(data) BY DEF LineEnds, Newlines
<1>2. pos = i
  <2>0. i + 2 \in Nat OBVIOUS
  <2>1. pos \in Nat \ {0} /\ pos - 1 \in S /\ \A j \in S : j =< pos - 1 BY <2>0, LineStartIs
  <2>2. i - 1 \in S BY DEF LinesBefore, LineEnds
  <2>3. i \notin S /\ i + 1 \notin S /\ \A j \in S : j \in Nat /\ j < i + 2
    BY DEF LinesBefore, LineEnds, Newlines
  <2> HIDE DEF pos, S
  <2> QED BY <2>1, <2>2, <2>3
<1>3. StartIn(LineAt(data, i + 2)) = IF CheckLine(line) = 0 THEN 0 ELSE pos - 1 + CheckLine(line) BY DEF StartIn, LineAt
<1> HIDE DEF pos
<1>4. PICK hi \in Nat : /\ hi = i + (i + 2) - 2 \/ hi = Len(data)
                        /\ hi =< Len(data)
                        /\ line = SubSeq(data, i, hi)
  <2>1. i \in Nat \ {0} /\ i + 2 \in Nat \ {0} OBVIOUS
  <2> QED BY <1>2, <2>1, LineIs
<1> HIDE DEF line
<1>5. hi > i BY <1>4
<1>6. line \in Seq(Chars) /\ Len(line) > 1 /\ line[1] = data[i] /\ line[2] = data[i + 1]
  <2>1. Len(line) = hi - i + 1 BY <1>4, <1>5, LineOfData
  <2>2. 1 \in 1..(hi - i + 1) /\ 2 \in 1..(hi - i + 1) BY <1>5
  <2>3. \A k \in 1..(hi - i + 1) : line[k] = data[i + k - 1] BY <1>4, LineOfData
  <2>4. line[1] = data[i + 1 - 1] /\ line[2] = data[i + 2 - 1] BY <2>2, <2>3
  <2>5. line \in Seq(Chars) BY <1>4, LineOfData
  <2> QED BY <2>1, <2>4, <2>5, <1>5
<1>7. CheckLine(line) = 1 BY <1>6, CheckLineIs
<1> QED BY <1>1, <1>2, <1>3, <1>7

\* The start lines found are places.
LEMMA StartsAreNat ==
    ASSUME NEW data \in Seq(Chars)
    PROVE  Starts(data) \in SUBSET (Nat \ {0})
BY StartInIs DEF Starts

\* Found() is the first of them.
LEMMA FoundIs ==
    ASSUME NEW data \in Seq(Chars)
    PROVE  /\ Found(data) \in Nat
           /\ Found(data) = 0 => Starts(data) = {}
           /\ Found(data) # 0 => Found(data) \in Starts(data)
           /\ \A i \in Starts(data) : Found(data) =< i
<1>1. CASE Starts(data) = {}
  <2>1. Found(data) = Min({0}) BY <1>1 DEF Found
  <2>2. {0} \in SUBSET Nat /\ {0} # {} OBVIOUS
  <2>3. Min({0}) = 0 BY <2>2, MinIs
  <2> QED BY <1>1, <2>1, <2>3
<1>2. CASE Starts(data) # {}
  <2>1. Found(data) = Min(Starts(data)) BY <1>2 DEF Found
  <2> QED BY <1>2, <2>1, MinIs, StartsAreNat
<1> QED BY <1>1, <1>2

\* A start line at the beginning is the one that is found.
LEMMA FoundAtOnce ==
    ASSUME NEW data \in Seq(Chars), HasStart(data, 1)
    PROVE  Found(data) = 1
<1>1. 1 \in Starts(data)
  <2>1. 1 + 2 \in LineEnds(data) /\ StartIn(LineAt(data, 1 + 2)) = 1 BY StartInFinds
  <2> QED BY <2>1 DEF Starts
<1> QED BY <1>1, FoundIs, StartsAreNat

\* A start line in the data is not missed.
LEMMA FoundAnywhere ==
    ASSUME NEW data \in Seq(Chars), NEW i, HasStart(data, i)
    PROVE  Found(data) # 0
<1>1. i \in Starts(data)
  <2>1. i + 2 \in LineEnds(data) /\ StartIn(LineAt(data, i + 2)) = i BY StartInFinds
  <2>2. i # 0 BY DEF HasStart
  <2> QED BY <2>1, <2>2 DEF Starts
<1> QED BY <1>1, FoundIs

\* What is found at the beginning begins a message.
LEMMA FoundFirst ==
    ASSUME NEW data \in Seq(Chars), Found(data) = 1
    PROVE  Len(data) > 2 /\ data[1].part = "method" /\ data[2].part = "version"
<1>1. 1 \in Starts(data) BY FoundIs
<1>2. PICK end \in LineEnds(data) : StartIn(LineAt(data, end)) = 1 BY <1>1 DEF Starts
<1>3. end \in 1..Len(data) BY DEF LineEnds
<1> QED BY <1>2, <1>3, StartInIs

-----------------------------------------------------------------------------
\* Where messages are in a stream.

\* A character of the stream that is not blank is part of a message.
LEMMA CoveredAt ==
    ASSUME NEW n \in Nat, NEW s, WellFormed(s, n), NEW i \in DOMAIN s, s[i].part # "blank"
    PROVE  \E m \in 1..n : \E k \in 0..4 : At(s, i - k, m) /\ i - k \in Nat /\ PartIs(s[i], m, k)
<1>1. s[i] # Blank BY DEF Blank, Char
<1>2. PICK m \in 1..n, k \in 0..4 : At(s, i - k, m) BY <1>1 DEF WellFormed, Covered
<1>3. i \in Nat BY DEF WellFormed
<1>4. i = (i - k) + k BY <1>3
<1>5. PartIs(s[i], m, k) /\ i - k \in Nat BY <1>2, <1>4, PartAt
<1> QED BY <1>2, <1>5

\* Messages do not overlap.
LEMMA OneAfterOther ==
    ASSUME NEW s, NEW i, NEW m, NEW j, NEW l, At(s, i, m), At(s, j, l), i =< j, j =< i + 4
    PROVE  i = j /\ m = l
<1>1. i \in Nat /\ j \in Nat BY DEF At
<1> DEFINE k == j - i
<1>2. k \in 0..4 /\ j = i + k /\ 0 \in 0..4 /\ j = j + 0 BY <1>1
<1> HIDE DEF k
<1>3. PartIs(s[j], m, k) BY <1>2, PartAt
<1>4. PartIs(s[j], l, 0) BY <1>2, PartAt
<1>5. k = 0 /\ m = l BY <1>3, <1>4 DEF PartIs
<1> QED BY <1>1, <1>2, <1>5

\* A message is in one place.
LEMMA OnePlace ==
    ASSUME NEW n \in Nat, NEW s, WellFormed(s, n), NEW i, NEW j, NEW m \in Nat, At(s, i, m), At(s, j, m)
    PROVE  i = j
<1>a. s \in Seq(Chars) /\ Ordered(s) BY DEF WellFormed
<1>1. i \in DOMAIN s /\ j \in DOMAIN s /\ i \in Nat /\ j \in Nat BY <1>a, AtIn
<1>2. ~(i < j) /\ ~(j < i) BY <1>1, <1>a DEF Ordered
<1> QED BY <1>1, <1>2

\* Before a message there is a blank line or the end of another one.
LEMMA BeforeStart ==
    ASSUME NEW n \in Nat, NEW s, WellFormed(s, n), NEW i, NEW m, At(s, i, m), i > 1
    PROVE  s[i - 1].part \in {"body", "blank"}
<1>1. i \in Nat /\ i - 1 \in DOMAIN s
  <2>1. s \in Seq(Chars) BY DEF WellFormed
  <2>2. i \in Nat /\ i + 4 =< Len(s) /\ Len(s) \in Nat BY <2>1, AtIn
  <2>3. DOMAIN s = 1..Len(s) BY <2>1
  <2> QED BY <2>2, <2>3
<1>2. SUFFICES ASSUME s[i - 1].part # "blank" PROVE s[i - 1].part = "body" OBVIOUS
<1>3. PICK l \in 1..n, k \in 0..4 : At(s, (i - 1) - k, l) /\ PartIs(s[i - 1], l, k)
  BY <1>1, <1>2, CoveredAt
<1>4. CASE k = 4 BY <1>3, <1>4 DEF PartIs
<1>5. CASE k < 4
  <2>1. (i - 1) - k =< i /\ i =< ((i - 1) - k) + 4 BY <1>1, <1>5
  <2>2. (i - 1) - k = i BY <1>3, <2>1, OneAfterOther
  <2> QED BY <2>2, <1>1
<1> QED BY <1>4, <1>5

\* And after these, what is not blank begins a message.
LEMMA StartAfter ==
    ASSUME NEW n \in Nat, NEW s, WellFormed(s, n), NEW p \in Nat, p < Len(s),
           p = 0 \/ s[p].part \in {"body", "blank"}, s[p + 1].part # "blank"
    PROVE  \E m \in 1..n : At(s, p + 1, m)
<1>1. p + 1 \in DOMAIN s BY DEF WellFormed
<1>2. PICK m \in 1..n, k \in 0..4 : At(s, (p + 1) - k, m) BY <1>1, CoveredAt
<1>3. CASE k = 0 BY <1>2, <1>3
<1>4. CASE k # 0
  <2>1. k - 1 \in 0..4 /\ p = ((p + 1) - k) + (k - 1) /\ k - 1 # 4 BY <1>4
  <2>2. p > 0 BY <1>2, <1>4 DEF At
  <2>3. PartIs(s[p], m, k - 1) BY <1>2, <2>1, PartAt
  <2> QED BY <2>1, <2>2, <2>3 DEF PartIs
<1> QED BY <1>3, <1>4

-----------------------------------------------------------------------------
\* The inductive invariant.

\* The buffers of recv are what has arrived after b[1], cut at the b[i].
Framed(b) ==
    /\ b \in Seq(Nat) /\ Len(b) = Len(recv) + 1 /\ b[Len(b)] = arrived
    /\ \A i, j \in DOMAIN b : i < j => b[i] < b[j]
    /\ recv \in Seq(Seq(Chars))
    /\ \A i \in DOMAIN recv : recv[i] = SubSeq(stream, b[i] + 1, b[i + 1])

\* The parser has taken in all before this, and begins the next message with it.
Consumed(b) == b[1] - Len(parsed)

AtBoundary(p) == p = 0 \/ stream[p].part \in {"body", "blank"} \/ stream[p].msg \in cuts
Parsing(b) ==
    \/ wait = "need_more" /\ parsed = <<>> /\ AtBoundary(b[1])
    \/ /\ wait = "message" /\ Len(parsed) \in 3..4 /\ Len(parsed) =< b[1]
       /\ parsed = SubSeq(stream, Consumed(b) + 1, b[1])
       /\ \E m \in 1..Messages : At(stream, Consumed(b) + 1, m)

\* A start line is cut where a buffer ends.
CutsAre(b) ==
    /\ \A i \in DOMAIN b : b[i] # 0 /\ stream[b[i]].part \in {"method", "version"}
                              => stream[b[i]].msg \in cuts
    /\ \A m \in cuts : m \in 1..Messages /\ \E s \in Nat :
          At(stream, s, m) /\ (s =< Consumed(b) \/ \E i \in DOMAIN b : b[i] \in {s, s + 1})

Tasks == [kind : {"handle", "input"}, msg : Nat]

\* What the parser holds of a message began 3 or 4 characters before.
LEMMA PartHeld ==
    ASSUME NEW x \in Nat, NEW d \in 3..4, d =< x
    PROVE  x - d \in Nat /\ x >= (x - d) + 3 /\ x < (x - d) + 5
OBVIOUS

\* The places after the second.
LEMMA ThirdOn == ASSUME NEW S, NEW s \in Seq(S) PROVE \A i \in DOMAIN s : i = 1 \/ i = 2 \/ 2 < i
OBVIOUS

\* What a message is queued as is a task.
LEMMA InputTask == ASSUME NEW m \in Nat PROVE Task("input", m) \in Tasks
BY DEF Task, Tasks

\* What the tasks t still give to the agent, which has been given a.
DeliveredBy(a, t, m) == \/ \E i \in DOMAIN a : a[i] = m
                        \/ \E j \in DOMAIN t : t[j].kind = "input" /\ t[j].msg = m
OrderedBy(a, t) ==
    /\ a \in Seq(Nat) /\ t \in Seq(Tasks)
    /\ \A i, j \in DOMAIN a : i < j => a[i] < a[j]
    /\ \A i \in DOMAIN a, j \in DOMAIN t : t[j].kind = "input" => a[i] < t[j].msg
    /\ \A i, j \in DOMAIN t : i < j /\ t[i].kind = "input" /\ t[j].kind = "input" => t[i].msg < t[j].msg
Delivered(m) == DeliveredBy(agent, tasks, m)
InOrder == OrderedBy(agent, tasks)

\* Delivered is every message before p whose start line is not cut.
Exact(p) == \A m : Delivered(m) =>
               m \in 1..Messages /\ m \notin cuts /\ \E s \in Nat : At(stream, s, m) /\ s + 4 =< p
Complete(p) == \A m \in 1..Messages, s \in Nat :
                  At(stream, s, m) /\ s + 4 =< p /\ m \notin cuts => Delivered(m)
Pending == recv # <<>> => \E j \in DOMAIN tasks : tasks[j].kind = "handle"

Faithful(b) ==
    /\ Framed(b) /\ Parsing(b) /\ CutsAre(b)
    /\ Exact(Consumed(b)) /\ Complete(Consumed(b)) /\ InOrder /\ Pending

Gone == ~open /\ tasks = <<>> /\ recv = <<>>
OverreadIsCaused == overread => cuts # {} \/ Char(0, "blank") \in Received

SessionInv ==
    /\ WellFormed(stream, Messages) /\ arrived \in 0..Len(stream)
    /\ kept = <<>> /\ overread \in BOOLEAN
    /\ OverreadIsCaused
    /\ overread \/ Gone \/ \E b : Faithful(b)

\* Before anything has come, no buffer is cut.
LEMMA SessionInitially == SessionInit => SessionInv
<1> SUFFICES ASSUME SessionInit PROVE SessionInv OBVIOUS
<1> USE DEF SessionInit
<1>1. WellFormed(stream, Messages) BY StreamIsWellFormed
<1>2. arrived \in 0..Len(stream) BY <1>1 DEF WellFormed
<1> DEFINE b == <<0>>
<1>3. b \in Seq(Nat) /\ Len(b) = 1 /\ b[1] = 0 OBVIOUS
<1>4. Consumed(b) = 0 BY <1>3 DEF Consumed
<1> HIDE DEF b
<1>5. Framed(b) BY <1>3 DEF Framed
<1>6. Parsing(b) BY <1>3 DEF Parsing, AtBoundary
<1>7. CutsAre(b) BY <1>3 DEF CutsAre
<1>8. Exact(Consumed(b)) /\ Complete(Consumed(b)) BY <1>4 DEF Exact, Complete, Delivered, DeliveredBy, At
<1>9. InOrder /\ Pending BY DEF InOrder, OrderedBy, Pending
<1> QED BY <1>1, <1>2, <1>5, <1>6, <1>7, <1>8, <1>9 DEF SessionInv, Faithful, OverreadIsCaused

\* When no task is left, all that has come is handled.
LEMMA SessionInvCorrect == SessionInv => LostOnlyWhenCut
<1> SUFFICES ASSUME SessionInv PROVE LostOnlyWhenCut OBVIOUS
<1> USE SessionAssumption DEF SessionAssumption
<1>1. overread => cuts # {} \/ Char(0, "blank") \in Received BY DEF SessionInv, OverreadIsCaused
<1>2. ASSUME open, tasks = <<>>, ~overread
      PROVE  Range(agent) = Uncut /\ \A i, j \in DOMAIN agent : i < j => agent[i] < agent[j]
  <2>1. PICK b : Faithful(b) BY <1>2 DEF SessionInv, Gone
  <2>2. WellFormed(stream, Messages) /\ arrived \in 0..Len(stream) BY DEF SessionInv
  <2>3. \A i, j \in DOMAIN agent : i < j => agent[i] < agent[j] BY <2>1 DEF Faithful, InOrder, OrderedBy
  <2>4. \A m : Delivered(m) <=> m \in Range(agent) BY <1>2 DEF Delivered, DeliveredBy, Range
  <2>5. recv = <<>> BY <1>2, <2>1 DEF Faithful, Pending
  <2>6. b[1] = arrived BY <2>1, <2>5 DEF Faithful, Framed
  <2>a. Len(parsed) \in 0..4 BY <2>1 DEF Faithful, Parsing
  <2>b. PICK d \in 0..4 : d = Len(parsed) BY <2>a
  <2>7. Len(parsed) \in Nat /\ Len(parsed) =< 4 BY <2>b
  <2>8. ASSUME NEW m \in Range(agent) PROVE m \in Uncut
    <3>1. PICK s \in Nat : At(stream, s, m) /\ s + 4 =< Consumed(b)
      BY <2>1, <2>4 DEF Faithful, Exact
    <3>2. m \in 1..Messages /\ m \notin cuts BY <2>1, <2>4 DEF Faithful, Exact
    <3>3. s + 4 \in 1..arrived BY <2>2, <2>6, <2>7, <3>1 DEF Consumed
    <3>4. stream[s + 4] = Char(m, "body") BY <3>1 DEF At
    <3> QED BY <3>2, <3>3, <3>4 DEF Uncut, Received
  <2>9. ASSUME NEW m \in Uncut PROVE m \in Range(agent)
    <3>1. m \in 1..Messages /\ m \notin cuts BY DEF Uncut
    <3>2. PICK i \in 1..arrived : stream[i] = Char(m, "body") BY DEF Uncut, Received
    <3>3. i \in DOMAIN stream /\ stream[i].part = "body" /\ stream[i].msg = m
      BY <2>2, <3>2 DEF WellFormed, Char
    <3>4. PICK l \in 1..Messages, k \in 0..4 : At(stream, i - k, l) /\ PartIs(stream[i], l, k)
      BY <2>2, <3>3, CoveredAt
    <3>6. k = 4 /\ l = m BY <3>3, <3>4 DEF PartIs
    <3> DEFINE s == i - 4
    <3>7. At(stream, s, m) /\ s \in Nat /\ s + 4 = i BY <3>2, <3>4, <3>6 DEF At
    <3> HIDE DEF s
    <3>8. s + 4 =< Consumed(b)
      <4>1. CASE parsed = <<>> BY <2>2, <2>6, <3>2, <3>7, <4>1 DEF Consumed
      <4>2. CASE parsed # <<>>
        <5> DEFINE p == Consumed(b)
        <5>1. Len(parsed) \in 3..4 /\ Len(parsed) =< b[1] BY <2>1, <4>2 DEF Faithful, Parsing
        <5>2. PICK n \in 1..Messages : At(stream, p + 1, n) BY <2>1, <4>2 DEF Faithful, Parsing
        <5>a. arrived \in Nat BY <2>2 DEF WellFormed
        <5>3. p \in Nat /\ p + 4 >= arrived /\ p =< arrived
          <6>2. p = arrived - Len(parsed) /\ Len(parsed) =< arrived BY <2>6, <5>1 DEF Consumed
          <6> HIDE DEF p
          <6>3. ASSUME NEW size \in Nat, size =< arrived, p = arrived - size, size =< 4
                PROVE  p \in Nat /\ p + 4 >= arrived /\ p =< arrived
            BY <5>a, <6>3
          <6> QED BY <2>7, <6>2, <6>3
        <5> HIDE DEF p
        <5>4. SUFFICES ASSUME s + 4 > p PROVE FALSE
          <6>1. s + 4 \in Nat BY <3>7
          <6>2. ~(s + 4 > p) => s + 4 =< p BY <5>3, <6>1
          <6> QED BY <6>2 DEF p
        <5>5. s =< p /\ p + 1 =< s + 4 BY <5>a, <5>3, <5>4, <3>2, <3>7
        <5>6. s =< p + 1 BY <5>3, <5>5, <3>7
        <5>7. s = p + 1 BY <3>7, <5>2, <5>5, <5>6, OneAfterOther
        <5> QED BY <5>3, <5>5, <5>7
      <4> QED BY <4>1, <4>2
    <3> QED BY <2>1, <2>4, <3>1, <3>7, <3>8 DEF Faithful, Complete
  <2> QED BY <2>3, <2>8, <2>9
<1> QED BY <1>1, <1>2 DEF LostOnlyWhenCut

-----------------------------------------------------------------------------
\* What a step does to the tasks.

\* The tail of a sequence.
LEMMA TailIs ==
    ASSUME NEW S, NEW t \in Seq(S), t # <<>>
    PROVE  /\ Tail(t) \in Seq(S) /\ Len(Tail(t)) = Len(t) - 1 /\ Len(t) \in Nat \ {0}
           /\ 1 \in DOMAIN t /\ t[1] = Head(t) /\ t[1] \in S
           /\ \A i \in DOMAIN Tail(t) : i + 1 \in DOMAIN t /\ Tail(t)[i] = t[i + 1] /\ i \in Nat /\ 1 < i + 1
           /\ \A i \in DOMAIN t : i # 1 => i - 1 \in DOMAIN Tail(t) /\ Tail(t)[i - 1] = t[i]
<1> DEFINE u == Tail(t)
<1>1. u \in Seq(S) /\ Len(u) = Len(t) - 1 /\ Len(t) \in Nat \ {0} /\ t[1] = Head(t)
      /\ \A i \in 1..(Len(t) - 1) : u[i] = t[i + 1]
  OBVIOUS
<1>2. DOMAIN t = 1..Len(t) /\ DOMAIN u = 1..Len(u) BY <1>1
<1> HIDE DEF u
<1>3. 1 \in DOMAIN t /\ t[1] \in S
  <2>1. 1 \in 1..Len(t) BY <1>1
  <2> QED BY <1>2, <2>1, ElementOfSeq
<1>4. ASSUME NEW i \in DOMAIN u PROVE i + 1 \in DOMAIN t /\ u[i] = t[i + 1] /\ i \in Nat /\ 1 < i + 1
  BY <1>1, <1>2
<1>5. ASSUME NEW i \in DOMAIN t, i # 1 PROVE i - 1 \in DOMAIN u /\ u[i - 1] = t[i]
  <2>1. i - 1 \in 1..(Len(t) - 1) /\ (i - 1) + 1 = i BY <1>1, <1>2, <1>5
  <2> QED BY <1>1, <1>2, <2>1
<1> QED BY <1>1, <1>3, <1>4, <1>5 DEF u

\* A sequence with one element more.
LEMMA AppendIs ==
    ASSUME NEW S, NEW t \in Seq(S), NEW x \in S
    PROVE  /\ Append(t, x) \in Seq(S) /\ Len(Append(t, x)) = Len(t) + 1 /\ Len(t) \in Nat
           /\ \A i \in DOMAIN t : i \in DOMAIN Append(t, x) /\ Append(t, x)[i] = t[i]
                                   /\ i \in Nat /\ i < Len(t) + 1
           /\ Len(t) + 1 \in DOMAIN Append(t, x) /\ Append(t, x)[Len(t) + 1] = x
           /\ \A i \in DOMAIN Append(t, x) : i \in DOMAIN t \/ i = Len(t) + 1
<1> DEFINE u == Append(t, x)
<1>1. u \in Seq(S) /\ Len(u) = Len(t) + 1 /\ Len(t) \in Nat /\ u[Len(t) + 1] = x
      /\ \A i \in 1..Len(t) : u[i] = t[i]
  OBVIOUS
<1>2. DOMAIN t = 1..Len(t) /\ DOMAIN u = 1..Len(u) BY <1>1
<1> HIDE DEF u
<1>3. \A i \in 1..Len(t) : i \in 1..(Len(t) + 1) /\ i \in Nat /\ i < Len(t) + 1 BY <1>1
<1>4. Len(t) + 1 \in 1..(Len(t) + 1) BY <1>1
<1>5. \A i \in 1..(Len(t) + 1) : i \in 1..Len(t) \/ i = Len(t) + 1 BY <1>1
<1> QED BY <1>1, <1>2, <1>3, <1>4, <1>5 DEF u

\* A task that has handled what came takes nothing from the messages to give.
LEMMA TaskDone ==
    ASSUME NEW a, NEW t, OrderedBy(a, t), t # <<>>, Head(t).kind = "handle"
    PROVE  OrderedBy(a, Tail(t)) /\ \A m : DeliveredBy(a, Tail(t), m) <=> DeliveredBy(a, t, m)
<1> DEFINE u == Tail(t)
<1>1. a \in Seq(Nat) /\ t \in Seq(Tasks) BY DEF OrderedBy
<1>2. /\ u \in Seq(Tasks) /\ t[1] = Head(t)
      /\ \A i \in DOMAIN u : i + 1 \in DOMAIN t /\ u[i] = t[i + 1] /\ i \in Nat
      /\ \A i \in DOMAIN t : i # 1 => i - 1 \in DOMAIN u /\ u[i - 1] = t[i]
  BY <1>1, TailIs
<1>3. t[1].kind # "input" BY <1>2
<1> HIDE DEF u
<1>4. ASSUME NEW i \in DOMAIN a, NEW j \in DOMAIN u, u[j].kind = "input" PROVE a[i] < u[j].msg
  BY <1>2, <1>4 DEF OrderedBy
<1>5. ASSUME NEW i \in DOMAIN u, NEW j \in DOMAIN u, i < j, u[i].kind = "input", u[j].kind = "input"
      PROVE  u[i].msg < u[j].msg
  <2>1. i + 1 \in DOMAIN t /\ j + 1 \in DOMAIN t /\ u[i] = t[i + 1] /\ u[j] = t[j + 1] BY <1>2
  <2>2. i + 1 < j + 1 BY <1>2, <1>5
  <2> QED BY <1>5, <2>1, <2>2 DEF OrderedBy
<1>6. OrderedBy(a, u) BY <1>1, <1>2, <1>4, <1>5 DEF OrderedBy
<1>7. ASSUME NEW m PROVE DeliveredBy(a, u, m) <=> DeliveredBy(a, t, m)
  <2>1. ASSUME NEW j \in DOMAIN t, t[j].kind = "input" PROVE j - 1 \in DOMAIN u /\ u[j - 1] = t[j]
    BY <1>2, <1>3, <2>1
  <2> QED BY <1>2, <2>1 DEF DeliveredBy
<1> QED BY <1>6, <1>7 DEF u

\* A task that is queued comes last.
LEMMA TaskQueued ==
    ASSUME NEW a, NEW t, OrderedBy(a, t), NEW k \in {"handle", "input"}, NEW m \in Nat,
           k = "input" => \A l \in Nat : DeliveredBy(a, t, l) => l < m
    PROVE  /\ OrderedBy(a, Append(t, Task(k, m)))
           /\ \A l : DeliveredBy(a, Append(t, Task(k, m)), l)
                        <=> DeliveredBy(a, t, l) \/ (k = "input" /\ l = m)
<1> DEFINE x == Task(k, m)
           u == Append(t, x)
           n == Len(t) + 1
<1>0. x \in Tasks /\ x.kind = k /\ x.msg = m BY DEF Task, Tasks
<1> HIDE DEF x
<1>1. a \in Seq(Nat) /\ t \in Seq(Tasks) BY DEF OrderedBy
<1>2. /\ u \in Seq(Tasks) /\ Len(t) \in Nat
      /\ \A i \in DOMAIN t : i \in DOMAIN u /\ u[i] = t[i] /\ i \in Nat /\ i < n
      /\ n \in DOMAIN u /\ u[n] = x
      /\ \A i \in DOMAIN u : i \in DOMAIN t \/ i = n
  BY <1>0, <1>1, AppendIs
<1> HIDE DEF u, n
<1>3. \A i \in DOMAIN a : a[i] \in Nat
  <2>1. DOMAIN a = 1..Len(a) BY <1>1, LenProperties
  <2> QED BY <1>1, <2>1, ElementOfSeq
<1>4. \A i \in DOMAIN t : t[i].msg \in Nat
  <2>1. DOMAIN t = 1..Len(t) BY <1>1, LenProperties
  <2>2. \A i \in DOMAIN t : t[i] \in Tasks BY <1>1, <2>1, ElementOfSeq
  <2> QED BY <2>2 DEF Tasks
<1>5. \A i \in DOMAIN a : k = "input" => a[i] < m BY <1>3 DEF DeliveredBy
<1>6. \A i \in DOMAIN t : k = "input" /\ t[i].kind = "input" => t[i].msg < m BY <1>4 DEF DeliveredBy
<1>7. ASSUME NEW i \in DOMAIN a, NEW j \in DOMAIN u, u[j].kind = "input" PROVE a[i] < u[j].msg
  <2>1. CASE j \in DOMAIN t BY <1>2, <1>7, <2>1 DEF OrderedBy
  <2>2. CASE j = n BY <1>0, <1>2, <1>5, <1>7, <2>2
  <2> QED BY <1>2, <2>1, <2>2
<1>8. ASSUME NEW i \in DOMAIN u, NEW j \in DOMAIN u, i < j, u[i].kind = "input", u[j].kind = "input"
      PROVE  u[i].msg < u[j].msg
  <2>0. n \in Nat BY <1>2 DEF n
  <2>1. i \in DOMAIN t
    <3>1. i = n => j \in DOMAIN t BY <1>2, <1>8, <2>0
    <3> QED BY <1>2, <1>8, <2>0, <3>1
  <2>2. CASE j \in DOMAIN t
    <3>1. t[i].kind = "input" /\ t[j].kind = "input" /\ u[i] = t[i] /\ u[j] = t[j] BY <1>2, <1>8, <2>1, <2>2
    <3> QED BY <1>8, <2>1, <2>2, <3>1 DEF OrderedBy
  <2>3. CASE j = n BY <1>0, <1>2, <1>6, <1>8, <2>1, <2>3
  <2> QED BY <1>2, <2>2, <2>3
<1>9. \A i, j \in DOMAIN a : i < j => a[i] < a[j] BY DEF OrderedBy
<1>10. OrderedBy(a, u) BY <1>1, <1>2, <1>7, <1>8, <1>9 DEF OrderedBy
<1>11. ASSUME NEW l PROVE DeliveredBy(a, u, l) <=> DeliveredBy(a, t, l) \/ (k = "input" /\ l = m)
  BY <1>0, <1>2 DEF DeliveredBy
<1> QED BY <1>10, <1>11 DEF u, x

\* A message that is given was the first of those to give.
LEMMA TaskInput ==
    ASSUME NEW a, NEW t, OrderedBy(a, t), t # <<>>, Head(t).kind = "input"
    PROVE  /\ OrderedBy(Append(a, Head(t).msg), Tail(t))
           /\ \A m : DeliveredBy(Append(a, Head(t).msg), Tail(t), m) <=> DeliveredBy(a, t, m)
<1> DEFINE l == Head(t).msg
           c == Append(a, l)
           u == Tail(t)
           n == Len(a) + 1
<1>1. a \in Seq(Nat) /\ t \in Seq(Tasks) BY DEF OrderedBy
<1>2. /\ u \in Seq(Tasks) /\ 1 \in DOMAIN t /\ t[1].kind = "input" /\ t[1].msg = l /\ t[1] \in Tasks
      /\ \A i \in DOMAIN u : i + 1 \in DOMAIN t /\ u[i] = t[i + 1] /\ i \in Nat /\ 1 < i + 1
      /\ \A i \in DOMAIN t : i # 1 => i - 1 \in DOMAIN u /\ u[i - 1] = t[i]
  BY <1>1, TailIs
<1>3. l \in Nat BY <1>2 DEF Tasks
<1> HIDE DEF l
<1>4. /\ c \in Seq(Nat) /\ Len(a) \in Nat
      /\ \A i \in DOMAIN a : i \in DOMAIN c /\ c[i] = a[i] /\ i \in Nat /\ i < n
      /\ n \in DOMAIN c /\ c[n] = l
      /\ \A i \in DOMAIN c : i \in DOMAIN a \/ i = n
  BY <1>1, <1>3, AppendIs
<1>5. n \in Nat BY <1>4
<1> HIDE DEF c, u, n
<1>6. \A i \in DOMAIN a : a[i] < l BY <1>2 DEF OrderedBy
<1>7. ASSUME NEW j \in DOMAIN u, u[j].kind = "input"
      PROVE  l < u[j].msg /\ \A i \in DOMAIN a : a[i] < u[j].msg
  <2>1. j + 1 \in DOMAIN t /\ u[j] = t[j + 1] /\ 1 < j + 1 BY <1>2
  <2> QED BY <1>2, <1>7, <2>1 DEF OrderedBy
<1>8. ASSUME NEW i \in DOMAIN c, NEW j \in DOMAIN c, i < j PROVE c[i] < c[j]
  <2>1. i \in DOMAIN a
    <3>1. i = n => j \in DOMAIN a BY <1>4, <1>5, <1>8
    <3> QED BY <1>4, <1>5, <1>8, <3>1
  <2>2. CASE j \in DOMAIN a
    <3>1. c[i] = a[i] /\ c[j] = a[j] BY <1>4, <2>1, <2>2
    <3> QED BY <1>8, <2>1, <2>2, <3>1 DEF OrderedBy
  <2>3. CASE j = n BY <1>4, <1>6, <2>1, <2>3
  <2> QED BY <1>4, <2>2, <2>3
<1>9. ASSUME NEW i \in DOMAIN c, NEW j \in DOMAIN u, u[j].kind = "input" PROVE c[i] < u[j].msg
  <2>1. CASE i \in DOMAIN a BY <1>4, <1>7, <1>9, <2>1
  <2>2. CASE i = n BY <1>4, <1>7, <1>9, <2>2
  <2> QED BY <1>4, <2>1, <2>2
<1>10. ASSUME NEW i \in DOMAIN u, NEW j \in DOMAIN u, i < j, u[i].kind = "input", u[j].kind = "input"
       PROVE  u[i].msg < u[j].msg
  <2>1. i + 1 \in DOMAIN t /\ j + 1 \in DOMAIN t /\ u[i] = t[i + 1] /\ u[j] = t[j + 1] BY <1>2
  <2>2. i + 1 < j + 1 BY <1>2, <1>10
  <2> QED BY <1>10, <2>1, <2>2 DEF OrderedBy
<1>11. OrderedBy(c, u) BY <1>2, <1>4, <1>8, <1>9, <1>10 DEF OrderedBy
<1>12. ASSUME NEW m PROVE DeliveredBy(c, u, m) <=> DeliveredBy(a, t, m)
  <2>1. (\E i \in DOMAIN c : c[i] = m) <=> (\E i \in DOMAIN a : a[i] = m) \/ l = m BY <1>4
  <2>2. (\E j \in DOMAIN t : t[j].kind = "input" /\ t[j].msg = m)
           <=> l = m \/ \E j \in DOMAIN u : u[j].kind = "input" /\ u[j].msg = m
    <3>1. ASSUME NEW j \in DOMAIN t PROVE j = 1 \/ (j - 1 \in DOMAIN u /\ u[j - 1] = t[j]) BY <1>2
    <3> QED BY <1>2, <3>1
  <2> QED BY <2>1, <2>2 DEF DeliveredBy
<1> QED BY <1>11, <1>12 DEF c, u, l

-----------------------------------------------------------------------------
\* What a step does to the buffers.

\* The position of the parser is one in the stream.
LEMMA FramedIs ==
    ASSUME SessionInv, NEW b, Framed(b)
    PROVE  /\ stream \in Seq(Chars)
           /\ \A i \in DOMAIN b : b[i] \in Nat /\ b[i] =< arrived /\ b[i] =< Len(stream)
           /\ 1 \in DOMAIN b
<1>1. stream \in Seq(Chars) /\ arrived \in 0..Len(stream) BY DEF SessionInv, WellFormed
<1>2. \A i \in DOMAIN b : b[i] \in Nat BY DEF Framed
<1>3. Len(b) \in Nat \ {0} /\ Len(b) \in DOMAIN b /\ 1 \in DOMAIN b BY DEF Framed
<1>4. ASSUME NEW i \in DOMAIN b PROVE b[i] =< arrived
  <2>1. i = Len(b) \/ i < Len(b) BY <1>3, <1>4 DEF Framed
  <2> QED BY <1>2, <1>3, <1>4, <2>1 DEF Framed
<1> QED BY <1>1, <1>2, <1>3, <1>4

\* What Framed() says of the places and the buffers, one by one.
LEMMA FrameIs ==
    ASSUME NEW b, Framed(b)
    PROVE  /\ b \in Seq(Nat) /\ recv \in Seq(Seq(Chars)) /\ Len(recv) \in Nat
           /\ Len(b) = Len(recv) + 1 /\ b[Len(b)] = arrived
           /\ DOMAIN b = 1..Len(b) /\ DOMAIN recv = 1..Len(recv)
           /\ \A i \in DOMAIN b : i \in Nat \ {0} /\ b[i] \in Nat
           /\ \A i, j \in DOMAIN b : i < j => b[i] < b[j]
           /\ \A i \in DOMAIN recv : i \in DOMAIN b /\ i + 1 \in DOMAIN b /\ i + 1 # 1
           /\ \A i \in DOMAIN recv : recv[i] = SubSeq(stream, b[i] + 1, b[i + 1])
<1>1. b \in Seq(Nat) /\ recv \in Seq(Seq(Chars)) /\ Len(b) = Len(recv) + 1 BY DEF Framed
<1>2. Len(recv) \in Nat /\ DOMAIN b = 1..Len(b) /\ DOMAIN recv = 1..Len(recv) BY <1>1, LenProperties
<1>3. \A i \in DOMAIN b : i \in Nat \ {0} BY <1>1, <1>2
<1>4. \A i \in DOMAIN b : b[i] \in Nat BY <1>1, <1>2, ElementOfSeq
<1>5. \A i \in DOMAIN recv : i \in DOMAIN b /\ i + 1 \in DOMAIN b /\ i + 1 # 1 BY <1>1, <1>2
<1> QED BY <1>1, <1>2, <1>3, <1>4, <1>5 DEF Framed

\* The first buffer is what is between the first two places.
LEMMA FirstBuffer ==
    ASSUME SessionInv, NEW b, Framed(b), recv # <<>>
    PROVE  /\ 2 \in DOMAIN b /\ b[1] < b[2]
           /\ Head(recv) = SubSeq(stream, b[1] + 1, b[2])
           /\ Head(recv) \in Seq(Chars) /\ Len(Head(recv)) = b[2] - b[1]
           /\ \A i \in 1..(b[2] - b[1]) : Head(recv)[i] = stream[b[1] + i]
<1>1. recv \in Seq(Seq(Chars)) BY FrameIs
<1>2. 1 \in DOMAIN recv /\ Head(recv) = recv[1] BY <1>1, TailIs
<1>3. 1 \in DOMAIN b /\ 1 + 1 \in DOMAIN b /\ recv[1] = SubSeq(stream, b[1] + 1, b[1 + 1]) BY <1>2, FrameIs
<1>4. 1 + 1 = 2 OBVIOUS
<1>5. b[1] < b[2] BY <1>3, <1>4, FrameIs
<1>6. b[1] \in Nat /\ b[2] \in Nat /\ b[1] =< b[2] /\ b[2] =< Len(stream) /\ stream \in Seq(Chars)
  BY <1>3, <1>4, <1>5, FramedIs
<1>7. /\ SubSeq(stream, b[1] + 1, b[2]) \in Seq(Chars)
      /\ Len(SubSeq(stream, b[1] + 1, b[2])) = b[2] - b[1]
      /\ \A i \in 1..(b[2] - b[1]) : SubSeq(stream, b[1] + 1, b[2])[i] = stream[b[1] + i]
  BY <1>6, SliceIs
<1> QED BY <1>2, <1>3, <1>4, <1>5, <1>7

\* The first buffer is taken.
LEMMA BufferTaken ==
    ASSUME SessionInv, NEW b, Framed(b), recv # <<>>,
           recv' = Tail(recv), UNCHANGED <<stream, arrived>>
    PROVE  /\ Framed(Tail(b))' /\ Tail(b)[1] = b[2]
           /\ \A i \in DOMAIN Tail(b) : i + 1 \in DOMAIN b /\ Tail(b)[i] = b[i + 1]
           /\ \A i \in DOMAIN b : i # 1 => i - 1 \in DOMAIN Tail(b) /\ Tail(b)[i - 1] = b[i]
<1> DEFINE c == Tail(b)
           r == Tail(recv)
<1>1. /\ r \in Seq(Seq(Chars)) /\ Len(r) = Len(recv) - 1 /\ Len(recv) \in Nat \ {0}
      /\ \A i \in DOMAIN r : i + 1 \in DOMAIN recv /\ r[i] = recv[i + 1] /\ i \in Nat
  BY FrameIs, TailIs
<1>2. b \in Seq(Nat) /\ Len(b) = Len(recv) + 1 /\ b # <<>>
  <2>1. b \in Seq(Nat) /\ Len(b) = Len(recv) + 1 BY FrameIs
  <2> QED BY <1>1, <2>1
<1>3. /\ c \in Seq(Nat) /\ Len(c) = Len(b) - 1
      /\ \A i \in DOMAIN c : i + 1 \in DOMAIN b /\ c[i] = b[i + 1] /\ i \in Nat
      /\ \A i \in DOMAIN b : i # 1 => i - 1 \in DOMAIN c /\ c[i - 1] = b[i]
  BY <1>2, TailIs
<1>4. recv' = r OBVIOUS
<1> HIDE DEF c, r
<1>5. DOMAIN c = 1..Len(c) /\ DOMAIN r = 1..Len(r) BY <1>1, <1>3, LenProperties
<1>6. Len(c) = Len(r) + 1 /\ Len(c) \in Nat \ {0} /\ Len(c) + 1 = Len(b) BY <1>1, <1>2, <1>3
<1>7. 1 \in DOMAIN c /\ Len(c) \in DOMAIN c /\ 1 + 1 = 2 BY <1>5, <1>6
<1>8. c[1] = b[2] /\ c[Len(c)] = arrived
  <2>1. b[Len(b)] = arrived BY FrameIs
  <2> QED BY <1>3, <1>6, <1>7, <2>1
<1>9. ASSUME NEW i \in DOMAIN c, NEW j \in DOMAIN c, i < j PROVE c[i] < c[j]
  <2>1. i + 1 \in DOMAIN b /\ j + 1 \in DOMAIN b /\ c[i] = b[i + 1] /\ c[j] = b[j + 1] BY <1>3
  <2>2. i + 1 < j + 1 BY <1>3, <1>9
  <2> QED BY <2>1, <2>2, FrameIs
<1>10. ASSUME NEW i \in DOMAIN r PROVE r[i] = SubSeq(stream, c[i] + 1, c[i + 1])
  <2>1. i + 1 \in DOMAIN recv /\ r[i] = recv[i + 1] BY <1>1
  <2>2. recv[i + 1] = SubSeq(stream, b[i + 1] + 1, b[(i + 1) + 1]) BY <2>1, FrameIs
  <2>3. i \in DOMAIN c /\ i + 1 \in DOMAIN c BY <1>1, <1>5, <1>6
  <2> QED BY <1>3, <2>1, <2>2, <2>3
<1>11. Framed(c)' BY <1>1, <1>3, <1>4, <1>6, <1>8, <1>9, <1>10 DEF Framed
<1> QED BY <1>3, <1>8, <1>11 DEF c

\* What is left of the first buffer goes back to the front.
LEMMA BufferShortened ==
    ASSUME SessionInv, NEW b, Framed(b), recv # <<>>, NEW q \in Nat, b[1] < q, q < b[2],
           recv' = <<SubSeq(stream, q + 1, b[2])>> \o Tail(recv), UNCHANGED <<stream, arrived>>
    PROVE  /\ Framed([b EXCEPT ![1] = q])'
           /\ DOMAIN [b EXCEPT ![1] = q] = DOMAIN b /\ [b EXCEPT ![1] = q][1] = q
           /\ \A i \in DOMAIN b : i # 1 => [b EXCEPT ![1] = q][i] = b[i]
<1> DEFINE c == [b EXCEPT ![1] = q]
           r == <<SubSeq(stream, q + 1, b[2])>> \o Tail(recv)
<1>1. /\ 1 \in DOMAIN b /\ 2 \in DOMAIN b /\ b[2] \in Nat /\ b[2] =< Len(stream)
      /\ stream \in Seq(Chars) /\ b[1] \in Nat
  BY FirstBuffer, FramedIs
<1>2. SubSeq(stream, q + 1, b[2]) \in Seq(Chars) BY <1>1, SliceIs
<1> DEFINE x == SubSeq(stream, q + 1, b[2])
           u == Tail(recv)
<1>x. x \in Seq(Chars) BY <1>2
<1> HIDE DEF x
<1>3. /\ recv \in Seq(Seq(Chars)) /\ Len(recv) \in Nat \ {0} /\ u \in Seq(Seq(Chars)) /\ Len(u) = Len(recv) - 1
      /\ \A i \in DOMAIN recv : i # 1 => i - 1 \in DOMAIN u /\ u[i - 1] = recv[i]
  <2>1. recv \in Seq(Seq(Chars)) BY FrameIs
  <2> QED BY <2>1, TailIs
<1>r. r = <<x>> \o u BY DEF x
<1> HIDE DEF r, u
<1>4. r \in Seq(Seq(Chars)) /\ Len(r) = Len(recv) /\ r[1] = x
      /\ \A i \in DOMAIN recv : i # 1 => r[i] = recv[i]
  <2> DEFINE y == <<x>>
  <2>1. y \in Seq(Seq(Chars)) /\ Len(y) = 1 /\ y[1] = x BY <1>x
  <2> HIDE DEF y
  <2>2. /\ r \in Seq(Seq(Chars)) /\ Len(r) = Len(y) + Len(u)
        /\ \A k \in 1..(Len(y) + Len(u)) : r[k] = IF k =< Len(y) THEN y[k] ELSE u[k - Len(y)]
    <3>1. r = y \o u BY <1>r DEF y
    <3> QED BY <1>3, <2>1, <3>1, ConcatProperties
  <2>3. Len(r) = Len(recv) BY <1>3, <2>1, <2>2
  <2>4. r[1] = x
    <3>1. 1 \in 1..(Len(y) + Len(u)) /\ 1 =< Len(y) BY <1>3, <2>1
    <3> QED BY <2>1, <2>2, <3>1
  <2>5. ASSUME NEW i \in DOMAIN recv, i # 1 PROVE r[i] = recv[i]
    <3>1. DOMAIN recv = 1..Len(recv) BY <1>3, LenProperties
    <3>2. i \in 1..(Len(y) + Len(u)) /\ ~(i =< Len(y)) /\ i - Len(y) = i - 1 BY <1>3, <2>1, <2>5, <3>1
    <3>3. r[i] = u[i - 1] BY <2>2, <3>2
    <3> QED BY <1>3, <2>5, <3>3
  <2> QED BY <2>2, <2>3, <2>4, <2>5
<1>a. /\ b \in Seq(Nat) /\ Len(b) = Len(recv) + 1 /\ b[Len(b)] = arrived
      /\ \A i, j \in DOMAIN b : i < j => b[i] < b[j]
      /\ DOMAIN b = 1..Len(b) /\ \A i \in DOMAIN b : i \in Nat \ {0} /\ b[i] \in Nat
  BY FrameIs
<1>7. c \in Seq(Nat) /\ Len(c) = Len(b) /\ DOMAIN c = DOMAIN b /\ c[1] = q
      /\ \A i \in DOMAIN b : i # 1 => c[i] = b[i]
  <2>1. DOMAIN c = DOMAIN b /\ c[1] = q /\ \A i \in DOMAIN b : i # 1 => c[i] = b[i] BY <1>1
  <2>2. b \in Seq(Nat) BY <1>a
  <2> QED BY <2>1, <2>2
<1> HIDE DEF c
<1>8. c[Len(c)] = arrived
  <2>1. Len(b) \in DOMAIN b /\ Len(b) # 1 BY SMTT(30), <1>3, <1>a
  <2> QED BY <1>7, <1>a, <2>1
<1>9. ASSUME NEW i \in DOMAIN c, NEW j \in DOMAIN c, i < j PROVE c[i] < c[j]
  <2>0. i \in Nat \ {0} /\ j \in Nat \ {0} /\ j \in DOMAIN b /\ i \in DOMAIN b BY <1>7, <1>a
  <2>1. j # 1 /\ j > 1 /\ (j = 2 \/ 2 < j) BY <1>9, <2>0
  <2>2. c[j] = b[j] BY <1>7, <2>0, <2>1
  <2>3. CASE i = 1
    <3>1. j = 2 \/ b[2] < b[j] BY <1>1, <1>a, <2>0, <2>1
    <3>2. b[j] \in Nat BY <1>a, <2>0
    <3> QED BY SMTT(30), <1>1, <1>7, <2>2, <2>3, <3>1, <3>2
  <2>4. CASE i # 1
    <3>1. c[i] = b[i] BY <1>7, <2>0, <2>4
    <3> QED BY <1>9, <1>a, <2>0, <2>2, <3>1
  <2> QED BY <2>3, <2>4
<1>10. ASSUME NEW i \in DOMAIN r PROVE r[i] = SubSeq(stream, c[i] + 1, c[i + 1])
  <2>0. DOMAIN r = 1..Len(recv) BY <1>4, LenProperties
  <2>1. i \in DOMAIN recv /\ i \in DOMAIN b /\ i + 1 \in DOMAIN b /\ i + 1 # 1
        /\ recv[i] = SubSeq(stream, b[i] + 1, b[i + 1])
    <3>1. i \in DOMAIN recv BY <2>0, FrameIs
    <3> QED BY <3>1, FrameIs
  <2>2. c[i + 1] = b[i + 1] BY <1>7, <2>1
  <2>3. CASE i = 1
    <3>1. c[i + 1] = b[2] BY <2>2, <2>3
    <3> QED BY <1>4, <1>7, <2>3, <3>1 DEF x
  <2>4. CASE i # 1
    <3>1. c[i] = b[i] /\ r[i] = recv[i] BY <1>4, <1>7, <2>1, <2>4
    <3> QED BY <2>1, <2>2, <3>1
  <2> QED BY <2>3, <2>4
<1>11. Len(c) = Len(r) + 1 BY <1>4, <1>7, <1>a
<1>12. recv' = r BY DEF r, u
<1>13. Framed(c)' BY <1>4, <1>7, <1>8, <1>9, <1>10, <1>11, <1>12 DEF Framed
<1> QED BY <1>7, <1>13 DEF c

\* A message of which the parser is given the whole start line.
LEMMA ParserIs ==
    ASSUME WellFormed(stream, Messages), NEW p \in Nat, NEW q \in Nat, p + 3 =< q, q =< Len(stream),
           NEW m \in Nat, At(stream, p + 1, m),
           NEW result \in ParserInput(SubSeq(stream, p + 1, q))
    PROVE  \/ q < p + 5 /\ result.ret = "more" /\ result.rest = <<>>
           \/ /\ q >= p + 5 /\ result.ret = "done" /\ result.msg = m
              /\ result.rest = SubSeq(stream, (p + 5) + 1, q)
<1> DEFINE text == SubSeq(stream, p + 1, q)
           n == IF q - p < 5 THEN q - p ELSE 5
           first == SubSeq(text, 1, n)
<1>0. stream \in Seq(Chars) BY DEF WellFormed
<1>1. text \in Seq(Chars) /\ Len(text) = q - p /\ \A i \in 1..(q - p) : text[i] = stream[p + i]
  BY <1>0, SliceIs
<1> HIDE DEF text
<1>2. Len(Parts) = 5 BY DEF Parts
<1>3. Min({Len(Parts), Len(text)}) = n
  <2> DEFINE S == {Len(Parts), Len(text)}
  <2>1. S \in SUBSET Nat /\ S # {} /\ n \in S /\ \A x \in S : n =< x BY <1>1, <1>2
  <2>2. Min(S) \in S /\ \A x \in S : Min(S) =< x
    <3> HIDE DEF S, n
    <3> QED BY <2>1, MinIs
  <2>3. Min(S) \in Nat /\ n \in Nat BY <2>1, <2>2
  <2> HIDE DEF S, n
  <2>4. Min(S) = n BY <2>1, <2>2, <2>3
  <2> QED BY <2>4 DEF S
<1>4. n \in 3..5 /\ n =< Len(text) BY <1>1
<1>5. first \in Seq(Chars) /\ Len(first) = n /\ \A i \in 1..n : first[i] = text[i]
  <2> HIDE DEF n
  <2>1. \A i \in 1..n : text[i] \in Chars BY <1>1, <1>4, ElementOfSeq
  <2> QED BY <1>1, <1>4, <2>1, LineOfData
<1> HIDE DEF first
<1>6. \A i \in 1..n : first[i] = stream[p + i] BY <1>1, <1>4, <1>5
<1>7. /\ \A i \in 1..n : first[i].part # "junk"
  <2> SUFFICES ASSUME NEW i \in 1..n PROVE first[i].part # "junk" OBVIOUS
  <2>1. i \in {1, 2, 3, 4, 5} BY <1>4
  <2>2. first[i] = stream[p + i] BY <1>6
  <2> QED BY <2>1, <2>2 DEF At, Char
<1>8. ~HasJunk(first)
  <2>0. DOMAIN first = 1..Len(first) BY <1>5, LenProperties
  <2>1. DOMAIN first = 1..n BY <1>5, <2>0
  <2> QED BY <1>7, <2>1 DEF HasJunk, Junk, Char
<1>9. ParserInput(text) =
        IF Len(text) < 5 THEN {[ret |-> "more", msg |-> Damaged, rest |-> <<>>]}
        ELSE {[ret |-> "done", msg |-> IF first = Text(first[1].msg) THEN first[1].msg ELSE Damaged,
               rest |-> SubSeq(text, 6, Len(text))]}
  <2> HIDE DEF n
  <2>1. SubSeq(text, 1, Min({Len(Parts), Len(text)})) = first BY <1>3 DEF first
  <2>2. SubSeq(text, Len(Parts) + 1, Len(text)) = SubSeq(text, 6, Len(text)) BY <1>2
  <2> QED BY <1>2, <1>8, <2>1, <2>2 DEF ParserInput
<1>10. CASE q < p + 5 BY <1>1, <1>9, <1>10 DEF text
<1>11. CASE q >= p + 5
  <2>1. n = 5 BY <1>11
  <2>2. first[1] = stream[p + 1] /\ first[2] = stream[p + 2] /\ first[3] = stream[p + 3]
        /\ first[4] = stream[p + 4] /\ first[5] = stream[p + 5] BY <1>6, <2>1
  <2>3. first[1].msg = m BY <2>2 DEF At, Char
  <2>4. first = Text(m)
    <3>1. Text(m) \in Seq(Chars) /\ Len(Text(m)) = 5 BY TextIs
    <3>2. ASSUME NEW i \in 1..5 PROVE first[i] = Text(m)[i]
      <4>1. i \in {1, 2, 3, 4, 5} OBVIOUS
      <4>2. (p + 1) + 1 = p + 2 /\ (p + 1) + 2 = p + 3 /\ (p + 1) + 3 = p + 4 /\ (p + 1) + 4 = p + 5
        OBVIOUS
      <4> QED BY <2>2, <4>1, <4>2, TextIs DEF At
    <3> QED BY <1>5, <2>1, <3>1, <3>2, SeqEqual
  <2>5. Len(text) >= 5 BY <1>1, <1>11
  <2>6. SubSeq(text, 6, Len(text)) = SubSeq(stream, (p + 5) + 1, q)
    <3>1. CASE q = p + 5
      <4>1. SubSeq(text, 6, 5) = <<>> /\ SubSeq(stream, (p + 5) + 1, p + 5) = <<>>
        BY <1>0, <1>1, SubSeqEmpty
      <4> QED BY <1>1, <3>1, <4>1
    <3>2. CASE q > p + 5
      <4>1. \A i \in 6..(q - p) : text[i] \in Chars BY <1>1, ElementOfSeq
      <4> DEFINE u == SubSeq(text, 6, q - p)
                 v == SubSeq(stream, (p + 5) + 1, q)
      <4>2. u \in Seq(Chars) /\ Len(u) = q - p - 5 /\ \A i \in 1..(q - p - 5) : u[i] = text[5 + i]
        <5>1. u = SubSeq(text, 5 + 1, q - p) OBVIOUS
        <5>2. q - p \in Nat /\ 5 =< q - p BY <3>2
        <5> HIDE DEF u
        <5> QED BY <1>1, <5>1, <5>2, SliceIs
      <4>3. v \in Seq(Chars) /\ Len(v) = q - (p + 5) /\ \A i \in 1..(q - (p + 5)) : v[i] = stream[(p + 5) + i]
        BY <1>0, <3>2, SliceIs
      <4> HIDE DEF u, v
      <4>4. ASSUME NEW i \in 1..(q - p - 5) PROVE u[i] = v[i]
        <5>1. 5 + i \in 1..(q - p) /\ i \in 1..(q - (p + 5)) /\ p + (5 + i) = (p + 5) + i OBVIOUS
        <5> QED BY <1>1, <4>2, <4>3, <5>1
      <4>5. u = v
        <5>1. Len(u) = Len(v) /\ \A i \in 1..Len(u) : u[i] = v[i] BY <4>2, <4>3, <4>4
        <5> QED BY <4>2, <4>3, <5>1, SeqEqual
      <4> QED BY <1>1, <4>5 DEF u, v
    <3> QED BY <1>11, <3>1, <3>2
  <2>7. result \in ParserInput(text) BY DEF text
  <2>8. result = [ret |-> "done", msg |-> IF first = Text(first[1].msg) THEN first[1].msg ELSE Damaged,
                  rest |-> SubSeq(text, 6, Len(text))]
    <3>1. ~(Len(text) < 5) BY <1>1, <2>5
    <3> HIDE DEF n
    <3> QED BY <1>9, <2>7, <3>1
  <2>9. result.ret = "done" /\ result.msg = m /\ result.rest = SubSeq(text, 6, Len(text))
    BY <2>3, <2>4, <2>8
  <2> QED BY <1>11, <2>6, <2>9
<1> QED BY <1>10, <1>11

-----------------------------------------------------------------------------
\* What a step of the poller does to what is delivered.

\* The start line of the message that the parser takes in has not been cut.
LEMMA TakenIsUncut ==
    ASSUME SessionInv, NEW b, Framed(b), CutsAre(b), NEW m \in 1..Messages,
           At(stream, Consumed(b) + 1, m), Consumed(b) \in Nat,
           \A i \in DOMAIN b : b[i] =< Consumed(b) \/ b[i] >= Consumed(b) + 3
    PROVE  m \notin cuts
<1> SUFFICES ASSUME m \in cuts PROVE FALSE OBVIOUS
<1> DEFINE p == Consumed(b)
<1>1. PICK s \in Nat : At(stream, s, m) /\ (s =< p \/ \E i \in DOMAIN b : b[i] \in {s, s + 1})
  BY DEF CutsAre
<1>2. Messages \in Nat /\ m \in Nat BY SessionAssumption DEF SessionAssumption
<1>3. s = p + 1 BY <1>1, <1>2, OnePlace DEF SessionInv
<1>4. \A i \in DOMAIN b : b[i] \in Nat BY FramedIs
<1> HIDE DEF p
<1>5. \A i \in DOMAIN b : b[i] =< p \/ b[i] >= p + 3 BY DEF p
<1>6. p \in Nat BY DEF p
<1> QED BY <1>1, <1>3, <1>4, <1>5, <1>6

\* Nothing is delivered between p and q: all messages that end there are cut.
LEMMA NothingBetween ==
    ASSUME NEW p \in Nat, NEW q \in Nat, p =< q, Exact(p), Complete(p),
           \A m \in 1..Messages, s \in Nat :
               At(stream, s, m) /\ p < s + 4 /\ s + 4 =< q => m \in cuts
    PROVE  Exact(q) /\ Complete(q)
<1>1. Exact(q) BY DEF Exact
<1>2. Complete(q)
  <2> SUFFICES ASSUME NEW m \in 1..Messages, NEW s \in Nat, At(stream, s, m), s + 4 =< q, m \notin cuts
               PROVE  Delivered(m) BY DEF Complete
  <2>1. s + 4 =< p OBVIOUS
  <2> QED BY <2>1 DEF Complete
<1> QED BY <1>1, <1>2

\* The position is where a message that was lost goes on, or where one begins.
LEMMA LostAtBoundary ==
    ASSUME SessionInv, NEW p \in Nat, AtBoundary(p), p =< Len(stream),
           NEW m \in 1..Messages, NEW s \in Nat, At(stream, s, m), s =< p, p < s + 4
    PROVE  m \in cuts
<1> DEFINE k == p - s
<1>1. k \in 0..4 /\ p = s + k /\ k # 4 OBVIOUS
<1> HIDE DEF k
<1>2. PartIs(stream[p], m, k) /\ s \in Nat \ {0} BY <1>1, PartAt
<1>3. p # 0 BY <1>1, <1>2
<1>4. stream[p].part # "body" /\ stream[p].part # "blank" /\ stream[p].msg = m BY <1>1, <1>2 DEF PartIs
<1> QED BY <1>3, <1>4 DEF AtBoundary

\* A buffer with a whole start line is not passed over.
LEMMA NotPassedOver ==
    ASSUME SessionInv, NEW b, Framed(b), recv # <<>>, Found(Head(recv)) = 0,
           NEW m, NEW s \in Nat, At(stream, s, m), b[1] < s, s + 2 =< b[2]
    PROVE  FALSE
<1> DEFINE data == Head(recv)
           i == s - b[1]
<1>1. b[1] \in Nat /\ b[2] \in Nat /\ b[1] < b[2] BY FirstBuffer, FramedIs
<1>2. data \in Seq(Chars) /\ Len(data) = b[2] - b[1] /\ \A j \in 1..(b[2] - b[1]) : data[j] = stream[b[1] + j]
  BY FirstBuffer
<1> HIDE DEF data
<1>3. i \in Nat \ {0} /\ i + 2 =< Len(data) /\ b[1] + i = s BY SMTT(30), <1>1, <1>2
<1>4. b[1] + (i + 1) = s + 1 /\ b[1] + (i + 2) = s + 2 /\ b[1] + (i - 1) = s - 1 BY <1>1
<1> HIDE DEF i
<1>5. data[i] = stream[s] /\ data[i + 1] = stream[s + 1] /\ data[i + 2] = stream[s + 2]
  <2>1. i \in 1..(b[2] - b[1]) /\ i + 1 \in 1..(b[2] - b[1]) /\ i + 2 \in 1..(b[2] - b[1])
    BY SMTT(30), <1>1, <1>2, <1>3
  <2> QED BY <1>2, <1>3, <1>4, <2>1
<1>6. i > 1 => data[i - 1].part \in Newlines
  <2> SUFFICES ASSUME i > 1 PROVE data[i - 1].part \in Newlines OBVIOUS
  <2>1. i - 1 \in 1..(b[2] - b[1]) BY <1>1, <1>2, <1>3
  <2>2. data[i - 1] = stream[s - 1] BY <1>2, <1>4, <2>1
  <2>3. s > 1 BY <1>1, <1>3
  <2>4. Messages \in Nat BY SessionAssumption DEF SessionAssumption
  <2>5. stream[s - 1].part \in {"body", "blank"} BY <2>3, <2>4, BeforeStart DEF SessionInv
  <2> QED BY <2>2, <2>5 DEF Newlines
<1>7. HasStart(data, i) BY <1>3, <1>5, <1>6 DEF HasStart, At, Char
<1>8. Found(data) # 0 BY <1>2, <1>7, FoundAnywhere
<1> QED BY <1>8 DEF data

\* Handled: the buffers are all done, or the task goes on.
GoesOn == tasks' = (IF Handled(recv') THEN Tail(tasks) ELSE tasks)

\* A task of handle_recv() ends when it has handled all that came.
LEMMA TaskStep ==
    ASSUME InOrder, Pending, tasks # <<>>, Head(tasks).kind = "handle",
           NEW t, t = (IF Handled(recv') THEN Tail(tasks) ELSE tasks)
    PROVE  /\ OrderedBy(agent, t) /\ \A m : DeliveredBy(agent, t, m) <=> Delivered(m)
           /\ recv' # <<>> => \E j \in DOMAIN t : t[j].kind = "handle"
<1>1. CASE Handled(recv')
  <2>1. t = Tail(tasks) BY <1>1
  <2> QED BY <1>1, <2>1, TaskDone DEF InOrder, Delivered, Handled
<1>2. CASE ~Handled(recv')
  <2>1. t = tasks BY <1>2
  <2>2. 1 \in DOMAIN tasks /\ tasks[1].kind = "handle" BY DEF InOrder, OrderedBy
  <2> QED BY <2>1, <2>2 DEF InOrder, Delivered
<1> QED BY <1>1, <1>2

\* A buffer without a start line is lost: what it held of messages was cut.
LEMMA PassedOver ==
    ASSUME SessionInv, NEW b, Faithful(b), recv # <<>>, wait = "need_more", Found(Head(recv)) = 0,
           tasks # <<>>, Head(tasks).kind = "handle",
           recv' = Tail(recv), GoesOn,
           UNCHANGED <<stream, arrived, wait, parsed, agent, cuts>>
    PROVE  Faithful(Tail(b))'
<1> USE DEF Faithful
<1> DEFINE c == Tail(b)
           p == b[1]
           q == b[2]
<1>1. /\ Framed(c)' /\ c[1] = q
      /\ \A i \in DOMAIN c : i + 1 \in DOMAIN b /\ c[i] = b[i + 1]
      /\ \A i \in DOMAIN b : i # 1 => i - 1 \in DOMAIN c /\ c[i - 1] = b[i]
  BY BufferTaken
<1>2. parsed = <<>> /\ AtBoundary(p) BY DEF Parsing
<1>3. Consumed(b) = p /\ Consumed(c)' = q /\ p \in Nat /\ q \in Nat /\ p < q /\ q =< Len(stream)
  <2>1. p \in Nat /\ q \in Nat /\ p < q /\ q =< Len(stream) BY FirstBuffer, FramedIs
  <2>2. Len(parsed) = 0 /\ Len(parsed') = 0 BY <1>2
  <2> HIDE DEF c
  <2>3. Consumed(b) = p BY <2>1, <2>2 DEF Consumed
  <2>4. Consumed(c)' = q BY <1>1, <2>1, <2>2 DEF Consumed
  <2> QED BY <2>1, <2>3, <2>4
<1> HIDE DEF c
<1>4. Messages \in Nat /\ WellFormed(stream, Messages) BY SessionAssumption DEF SessionInv, SessionAssumption
<1>5. ASSUME NEW m \in 1..Messages, NEW s \in Nat, At(stream, s, m), s + 2 =< q, p < s + 4
      PROVE  m \in cuts
  <2>1. CASE s =< p BY SMTT(30), <1>2, <1>3, <1>5, <2>1, LostAtBoundary
  <2>2. CASE p < s BY <1>5, <2>2, NotPassedOver
  <2> QED BY <1>3, <2>1, <2>2
<1>6. AtBoundary(q)'
  <2>1. AtBoundary(q)
    <3> SUFFICES ASSUME stream[q].part # "body", stream[q].part # "blank" PROVE stream[q].msg \in cuts
      BY DEF AtBoundary
    <3>1. q \in DOMAIN stream BY <1>3, <1>4 DEF WellFormed
    <3>2. PICK m \in 1..Messages, k \in 0..4 : At(stream, q - k, m) /\ q - k \in Nat /\ PartIs(stream[q], m, k)
      BY <1>4, <3>1, CoveredAt
    <3>3. CASE k \in {0, 1}
      <4>1. stream[q].part \in {"method", "version"} BY <3>2, <3>3 DEF PartIs
      <4>2. 2 \in DOMAIN b /\ q # 0 BY <1>3, FirstBuffer
      <4> QED BY <4>1, <4>2 DEF CutsAre
    <3>4. CASE k \in {2, 3}
      <4>1. (q - k) + 2 =< q /\ p < (q - k) + 4 BY <1>3, <3>4
      <4>2. m \in cuts BY <1>5, <3>2, <4>1
      <4> QED BY <3>2, <4>2 DEF PartIs
    <3>5. k # 4 BY <3>2 DEF PartIs
    <3> QED BY <3>3, <3>4, <3>5
  <2> QED BY <2>1 DEF AtBoundary
<1>7. Parsing(c)' BY <1>1, <1>2, <1>6 DEF Parsing
<1>8. CutsAre(c)'
  <2>1. ASSUME NEW i \in DOMAIN c, c[i] # 0, stream[c[i]].part \in {"method", "version"}
        PROVE  stream[c[i]].msg \in cuts
    BY <1>1, <2>1 DEF CutsAre
  <2>2. ASSUME NEW m \in cuts
        PROVE  m \in 1..Messages /\ \E s \in Nat :
                  At(stream, s, m) /\ (s =< q \/ \E i \in DOMAIN c : c[i] \in {s, s + 1})
    <3>1. PICK s \in Nat : At(stream, s, m) /\ (s =< p \/ \E i \in DOMAIN b : b[i] \in {s, s + 1})
      BY <1>3 DEF CutsAre
    <3>2. s =< q \/ \E i \in DOMAIN c : c[i] \in {s, s + 1}
      <4>1. CASE s =< p BY <1>3, <4>1
      <4>2. ASSUME NEW i \in DOMAIN b, b[i] \in {s, s + 1} PROVE s =< q \/ \E j \in DOMAIN c : c[j] \in {s, s + 1}
        <5>1. CASE i = 1 BY <1>3, <4>2, <5>1
        <5>2. CASE i # 1 BY <1>1, <4>2, <5>2
        <5> QED BY <5>1, <5>2
      <4> QED BY <3>1, <4>1, <4>2
    <3> QED BY <3>1, <3>2 DEF CutsAre
  <2> QED BY <1>3, <2>1, <2>2 DEF CutsAre
<1>9. Exact(q) /\ Complete(q)
  <2>1. Exact(p) /\ Complete(p) BY <1>3
  <2>2. \A m \in 1..Messages, s \in Nat : At(stream, s, m) /\ p < s + 4 /\ s + 4 =< q => m \in cuts
    BY <1>3, <1>5
  <2>3. p =< q /\ p \in Nat /\ q \in Nat BY <1>3
  <2> HIDE DEF p, q
  <2> QED BY <2>1, <2>2, <2>3, NothingBetween
<1>10. /\ OrderedBy(agent, tasks') /\ \A m : DeliveredBy(agent, tasks', m) <=> Delivered(m)
       /\ recv' # <<>> => \E j \in DOMAIN tasks' : tasks'[j].kind = "handle"
  BY TaskStep DEF GoesOn
<1>11. InOrder' /\ Pending' /\ \A m : Delivered(m)' <=> Delivered(m) BY <1>10 DEF InOrder, Pending, Delivered
<1>12. Exact(q)' BY <1>9, <1>11 DEF Exact
<1>13. Complete(q)' BY <1>9, <1>11 DEF Complete
<1> QED BY <1>1, <1>3, <1>7, <1>8, <1>11, <1>12, <1>13 DEF c

\* The parser is given more of a message, and waits for the rest.
LEMMA MoreTaken ==
    ASSUME SessionInv, NEW b, Faithful(b), recv # <<>>, tasks # <<>>, Head(tasks).kind = "handle",
           NEW p \in Nat, p = Consumed(b), b[1] = p \/ (b[1] >= p + 3 /\ b[1] < p + 5),
           NEW m \in 1..Messages, At(stream, p + 1, m), p + 3 =< b[2], b[2] < p + 5,
           recv' = Tail(recv), GoesOn, wait' = "message", parsed' = SubSeq(stream, p + 1, b[2]),
           UNCHANGED <<stream, arrived, agent, cuts>>
    PROVE  Faithful(Tail(b))'
<1> USE DEF Faithful
<1> DEFINE c == Tail(b)
           q == b[2]
<1>1. /\ Framed(c)' /\ c[1] = q
      /\ \A i \in DOMAIN c : i + 1 \in DOMAIN b /\ c[i] = b[i + 1]
      /\ \A i \in DOMAIN b : i # 1 => i - 1 \in DOMAIN c /\ c[i - 1] = b[i]
  BY BufferTaken
<1> HIDE DEF c
<1>2. q \in Nat /\ q =< Len(stream) /\ stream \in Seq(Chars) BY FirstBuffer, FramedIs
<1>3. p =< q BY SMTT(30), <1>2
<1>4. Len(parsed') = q - p BY <1>2, <1>3, SliceIs
<1>5. Consumed(c)' = p
  <2>1. Consumed(c)' = c[1] - Len(parsed') BY DEF Consumed
  <2>2. q - (q - p) = p BY SMTT(30), <1>2
  <2> QED BY <1>1, <1>4, <2>1, <2>2
<1>6. Parsing(c)'
  <2>1. Len(parsed') \in 3..4 /\ Len(parsed') =< q BY SMTT(30), <1>2, <1>4
  <2> HIDE DEF q
  <2>2. Len(parsed') =< c[1] BY <1>1, <2>1
  <2>3. parsed' = SubSeq(stream, p + 1, c[1]) BY <1>1 DEF q
  <2> QED BY <1>5, <2>1, <2>2, <2>3 DEF Parsing
<1>7. CutsAre(c)'
  <2>1. ASSUME NEW i \in DOMAIN c, c[i] # 0, stream[c[i]].part \in {"method", "version"}
        PROVE  stream[c[i]].msg \in cuts
    BY <1>1, <2>1 DEF CutsAre
  <2>2. ASSUME NEW l \in cuts
        PROVE  l \in 1..Messages /\ \E s \in Nat :
                  At(stream, s, l) /\ (s =< p \/ \E i \in DOMAIN c : c[i] \in {s, s + 1})
    <3>1. PICK s \in Nat : At(stream, s, l) /\ (s =< p \/ \E i \in DOMAIN b : b[i] \in {s, s + 1})
      BY DEF CutsAre
    <3>2. ASSUME NEW i \in DOMAIN b, b[i] \in {s, s + 1}
          PROVE  s =< p \/ \E j \in DOMAIN c : c[j] \in {s, s + 1}
      <4>1. CASE i # 1 BY <1>1, <3>2, <4>1
      <4>2. CASE i = 1 /\ b[1] = p BY SMTT(30), <3>2, <4>2
      <4>3. CASE i = 1 /\ b[1] >= p + 3 /\ b[1] < p + 5
        <5>1. b[1] \in Nat BY FramedIs
        <5>2. p + 1 < s /\ s =< (p + 1) + 4 BY SMTT(30), <3>2, <4>3, <5>1
        <5>3. p + 1 =< s BY <5>2
        <5>4. p + 1 = s BY <3>1, <5>2, <5>3, OneAfterOther
        <5> QED BY <5>2, <5>4
      <4> QED BY <4>1, <4>2, <4>3
    <3>3. l \in 1..Messages BY DEF CutsAre
    <3> QED BY <3>1, <3>2, <3>3
  <2> QED BY <1>5, <2>1, <2>2 DEF CutsAre
<1>8. /\ OrderedBy(agent, tasks') /\ \A l : DeliveredBy(agent, tasks', l) <=> Delivered(l)
      /\ recv' # <<>> => \E j \in DOMAIN tasks' : tasks'[j].kind = "handle"
  BY TaskStep DEF GoesOn
<1>9. InOrder' /\ Pending' /\ \A l : Delivered(l)' <=> Delivered(l) BY <1>8 DEF InOrder, Pending, Delivered
<1>10. Exact(p)' BY <1>9 DEF Exact
<1>11. Complete(p)' BY <1>9 DEF Complete
<1> QED BY <1>1, <1>5, <1>6, <1>7, <1>9, <1>10, <1>11 DEF c

\* The parser has all of a message, and what follows it stays in the queue.
LEMMA MessageTaken ==
    ASSUME SessionInv, NEW b, Faithful(b), recv # <<>>, tasks # <<>>, Head(tasks).kind = "handle",
           NEW p \in Nat, p = Consumed(b), b[1] = p \/ (b[1] >= p + 3 /\ b[1] < p + 5),
           NEW m \in 1..Messages, At(stream, p + 1, m), p + 5 =< b[2],
           recv' = PushRemaining(SubSeq(stream, (p + 5) + 1, b[2]), Tail(recv)),
           wait' = "need_more", parsed' = <<>>,
           tasks' = (IF Handled(recv') THEN Tail(tasks) ELSE tasks) \o <<Task("input", m)>>,
           UNCHANGED <<stream, arrived, agent, cuts>>
    PROVE  \E c : Faithful(c)'
<1> USE DEF Faithful
<1> DEFINE q == b[2]
           e == p + 5
           rest == SubSeq(stream, e + 1, q)
<1>1. q \in Nat /\ q =< Len(stream) /\ stream \in Seq(Chars) /\ 2 \in DOMAIN b /\ b[1] \in Nat /\ b[1] < e
  BY FirstBuffer, FramedIs
<1>2. e \in Nat /\ e =< q OBVIOUS
<1>3. rest \in Seq(Chars) /\ Len(rest) = q - e
  <2> HIDE DEF e, q
  <2> QED BY <1>1, <1>2, SliceIs
<1>4. Messages \in Nat /\ WellFormed(stream, Messages) BY SessionAssumption DEF SessionInv, SessionAssumption
<1>5. stream[e].part = "body" /\ e # 0
  <2>1. e = (p + 1) + 4 /\ e # 0 OBVIOUS
  <2> HIDE DEF e
  <2>2. stream[e] = Char(m, "body") BY <2>1 DEF At
  <2> QED BY <2>1, <2>2 DEF Char
<1>6. recv' = PushRemaining(rest, Tail(recv)) OBVIOUS
<1> HIDE DEF rest
<1>7. \E c : /\ Framed(c)' /\ c[1] = e /\ 1 \in DOMAIN c
             /\ \A i \in DOMAIN c : c[i] = e \/ \E j \in DOMAIN b : c[i] = b[j]
             /\ \A j \in DOMAIN b : j = 1 \/ \E i \in DOMAIN c : c[i] = b[j]
  <2>1. CASE q = e
    <3>1. rest = <<>> BY <1>1, <1>3, <2>1
    <3>2. recv' = Tail(recv) BY <1>6, <3>1 DEF PushRemaining
    <3> DEFINE c == Tail(b)
    <3>3. /\ Framed(c)' /\ c[1] = q
          /\ \A i \in DOMAIN c : i + 1 \in DOMAIN b /\ c[i] = b[i + 1]
          /\ \A i \in DOMAIN b : i # 1 => i - 1 \in DOMAIN c /\ c[i - 1] = b[i]
      BY <3>2, BufferTaken
    <3> HIDE DEF c
    <3>4. 1 \in DOMAIN c
      <4>1. 2 \in DOMAIN b /\ 2 # 1 /\ 2 - 1 = 1 BY <1>1
      <4> QED BY <3>3, <4>1
    <3> QED BY SMTT(30), <2>1, <3>3, <3>4
  <2>2. CASE q # e
    <3>1. rest # <<>> BY SMTT(30), <1>1, <1>2, <1>3, <2>2
    <3>2. recv' = <<SubSeq(stream, e + 1, b[2])>> \o Tail(recv) BY <1>6, <3>1 DEF PushRemaining, rest
    <3>3. e < b[2] BY <1>1, <1>2, <2>2
    <3> HIDE DEF e
    <3> DEFINE c == [b EXCEPT ![1] = e]
    <3>4. Framed(c)' /\ DOMAIN c = DOMAIN b /\ c[1] = e /\ \A i \in DOMAIN b : i # 1 => c[i] = b[i]
      BY <1>1, <1>2, <3>2, <3>3, BufferShortened
    <3>5. 1 \in DOMAIN b BY FramedIs
    <3> HIDE DEF c
    <3> QED BY <3>4, <3>5
  <2> QED BY <2>1, <2>2
<1>8. PICK c : /\ Framed(c)' /\ c[1] = e /\ 1 \in DOMAIN c
               /\ \A i \in DOMAIN c : c[i] = e \/ \E j \in DOMAIN b : c[i] = b[j]
               /\ \A j \in DOMAIN b : j = 1 \/ \E i \in DOMAIN c : c[i] = b[j]
  BY <1>7
<1>9. Consumed(c)' = e
  <2>1. Consumed(c)' = c[1] - Len(parsed') /\ Len(parsed') = 0 BY DEF Consumed
  <2> QED BY <1>2, <1>8, <2>1
<1>10. Parsing(c)' BY <1>5, <1>8 DEF Parsing, AtBoundary
<1>11. CutsAre(c)'
  <2>1. ASSUME NEW i \in DOMAIN c, c[i] # 0, stream[c[i]].part \in {"method", "version"}
        PROVE  stream[c[i]].msg \in cuts
    <3>1. c[i] # e BY <1>5, <2>1
    <3> QED BY <1>8, <2>1, <3>1 DEF CutsAre
  <2>2. ASSUME NEW l \in cuts
        PROVE  l \in 1..Messages /\ \E s \in Nat :
                  At(stream, s, l) /\ (s =< e \/ \E i \in DOMAIN c : c[i] \in {s, s + 1})
    <3>1. PICK s \in Nat : At(stream, s, l) /\ (s =< p \/ \E i \in DOMAIN b : b[i] \in {s, s + 1})
      BY DEF CutsAre
    <3>2. ASSUME NEW i \in DOMAIN b, b[i] \in {s, s + 1}
          PROVE  s =< e \/ \E j \in DOMAIN c : c[j] \in {s, s + 1}
      <4>1. CASE i # 1 BY <1>8, <3>2, <4>1
      <4>2. CASE i = 1 BY SMTT(30), <1>1, <1>2, <3>2, <4>2
      <4> QED BY <4>1, <4>2
    <3>3. s =< p => s =< e OBVIOUS
    <3>4. l \in 1..Messages BY DEF CutsAre
    <3> HIDE DEF e
    <3> QED BY <3>1, <3>2, <3>3, <3>4
  <2> QED BY <1>9, <2>1, <2>2 DEF CutsAre
<1>12. m \notin cuts
  <2>1. \A i \in DOMAIN b : b[i] =< p \/ b[i] >= p + 3
    <3>1. \A i \in DOMAIN b : i = 1 \/ i = 2 \/ b[2] < b[i]
      <4>1. \A i \in DOMAIN b : i = 1 \/ i = 2 \/ 2 < i BY FrameIs, ThirdOn
      <4>2. \A i \in DOMAIN b : 2 < i => b[2] < b[i] BY <1>1 DEF Framed
      <4> QED BY <4>1, <4>2
    <3>2. \A i \in DOMAIN b : b[i] \in Nat BY FramedIs
    <3>3. b[1] =< p \/ b[1] >= p + 3 OBVIOUS
    <3>4. b[2] >= p + 3 BY <1>1
    <3>5. \A i \in DOMAIN b : b[2] < b[i] => b[i] >= p + 3 BY SMTT(30), <1>1, <3>2, <3>4
    <3> QED BY <3>1, <3>3, <3>4, <3>5
  <2> QED BY <2>1, TakenIsUncut
<1> DEFINE t == IF Handled(recv') THEN Tail(tasks) ELSE tasks
<1>13. /\ OrderedBy(agent, t) /\ \A l : DeliveredBy(agent, t, l) <=> Delivered(l)
       /\ recv' # <<>> => \E j \in DOMAIN t : t[j].kind = "handle"
  BY TaskStep
<1>14. t \in Seq(Tasks)
  <2> HIDE DEF t
  <2> QED BY <1>13 DEF OrderedBy
<1>15. tasks' = Append(t, Task("input", m))
  <2>1. tasks' = t \o <<Task("input", m)>> OBVIOUS
  <2>2. Task("input", m) \in Tasks
    <3>1. m \in Nat BY <1>4
    <3> QED BY <3>1, InputTask
  <2> HIDE DEF t
  <2> QED BY <1>14, <2>1, <2>2, AppendIsConcat
<1> HIDE DEF t
<1>16. \A l \in Nat : DeliveredBy(agent, t, l) => l < m
  <2> SUFFICES ASSUME NEW l \in Nat, Delivered(l) PROVE l < m BY <1>13
  <2>1. PICK s \in Nat : At(stream, s, l) /\ s + 4 =< p BY DEF Exact
  <2>2. s \in DOMAIN stream /\ p + 1 \in DOMAIN stream BY AtIn, <1>1, <2>1
  <2>3. s < p + 1 BY <2>1
  <2>4. m \in Nat BY <1>4
  <2> QED BY <1>4, <2>1, <2>2, <2>3, <2>4 DEF WellFormed, Ordered
<1>17. /\ OrderedBy(agent, tasks')
       /\ \A l : DeliveredBy(agent, tasks', l) <=> Delivered(l) \/ l = m
  <2>1. m \in Nat BY <1>4
  <2>2. /\ OrderedBy(agent, Append(t, Task("input", m)))
        /\ \A l : DeliveredBy(agent, Append(t, Task("input", m)), l)
                     <=> DeliveredBy(agent, t, l) \/ ("input" = "input" /\ l = m)
    BY <1>13, <1>16, <2>1, TaskQueued
  <2> QED BY <1>13, <1>15, <2>2
<1>18. InOrder' /\ \A l : Delivered(l)' <=> Delivered(l) \/ l = m BY <1>17 DEF InOrder, Delivered
<1>19. Pending'
  <2> SUFFICES ASSUME recv' # <<>> PROVE \E j \in DOMAIN tasks' : tasks'[j].kind = "handle" BY DEF Pending
  <2>1. PICK j \in DOMAIN t : t[j].kind = "handle" BY <1>13
  <2> DEFINE x == Task("input", m)
  <2> HIDE DEF x
  <2>3. j \in DOMAIN Append(t, x) /\ Append(t, x)[j] = t[j] BY SMTT(30), <1>14, <2>1
  <2>2. j \in DOMAIN tasks' /\ tasks'[j] = t[j] BY <1>15, <2>3 DEF x
  <2> QED BY <2>1, <2>2
<1>20. Exact(e)'
  <2> SUFFICES ASSUME NEW l, Delivered(l)'
               PROVE  l \in 1..Messages /\ l \notin cuts /\ \E s \in Nat : At(stream, s, l) /\ s + 4 =< e
    BY DEF Exact
  <2>1. CASE Delivered(l)
    <3>1. l \in 1..Messages /\ l \notin cuts BY <2>1 DEF Exact
    <3>2. PICK s \in Nat : At(stream, s, l) /\ s + 4 =< p BY <2>1 DEF Exact
    <3>3. s + 4 =< e BY <3>2
    <3> QED BY <3>1, <3>2, <3>3
  <2>2. CASE l = m
    <3>1. (p + 1) + 4 =< e /\ p + 1 \in Nat OBVIOUS
    <3> QED BY <1>12, <2>2, <3>1
  <2> QED BY <1>18, <2>1, <2>2
<1>21. Complete(e)'
  <2> SUFFICES ASSUME NEW l \in 1..Messages, NEW s \in Nat, At(stream, s, l), s + 4 =< e, l \notin cuts
               PROVE  Delivered(l) \/ l = m
    BY <1>18 DEF Complete
  <2>1. CASE s + 4 =< p BY <2>1 DEF Complete
  <2>2. CASE s + 4 > p
    <3>1. s + 4 =< p + 5 OBVIOUS
    <3>2. s =< p + 1 /\ p + 1 =< s + 4 BY SMTT(30), <2>2, <3>1
    <3>3. l = m BY <3>2, OneAfterOther
    <3> QED BY <3>3
  <2> QED BY <2>1, <2>2
<1> QED BY <1>8, <1>9, <1>10, <1>11, <1>18, <1>19, <1>20, <1>21

\* What handle_recv() does with a buffer that goes on from where the parser is.
LEMMA InputKeeps ==
    ASSUME SessionInv, NEW b, Faithful(b), recv # <<>>, tasks # <<>>, Head(tasks).kind = "handle",
           NEW p \in Nat, p = Consumed(b), b[1] = p \/ (b[1] >= p + 3 /\ b[1] < p + 5),
           NEW m \in 1..Messages, At(stream, p + 1, m), p + 3 =< b[2],
           NEW buffer, parsed \o buffer = SubSeq(stream, p + 1, b[2]), Input(buffer),
           UNCHANGED <<stream, arrived, agent, cuts>>
    PROVE  \E c : Faithful(c)'
<1> DEFINE q == b[2]
           text == parsed \o buffer
<1>1. PICK result \in ParserInput(text) :
          /\ wait' = IF result.ret = "more" THEN "message" ELSE "need_more"
          /\ parsed' = IF result.ret = "more" THEN text ELSE <<>>
          /\ recv' = PushRemaining(result.rest, Tail(recv))
          /\ tasks' = (IF Handled(recv') THEN Tail(tasks) ELSE tasks)
                        \o (IF result.ret = "done" THEN <<Task("input", result.msg)>> ELSE <<>>)
  BY DEF Input
<1>2. q \in Nat /\ q =< Len(stream) BY FirstBuffer, FramedIs DEF Faithful
<1>3. text = SubSeq(stream, p + 1, q) OBVIOUS
<1>4. m \in Nat /\ WellFormed(stream, Messages) BY SessionAssumption DEF SessionInv, SessionAssumption
<1>5. p + 3 =< q OBVIOUS
<1> HIDE DEF q, text
<1>6. result \in ParserInput(SubSeq(stream, p + 1, q)) BY <1>1, <1>3
<1>7. \/ q < p + 5 /\ result.ret = "more" /\ result.rest = <<>>
      \/ /\ q >= p + 5 /\ result.ret = "done" /\ result.msg = m
         /\ result.rest = SubSeq(stream, (p + 5) + 1, q)
  <2>1. At(stream, p + 1, m) OBVIOUS
  <2> QED BY SMTT(30), <1>2, <1>4, <1>5, <1>6, <2>1, ParserIs
<1>8. CASE q < p + 5 /\ result.ret = "more" /\ result.rest = <<>>
  <2>1. recv' = Tail(recv) BY <1>1, <1>8 DEF PushRemaining
  <2>2. GoesOn
    <3> DEFINE t == IF Handled(recv') THEN Tail(tasks) ELSE tasks
    <3>1. tasks' = t \o <<>> BY <1>1, <1>8
    <3>2. OrderedBy(agent, t) BY TaskStep DEF Faithful
    <3> HIDE DEF t
    <3>3. t \o <<>> = t BY <3>2, ConcatEmptySeq DEF OrderedBy
    <3> QED BY <3>1, <3>3 DEF GoesOn, t
  <2>3. wait' = "message" /\ parsed' = SubSeq(stream, p + 1, b[2]) BY <1>1, <1>3, <1>8 DEF q
  <2>4. b[2] < p + 5 BY <1>8 DEF q
  <2>5. Faithful(Tail(b))' BY <2>1, <2>2, <2>3, <2>4, MoreTaken
  <2> QED BY <2>5
<1>9. CASE /\ q >= p + 5 /\ result.ret = "done" /\ result.msg = m
           /\ result.rest = SubSeq(stream, (p + 5) + 1, q)
  <2>1. wait' = "need_more" /\ parsed' = <<>> BY <1>1, <1>9
  <2>2. recv' = PushRemaining(SubSeq(stream, (p + 5) + 1, b[2]), Tail(recv)) BY <1>1, <1>9 DEF q
  <2>3. tasks' = (IF Handled(recv') THEN Tail(tasks) ELSE tasks) \o <<Task("input", m)>> BY <1>1, <1>9
  <2>4. p + 5 =< b[2] BY <1>2, <1>9 DEF q
  <2> QED BY <2>1, <2>2, <2>3, <2>4, MessageTaken
<1> QED BY <1>7, <1>8, <1>9

\* A buffer is copied past its end only behind a cut or a blank line.
LEMMA OverreadHasCause ==
    ASSUME SessionInv, NEW b, Faithful(b), recv # <<>>, wait = "need_more", Found(Head(recv)) > 1
    PROVE  cuts # {} \/ Char(0, "blank") \in Received
<1> SUFFICES ASSUME cuts = {}, Char(0, "blank") \notin Received PROVE FALSE OBVIOUS
<1> DEFINE data == Head(recv)
           p == b[1]
           q == b[2]
<1>1. p \in Nat /\ q \in Nat /\ p < q /\ q =< arrived /\ q =< Len(stream) /\ 2 \in DOMAIN b
  BY FirstBuffer, FramedIs DEF Faithful
<1>2. data \in Seq(Chars) /\ Len(data) = q - p /\ \A i \in 1..(q - p) : data[i] = stream[p + i]
  BY FirstBuffer DEF Faithful
<1>3. Messages \in Nat /\ WellFormed(stream, Messages) /\ arrived \in 0..Len(stream)
  BY SessionAssumption DEF SessionInv, SessionAssumption
<1>4. stream[p + 1].part # "blank"
  <2> SUFFICES ASSUME stream[p + 1].part = "blank" PROVE FALSE OBVIOUS
  <2> HIDE DEF p, q
  <2>1. p + 1 \in DOMAIN stream /\ p + 1 \in 1..arrived BY <1>1, <1>3 DEF WellFormed
  <2>2. Covered(stream, Messages, p + 1) BY <1>3, <2>1 DEF WellFormed
  <2>3. ASSUME NEW m \in 1..Messages, NEW k \in 0..4, At(stream, (p + 1) - k, m) PROVE FALSE
    <3>1. p + 1 = ((p + 1) - k) + k BY <1>1
    <3>2. PartIs(stream[p + 1], m, k) BY <2>3, <3>1, PartAt
    <3> QED BY <3>2 DEF PartIs
  <2>4. stream[p + 1] = Char(0, "blank") BY <2>2, <2>3 DEF Covered, Blank
  <2> QED BY <2>1, <2>4 DEF Received
<1>5. p = 0 \/ stream[p].part \in {"body", "blank"} BY DEF Faithful, Parsing, AtBoundary
<1>6. PICK m \in 1..Messages : At(stream, p + 1, m)
  <2>1. p < Len(stream) BY <1>1
  <2> HIDE DEF p
  <2> QED BY <1>1, <1>3, <1>4, <1>5, <2>1, StartAfter
<1>7. q # 0 /\ stream[q].part \notin {"method", "version"}
  <2>1. q # 0 BY <1>1
  <2>2. stream[q].part \in {"method", "version"} => stream[q].msg \in cuts
    BY <1>1, <2>1 DEF Faithful, CutsAre
  <2> QED BY <2>1, <2>2
<1> HIDE DEF p, q, data
<1>8. q # p + 1 /\ q # p + 2
  <2>1. (p + 1) + 1 = p + 2 BY <1>1
  <2> QED BY SMTT(30), <1>6, <1>7, <2>1 DEF At, Char
<1>9. q >= p + 3 BY <1>1, <1>8
<1>10. data[1] = stream[p + 1] /\ data[2] = stream[(p + 1) + 1] /\ data[3] = stream[(p + 1) + 2]
       /\ 3 =< Len(data)
  <2>1. 1 \in 1..(q - p) /\ 2 \in 1..(q - p) /\ 3 \in 1..(q - p) BY <1>1, <1>9
  <2>2. p + 2 = (p + 1) + 1 /\ p + 3 = (p + 1) + 2 BY <1>1
  <2> QED BY <1>1, <1>2, <1>9, <2>1, <2>2
<1>11. HasStart(data, 1) BY SMTT(30), <1>6, <1>10 DEF HasStart, At, Char
<1>12. Found(data) = 1 BY <1>2, <1>11, FoundAtOnce
<1> QED BY <1>12 DEF data

\* handle_recv(), when it looks for a start line.
LEMMA SearchKeeps ==
    ASSUME SessionInv, NEW b, Faithful(b), Search, ~overread
    PROVE  overread' \/ \E c : Faithful(c)'
<1> USE DEF Search
<1>1. recv # <<>> /\ wait = "need_more" /\ tasks # <<>> /\ Head(tasks).kind = "handle" BY DEF IsNext
<1>2. kept = <<>> BY DEF SessionInv
<1> DEFINE data == Head(recv)
<1>3. data \in Seq(Chars) /\ Len(data) = b[2] - b[1] /\ data = SubSeq(stream, b[1] + 1, b[2])
      /\ \A i \in 1..(b[2] - b[1]) : data[i] = stream[b[1] + i]
  BY <1>1, FirstBuffer DEF Faithful
<1>4. b[1] \in Nat /\ b[2] \in Nat /\ b[1] < b[2] /\ b[2] =< Len(stream)
  BY <1>1, FirstBuffer, FramedIs DEF Faithful
<1> HIDE DEF data
<1>5. kept \o data = data BY <1>2, <1>3, ConcatEmptySeq
<1>6. UNCHANGED <<stream, arrived, open, agent, cuts>> OBVIOUS
<1>7. IF Found(data) = 0
      THEN /\ recv' = Tail(recv)
           /\ tasks' = IF Handled(recv') THEN Tail(tasks) ELSE tasks
           /\ UNCHANGED <<wait, parsed, overread>>
      ELSE /\ Input(GetBuffer(data, Found(data)))
           /\ overread' = (overread \/ (kept = <<>> /\ Found(data) > 1))
  <2>1. \E d \in {kept \o Head(recv)} : \E from \in {Found(d)} :
           IF from = 0
           THEN /\ recv' = Tail(recv)
                /\ tasks' = IF Handled(recv') THEN Tail(tasks) ELSE tasks
                /\ UNCHANGED <<wait, parsed, overread>>
           ELSE /\ Input(GetBuffer(d, from))
                /\ overread' = (overread \/ (kept = <<>> /\ from > 1))
    OBVIOUS
  <2> HIDE DEF Search
  <2> QED BY <1>5, <2>1 DEF data
<1> HIDE DEF Search
<1>8. Found(data) \in Nat BY <1>3, FoundIs
<1>9. CASE Found(data) = 0
  <2>1. Found(Head(recv)) = 0 BY <1>9 DEF data
  <2>2. GoesOn BY <1>7, <1>9 DEF GoesOn
  <2>3. Faithful(Tail(b))' BY <1>1, <1>6, <1>7, <1>9, <2>1, <2>2, PassedOver
  <2> QED BY <2>3
<1>10. CASE Found(data) > 1
  <2>1. Found(data) # 0 BY <1>8, <1>10
  <2>2. overread' = (overread \/ (kept = <<>> /\ Found(data) > 1)) BY <1>7, <2>1
  <2> QED BY <1>2, <1>10, <2>2
<1>11. CASE Found(data) = 1
  <2> DEFINE p == b[1]
  <2>1. Len(data) > 2 /\ data[1].part = "method" /\ data[2].part = "version" BY <1>3, <1>11, FoundFirst
  <2>2. p + 3 =< b[2] BY SMTT(30), <1>3, <1>4, <2>1
  <2>3. parsed = <<>> BY <1>1 DEF Faithful, Parsing
  <2>4. p = Consumed(b)
    <3>1. Len(parsed) = 0 BY <2>3
    <3> QED BY <1>4, <3>1 DEF Consumed
  <2>5. GetBuffer(data, 1) = data
    <3>1. SubSeq(data, 1, Len(data)) = data BY <1>3, SubSeqFull
    <3> DEFINE x == [i \in 1..(1 - 1) |-> Junk]
    <3>2. x \in Seq(Chars) /\ Len(x) = 0 OBVIOUS
    <3>3. x = <<>> BY <3>2
    <3>4. GetBuffer(data, 1) = SubSeq(data, 1, Len(data)) \o x BY <1>2 DEF GetBuffer
    <3> HIDE DEF x
    <3> QED BY <1>3, <3>1, <3>3, <3>4, ConcatEmptySeq
  <2>6. Input(data) BY <1>7, <1>11, <2>5
  <2>7. parsed \o data = SubSeq(stream, p + 1, b[2]) BY <1>3, <2>3, ConcatEmptySeq
  <2>8. PICK m \in 1..Messages : At(stream, p + 1, m)
    <3>0. Messages \in Nat /\ WellFormed(stream, Messages)
      BY SessionAssumption DEF SessionInv, SessionAssumption
    <3>1. data[1] = stream[p + 1]
      <4>1. 1 \in 1..(b[2] - b[1]) BY <1>4
      <4> QED BY <1>3, <4>1
    <3>2. p + 1 \in DOMAIN stream BY <1>4, <3>0 DEF WellFormed
    <3> HIDE DEF p
    <3>3. stream[p + 1].part = "method" BY <2>1, <3>1
    <3>4. PICK m \in 1..Messages, k \in 0..4 : At(stream, (p + 1) - k, m) /\ PartIs(stream[p + 1], m, k)
      BY <3>0, <3>2, <3>3, CoveredAt
    <3>5. k = 0 BY <3>3, <3>4 DEF PartIs
    <3>6. (p + 1) - 0 = p + 1 BY <1>4 DEF p
    <3> QED BY <3>4, <3>5, <3>6
  <2>9. p \in Nat /\ b[1] = p BY <1>4
  <2> HIDE DEF p
  <2>10. \E c : Faithful(c)'
    BY <1>1, <1>6, <2>2, <2>4, <2>6, <2>7, <2>8, <2>9, InputKeeps
  <2> QED BY <2>10
<1> QED BY <1>8, <1>9, <1>10, <1>11

\* handle_recv(), when the parser waits for the rest of a message.
LEMMA ParseKeeps ==
    ASSUME SessionInv, NEW b, Faithful(b), Parse
    PROVE  \E c : Faithful(c)'
<1>1. recv # <<>> /\ wait = "message" /\ tasks # <<>> /\ Head(tasks).kind = "handle" BY DEF Parse, IsNext
<1>2. Input(Head(recv)) /\ UNCHANGED <<stream, arrived, agent, cuts>> BY DEF Parse
<1> DEFINE p == Consumed(b)
<1>3. PICK m \in 1..Messages : At(stream, p + 1, m) BY <1>1 DEF Faithful, Parsing
<1>4. Len(parsed) \in 3..4 /\ Len(parsed) =< b[1] /\ parsed = SubSeq(stream, p + 1, b[1])
  BY <1>1 DEF Faithful, Parsing
<1>5. b[1] \in Nat /\ b[2] \in Nat /\ b[1] < b[2] /\ b[2] =< Len(stream) /\ stream \in Seq(Chars)
      /\ Head(recv) = SubSeq(stream, b[1] + 1, b[2])
  BY <1>1, FirstBuffer, FramedIs DEF Faithful
<1>6. p \in Nat /\ b[1] >= p + 3 /\ b[1] < p + 5
  <2>1. p = b[1] - Len(parsed) BY DEF Consumed
  <2> HIDE DEF p
  <2>2. ASSUME NEW d \in 3..4, d =< b[1], p = b[1] - d
        PROVE  p \in Nat /\ b[1] >= p + 3 /\ b[1] < p + 5
    BY <1>5, <2>2, PartHeld
  <2> QED BY <1>4, <2>1, <2>2
<1> HIDE DEF p
<1>7. parsed \o Head(recv) = SubSeq(stream, p + 1, b[2])
  <2>1. SubSeq(stream, p + 1, b[1]) \o SubSeq(stream, b[1] + 1, b[2]) = SubSeq(stream, p + 1, b[2])
    <3>1. \A i \in p + 1 .. b[2] : stream[i] \in Chars BY <1>5, <1>6, ElementOfSeq
    <3>2. p + 1 \in 1..(Len(stream) + 1) /\ b[1] \in ((p + 1) - 1)..Len(stream)
          /\ b[2] \in b[1]..Len(stream)
      BY SMTT(30), <1>5, <1>6
    <3> QED BY <1>5, <3>2, ConcatAdjacentSubSeq
  <2> QED BY <1>4, <1>5, <2>1
<1>8. p + 3 =< b[2] BY <1>5, <1>6
<1>9. p = Consumed(b) BY DEF p
<1> QED BY <1>1, <1>2, <1>3, <1>6, <1>7, <1>8, <1>9, InputKeeps

-----------------------------------------------------------------------------
\* What the other steps do.

\* A buffer has come.
LEMMA BufferAdded ==
    ASSUME SessionInv, NEW b, Framed(b), NEW to \in (arrived + 1)..Len(stream),
           recv' = Append(recv, SubSeq(stream, arrived + 1, to)), arrived' = to, stream' = stream
    PROVE  /\ Framed(Append(b, to))'
           /\ \A i \in DOMAIN b : i \in DOMAIN Append(b, to) /\ Append(b, to)[i] = b[i]
           /\ Len(b) + 1 \in DOMAIN Append(b, to) /\ Append(b, to)[Len(b) + 1] = to
           /\ \A i \in DOMAIN Append(b, to) : i \in DOMAIN b \/ i = Len(b) + 1
<1> DEFINE c == Append(b, to)
           x == SubSeq(stream, arrived + 1, to)
           r == Append(recv, x)
<1>0. stream \in Seq(Chars) /\ arrived \in Nat /\ to \in Nat /\ arrived < to /\ to =< Len(stream)
  BY DEF SessionInv, WellFormed
<1>1. x \in Seq(Chars) BY <1>0, SliceIs
<1>2. b \in Seq(Nat) /\ recv \in Seq(Seq(Chars)) /\ Len(b) = Len(recv) + 1 BY DEF Framed
<1>3. Len(recv) \in Nat /\ Len(b) \in Nat /\ DOMAIN b = 1..Len(b) /\ DOMAIN recv = 1..Len(recv)
  BY <1>2, LenProperties
<1>4. c \in Seq(Nat) /\ Len(c) = Len(b) + 1 /\ DOMAIN c = 1..(Len(b) + 1)
      /\ c[Len(b) + 1] = to /\ \A i \in DOMAIN b : c[i] = b[i]
  BY <1>0, <1>2
<1> HIDE DEF x
<1>5. r \in Seq(Seq(Chars)) /\ Len(r) = Len(recv) + 1 /\ DOMAIN r = 1..(Len(recv) + 1)
      /\ r[Len(recv) + 1] = x /\ \A i \in DOMAIN recv : r[i] = recv[i]
  BY SMTT(30), <1>1, <1>2
<1>6. recv' = r BY DEF r, x
<1> HIDE DEF c, r
<1>7. \A i \in DOMAIN b : i \in DOMAIN c /\ i # Len(b) + 1 /\ i \in Nat BY SMTT(30), <1>3, <1>4
<1>8. \A i \in DOMAIN c : i \in DOMAIN b \/ i = Len(b) + 1 BY <1>3, <1>4
<1>9. ASSUME NEW i \in DOMAIN c, NEW j \in DOMAIN c, i < j PROVE c[i] < c[j]
  <2>1. i \in DOMAIN b BY <1>3, <1>4, <1>9
  <2>2. CASE j \in DOMAIN b BY <1>4, <1>9, <2>1, <2>2 DEF Framed
  <2>3. CASE j = Len(b) + 1
    <3>1. b[i] \in Nat /\ b[i] =< arrived BY <2>1, FramedIs
    <3> QED BY <1>0, <1>4, <2>1, <2>3, <3>1
  <2> QED BY <1>8, <2>2, <2>3
<1>10. ASSUME NEW i \in DOMAIN r PROVE r[i] = SubSeq(stream, c[i] + 1, c[i + 1])
  <2>1. CASE i \in DOMAIN recv
    <3>1. i \in DOMAIN b /\ i + 1 \in DOMAIN b BY SMTT(30), <1>2, <1>3, <2>1
    <3>2. c[i] = b[i] /\ c[i + 1] = b[i + 1] /\ r[i] = recv[i] BY <1>4, <1>5, <2>1, <3>1
    <3> QED BY <2>1, <3>2 DEF Framed
  <2>2. CASE i = Len(b)
    <3>1. i \in DOMAIN b /\ b[i] = arrived BY <1>2, <1>3, <2>2 DEF Framed
    <3>2. c[i] = arrived /\ c[i + 1] = to /\ r[i] = x BY <1>2, <1>4, <1>5, <2>2, <3>1
    <3> QED BY <3>2 DEF x
  <2> QED BY SMTT(30), <1>2, <1>3, <1>5, <2>1, <2>2
<1>11. c[Len(c)] = arrived' /\ Len(c) = Len(r) + 1 BY <1>2, <1>4, <1>5
<1>12. Framed(c)' BY <1>4, <1>5, <1>6, <1>9, <1>10, <1>11 DEF Framed
<1>13. Len(b) + 1 \in DOMAIN c BY <1>3, <1>4
<1> QED BY <1>4, <1>7, <1>8, <1>12, <1>13 DEF c

\* A cut that a buffer makes is in what has not been handled yet.
LEMMA CutByBuffer ==
    ASSUME SessionInv, NEW to \in (arrived + 1)..Len(stream), NEW m,
           m \in {c.msg : c \in {x \in {stream[to]} : x.part \in {"method", "version"}}}
    PROVE  m \in 1..Messages /\ \E s \in Nat : At(stream, s, m) /\ to \in {s, s + 1}
<1>1. stream[to].part \in {"method", "version"} /\ m = stream[to].msg OBVIOUS
<1>2. Messages \in Nat /\ WellFormed(stream, Messages) BY SessionAssumption DEF SessionInv, SessionAssumption
<1>3. to \in DOMAIN stream /\ to \in Nat
  <2>1. stream \in Seq(Chars) /\ arrived \in Nat BY DEF SessionInv, WellFormed
  <2> QED BY <2>1
<1>4. PICK l \in 1..Messages, k \in 0..4 :
          At(stream, to - k, l) /\ to - k \in Nat /\ PartIs(stream[to], l, k)
  BY <1>1, <1>2, <1>3, CoveredAt
<1>5. m = l /\ k \in {0, 1} BY <1>1, <1>4 DEF PartIs
<1>6. to \in {to - k, (to - k) + 1} BY <1>3, <1>5
<1> QED BY <1>4, <1>5, <1>6

\* onRecv() queues a buffer and a task.
LEMMA RecvKeeps ==
    ASSUME SessionInv, NEW b, Faithful(b), OnRecv
    PROVE  \E c : Faithful(c)'
<1> USE DEF Faithful
<1>1. PICK to \in (arrived + 1)..Len(stream) :
          /\ recv' = Append(recv, SubSeq(stream, arrived + 1, to))
          /\ arrived' = to
          /\ cuts' = cuts \cup {c.msg : c \in {x \in {stream[to]} : x.part \in {"method", "version"}}}
  BY DEF OnRecv
<1>2. tasks' = Append(tasks, Task("handle", 0)) /\ UNCHANGED <<stream, wait, parsed, agent>>
  BY DEF OnRecv, framing
<1>p. PICK p : p = Consumed(b) OBVIOUS
<1> DEFINE c == Append(b, to)
<1>3. /\ Framed(c)'
      /\ \A i \in DOMAIN b : i \in DOMAIN c /\ c[i] = b[i]
      /\ Len(b) + 1 \in DOMAIN c /\ c[Len(b) + 1] = to
      /\ \A i \in DOMAIN c : i \in DOMAIN b \/ i = Len(b) + 1
  BY <1>1, <1>2, BufferAdded
<1> HIDE DEF c
<1>4. 1 \in DOMAIN b /\ b[1] \in Nat /\ b[1] =< arrived BY FramedIs
<1>5. c[1] = b[1] BY <1>3, <1>4
<1>6. Consumed(c)' = p BY <1>2, <1>5, <1>p DEF Consumed
<1>7. arrived \in Nat /\ to \in Nat /\ arrived < to /\ to =< Len(stream) BY DEF SessionInv, WellFormed
<1>8. p =< b[1] /\ p \in Int
  <2>1. Len(parsed) \in 0..4 BY DEF Parsing
  <2> QED BY <1>4, <1>p, <2>1 DEF Consumed
<1>9. cuts \subseteq cuts' BY <1>1
<1>10. ASSUME NEW m \in cuts', m \notin cuts
       PROVE  m \in 1..Messages /\ \E s \in Nat : At(stream, s, m) /\ to \in {s, s + 1}
  BY <1>1, <1>10, CutByBuffer
<1>11. Parsing(c)'
  <2>1. CASE wait = "need_more" /\ parsed = <<>> /\ AtBoundary(b[1])
    <3>1. AtBoundary(c[1])' BY <1>2, <1>5, <1>9, <2>1 DEF AtBoundary
    <3> QED BY <1>2, <2>1, <3>1 DEF Parsing
  <2>2. CASE /\ wait = "message" /\ Len(parsed) \in 3..4 /\ Len(parsed) =< b[1]
             /\ parsed = SubSeq(stream, p + 1, b[1])
             /\ \E m \in 1..Messages : At(stream, p + 1, m)
    BY <1>2, <1>5, <1>6, <2>2 DEF Parsing
  <2> QED BY <1>p, <2>1, <2>2 DEF Parsing
<1>12. CutsAre(c)'
  <2>1. ASSUME NEW i \in DOMAIN c, c[i] # 0, stream[c[i]].part \in {"method", "version"}
        PROVE  stream[c[i]].msg \in cuts'
    <3>1. CASE i \in DOMAIN b BY <1>3, <1>9, <2>1, <3>1 DEF CutsAre
    <3>2. CASE i = Len(b) + 1 BY <1>1, <1>3, <2>1, <3>2
    <3> QED BY <1>3, <3>1, <3>2
  <2>2. ASSUME NEW m \in cuts'
        PROVE  m \in 1..Messages /\ \E s \in Nat :
                  At(stream, s, m) /\ (s =< p \/ \E i \in DOMAIN c : c[i] \in {s, s + 1})
    <3>1. CASE m \in cuts
      <4>1. PICK s \in Nat : At(stream, s, m) /\ (s =< p \/ \E i \in DOMAIN b : b[i] \in {s, s + 1})
        BY <1>p, <3>1 DEF CutsAre
      <4>2. s =< p \/ \E i \in DOMAIN c : c[i] \in {s, s + 1} BY <1>3, <4>1
      <4>3. m \in 1..Messages BY <3>1 DEF CutsAre
      <4> QED BY <4>1, <4>2, <4>3
    <3>2. CASE m \notin cuts BY <1>3, <1>10, <3>2
    <3> QED BY <3>1, <3>2
  <2> QED BY <1>2, <1>6, <2>1, <2>2 DEF CutsAre
<1>13. /\ InOrder' /\ \A m : Delivered(m)' <=> Delivered(m)
  <2>1. OrderedBy(agent, tasks) BY DEF InOrder
  <2>2. "handle" \in {"handle", "input"} /\ 0 \in Nat OBVIOUS
  <2>3. /\ OrderedBy(agent, Append(tasks, Task("handle", 0)))
        /\ \A l : DeliveredBy(agent, Append(tasks, Task("handle", 0)), l) <=> DeliveredBy(agent, tasks, l)
    BY <2>1, <2>2, TaskQueued
  <2> QED BY <1>2, <2>3 DEF InOrder, Delivered
<1>14. Pending'
  <2>1. tasks \in Seq(Tasks) BY DEF InOrder, OrderedBy
  <2>2. Len(tasks) + 1 \in DOMAIN Append(tasks, Task("handle", 0))
        /\ Append(tasks, Task("handle", 0))[Len(tasks) + 1] = Task("handle", 0)
    <3>1. Task("handle", 0) \in Tasks BY DEF Task, Tasks
    <3> QED BY <2>1, <3>1
  <2> QED BY <1>2, <2>2 DEF Pending, Task
<1>15. Exact(p) /\ Complete(p) BY <1>p
<1>16. Exact(p)'
  <2> SUFFICES ASSUME NEW m, Delivered(m)
               PROVE  m \in 1..Messages /\ m \notin cuts' /\ \E s \in Nat : At(stream, s, m) /\ s + 4 =< p
    BY <1>2, <1>13 DEF Exact
  <2>1. m \in 1..Messages /\ m \notin cuts BY <1>15 DEF Exact
  <2>2. PICK s \in Nat : At(stream, s, m) /\ s + 4 =< p BY <1>15 DEF Exact
  <2>3. ASSUME m \in cuts' PROVE FALSE
    <3>1. PICK u \in Nat : At(stream, u, m) /\ to \in {u, u + 1} BY <1>10, <2>1, <2>3
    <3>2. Messages \in Nat /\ WellFormed(stream, Messages)
      BY SessionAssumption DEF SessionInv, SessionAssumption
    <3>3. m \in Nat BY <2>1, <3>2
    <3>4. u = s BY <2>2, <3>1, <3>2, <3>3, OnePlace
    <3>5. to =< s + 1 BY <3>1, <3>4
    <3> QED BY <1>4, <1>7, <1>8, <2>2, <3>5
  <2> QED BY <2>1, <2>2, <2>3
<1>17. Complete(p)' BY <1>2, <1>9, <1>13, <1>15 DEF Complete
<1> QED BY <1>3, <1>6, <1>11, <1>12, <1>13, <1>14, <1>16, <1>17 DEF c

\* A step that changes nothing but the tasks and what the agent has.
LEMMA TasksKeep ==
    ASSUME NEW b, Faithful(b), UNCHANGED <<stream, arrived, recv, wait, parsed, cuts>>,
           InOrder', Pending', \A m : Delivered(m)' <=> Delivered(m)
    PROVE  Faithful(b)'
<1> USE DEF Faithful
<1>1. Framed(b)' BY DEF Framed
<1>2. Consumed(b)' = Consumed(b) BY DEF Consumed
<1>3. Parsing(b)' BY <1>2 DEF Parsing, AtBoundary
<1>4. CutsAre(b)' BY <1>2 DEF CutsAre
<1>5. Exact(Consumed(b))' BY <1>2 DEF Exact
<1>6. Complete(Consumed(b))' BY <1>2 DEF Complete
<1> QED BY <1>1, <1>3, <1>4, <1>5, <1>6

\* A task that finds nothing to do.
LEMMA NothingKeeps ==
    ASSUME NEW b, Faithful(b), HandleNothing
    PROVE  Faithful(b)'
<1>1. tasks # <<>> /\ Head(tasks).kind = "handle" /\ recv = <<>> /\ tasks' = Tail(tasks)
      /\ UNCHANGED <<stream, arrived, recv, wait, parsed, agent, cuts>>
  BY DEF HandleNothing, IsNext, framing
<1>2. OrderedBy(agent, tasks) BY DEF Faithful, InOrder
<1>3. InOrder' /\ \A m : Delivered(m)' <=> Delivered(m) BY <1>1, <1>2, TaskDone DEF InOrder, Delivered
<1>4. Pending' BY <1>1 DEF Pending
<1> QED BY <1>1, <1>3, <1>4, TasksKeep

\* A task that gives a message to libsip.
LEMMA AgentInputKeeps ==
    ASSUME NEW b, Faithful(b), AgentInput
    PROVE  Faithful(b)'
<1>1. tasks # <<>> /\ Head(tasks).kind = "input" /\ tasks' = Tail(tasks)
      /\ agent' = Append(agent, Head(tasks).msg)
      /\ UNCHANGED <<stream, arrived, recv, wait, parsed, cuts>>
  BY DEF AgentInput, IsNext, framing
<1>2. OrderedBy(agent, tasks) BY DEF Faithful, InOrder
<1>3. InOrder' /\ \A m : Delivered(m)' <=> Delivered(m) BY <1>1, <1>2, TaskInput DEF InOrder, Delivered
<1>4. Pending'
  <2> SUFFICES ASSUME recv # <<>> PROVE \E j \in DOMAIN Tail(tasks) : Tail(tasks)[j].kind = "handle"
    BY <1>1 DEF Pending
  <2>1. PICK j \in DOMAIN tasks : tasks[j].kind = "handle" BY DEF Faithful, Pending
  <2>2. tasks \in Seq(Tasks) BY <1>2 DEF OrderedBy
  <2>3. j # 1 BY <1>1, <2>1, <2>2
  <2>4. j - 1 \in DOMAIN Tail(tasks) /\ Tail(tasks)[j - 1] = tasks[j]
    <3>1. j \in Nat /\ j - 1 \in 1..(Len(tasks) - 1) /\ (j - 1) + 1 = j BY <2>2, <2>3
    <3> QED BY <1>1, <2>2, <3>1
  <2> QED BY <2>1, <2>4
<1> QED BY <1>1, <1>3, <1>4, TasksKeep

\* What has been received, and which messages are cut, is not forgotten.
LEMMA CauseStays ==
    ASSUME SessionInv, cuts \subseteq cuts', arrived =< arrived', arrived' \in Nat, stream' = stream,
           cuts # {} \/ Char(0, "blank") \in Received
    PROVE  (cuts # {} \/ Char(0, "blank") \in Received)'
<1>1. arrived \in Nat BY DEF SessionInv, WellFormed
<1> QED BY <1>1 DEF Received

\* Every step of the session.
LEMMA SessionStepKeeps == SessionInv /\ [SessionNext]_sessionVars => SessionInv'
<1> SUFFICES ASSUME SessionInv, [SessionNext]_sessionVars PROVE SessionInv' OBVIOUS
<1>1. stream' = stream
  BY DEF SessionNext, Poller, Search, Parse, HandleNothing, AgentInput, OnRecv, Write, Silence, OnManager,
         OnError, Destroyed, sessionVars
<1>2. cuts \subseteq cuts' /\ arrived =< arrived' /\ arrived' \in 0..Len(stream)
  <2>0. arrived \in 0..Len(stream) /\ stream \in Seq(Chars) BY DEF SessionInv, WellFormed
  <2>1. CASE OnRecv BY <2>0, <2>1 DEF OnRecv
  <2>2. CASE ~OnRecv
    <3>1. UNCHANGED <<arrived, cuts>>
      BY <2>2 DEF SessionNext, Poller, Search, Parse, HandleNothing, AgentInput, Write, Silence, OnManager,
                  OnError, Destroyed, sessionVars
    <3> QED BY <2>0, <3>1
  <2> QED BY <2>1, <2>2
<1>3. WellFormed(stream, Messages)' /\ (arrived \in 0..Len(stream))' BY <1>1, <1>2 DEF SessionInv
<1>4. kept' = <<>>
  <2>0. kept = <<>> BY DEF SessionInv
  <2>1. CASE Search
    <3>1. \E data \in {kept \o Head(recv)} : kept' = Keep(data) \/ kept' = <<>> BY <2>1 DEF Search
    <3> QED BY <2>0, <3>1 DEF Keep
  <2>2. CASE ~Search
    BY <2>0, <2>2 DEF SessionNext, Poller, Parse, HandleNothing, AgentInput, OnRecv, Write, Silence,
                      OnManager, OnError, Destroyed, sessionVars, framing
  <2> QED BY <2>1, <2>2
<1>5. /\ overread' \in BOOLEAN
      /\ overread => overread'
      /\ overread' /\ ~overread => Search
  <2>0. overread \in BOOLEAN BY DEF SessionInv
  <2>1. CASE Search
    <3>1. overread' = overread \/ \E from : overread' = (overread \/ (kept = <<>> /\ from > 1))
      BY <2>1 DEF Search
    <3> QED BY <2>0, <2>1, <3>1
  <2>2. CASE ~Search
    <3>1. overread' = overread
      BY <2>2 DEF SessionNext, Poller, Parse, HandleNothing, AgentInput, OnRecv, Write, Silence,
                      OnManager, OnError, Destroyed, sessionVars, framing
    <3> QED BY <2>0, <3>1
  <2> QED BY <2>1, <2>2
<1>6. arrived' \in Nat
  <2>1. stream \in Seq(Chars) BY DEF SessionInv, WellFormed
  <2> QED BY <1>2, <2>1
<1>7. CASE overread
  <2>1. overread' BY <1>5, <1>7
  <2>2. OverreadIsCaused' BY <1>1, <1>2, <1>6, <1>7, CauseStays DEF SessionInv, OverreadIsCaused
  <2> QED BY <1>3, <1>4, <1>5, <2>1, <2>2 DEF SessionInv
<1>8. CASE ~overread /\ Gone
  <2>1. Gone' /\ ~Search
    BY <1>8 DEF Gone, SessionNext, Poller, Search, Parse, HandleNothing, AgentInput, OnRecv, Write, Silence,
                OnManager, OnError, Destroyed, sessionVars, IsNext
  <2>2. ~overread' BY <1>5, <1>8, <2>1
  <2> QED BY <1>3, <1>4, <1>5, <2>1, <2>2 DEF SessionInv, OverreadIsCaused
<1>9. ASSUME ~overread, NEW b, Faithful(b) PROVE SessionInv'
  <2>1. CASE Search
    <3>1. overread' \/ \E c : Faithful(c)' BY <1>9, <2>1, SearchKeeps
    <3>2. OverreadIsCaused'
      <4> SUFFICES ASSUME overread' PROVE (cuts # {} \/ Char(0, "blank") \in Received)'
        BY DEF OverreadIsCaused
      <4>1. recv # <<>> /\ wait = "need_more" BY <2>1 DEF Search
      <4>2. Found(Head(recv)) > 1
        <5>1. kept = <<>> BY DEF SessionInv
        <5>2. \E data \in {kept \o Head(recv)} : \E from \in {Found(data)} :
                 overread' = overread \/ overread' = (overread \/ (kept = <<>> /\ from > 1))
          BY <2>1 DEF Search
        <5>3. kept \o Head(recv) = Head(recv)
          <6>1. Head(recv) \in Seq(Chars) BY <1>9, <4>1, FirstBuffer DEF Faithful
          <6> QED BY <5>1, <6>1, ConcatEmptySeq
        <5> QED BY <1>9, <5>2, <5>3
      <4>3. cuts # {} \/ Char(0, "blank") \in Received BY <1>9, <4>1, <4>2, OverreadHasCause
      <4> QED BY <1>1, <1>2, <1>6, <4>3, CauseStays
    <3> QED BY <1>3, <1>4, <1>5, <3>1, <3>2 DEF SessionInv
  <2>2. CASE ~Search
    <3>1. ~overread' BY <1>5, <1>9, <2>2
    <3>2. OverreadIsCaused' BY <3>1 DEF OverreadIsCaused
    <3>3. Gone' \/ \E c : Faithful(c)'
      <4>1. CASE Parse BY <1>9, <4>1, ParseKeeps
      <4>2. CASE HandleNothing BY <1>9, <4>2, NothingKeeps
      <4>3. CASE AgentInput BY <1>9, <4>3, AgentInputKeeps
      <4>4. CASE OnRecv BY <1>9, <4>4, RecvKeeps
      <4>5. CASE Destroyed BY <4>5 DEF Destroyed, Gone
      <4>6. CASE Write \/ Silence \/ OnManager \/ OnError \/ UNCHANGED sessionVars
        <5>1. UNCHANGED <<stream, arrived, recv, wait, parsed, tasks, agent, cuts>>
          BY <4>6 DEF Write, Silence, OnManager, OnError, sessionVars, framing
        <5>2. InOrder' /\ Pending' /\ \A m : Delivered(m)' <=> Delivered(m)
          BY <1>9, <5>1 DEF Faithful, InOrder, Pending, Delivered
        <5> QED BY <1>9, <5>1, <5>2, TasksKeep
      <4> QED BY <2>2, <4>1, <4>2, <4>3, <4>4, <4>5, <4>6 DEF SessionNext, Poller
    <3> QED BY <1>3, <1>4, <1>5, <3>2, <3>3 DEF SessionInv
  <2> QED BY <2>1, <2>2
<1> QED BY <1>7, <1>8, <1>9 DEF SessionInv

\* What handle_recv() keeps true of the buffers, the parser and the queue: the
\* buffers are the stream, cut somewhere, and what is before them is handled.
THEOREM SessionInvariance == SessionSpec => []SessionInv
<1> QED BY SessionInitially, SessionStepKeeps, PTL DEF SessionSpec

\* However TCP cuts the stream, libsip is given the messages whose start line
\* came in one buffer, whole, once and in order, and no other, until a buffer
\* is copied past its end, which takes a cut or a blank line (handle_recv(),
\* get_sip_message_type() and get_buffer() of sip_session.cpp).
THEOREM LostOnlyWhenCutCorrect == SessionSpec => []LostOnlyWhenCut
<1> QED BY SessionInvariance, SessionInvCorrect, PTL
===============================================================================

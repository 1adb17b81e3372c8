----------------------------- MODULE PlatformServer -----------------------------
(***************************************************************************)
(* The server of a registration: one platform id of the SipServer of       *)
(* src/inner/sip_server.cpp, the SubordinatePlatformImpl objects made for  *)
(* it (src/subordinate_platform_impl.cpp), and the peer that registers.    *)
(*                                                                         *)
(* Sessions, timers and application callbacks run on several pollers, and  *)
(* nothing locks a platform object: set_status() assigns the status, then  *)
(* the keepalive timer, and handlers on two pollers may interleave in      *)
(* between.  Only the map of platforms has a mutex.  A handler runs to its *)
(* end before its poller takes up the next one.                            *)
(*                                                                         *)
(* The peer is external: it logs out and in, sends keepalives while it     *)
(* believes to be registered, and starts over when one is not answered     *)
(* (as SuperPlatform does).  Left out: addresses and TCP sessions; the     *)
(* 401 and 403 replies, after which the peer just tries again; the queued  *)
(* broadcasts, which change nothing here (Subscription takes them in any   *)
(* order); camouflage_online_, which nothing reads; and that keepalive_-   *)
(* timer_ is a shared_ptr, which two assignments at once could tear.       *)
(***************************************************************************)
EXTENDS Integers

CONSTANTS
    Pollers,      \* the threads of EventPollerPool
    Objects,      \* platform objects alive at a time
    NoObject,     \* no platform
    NoTimer,      \* keepalive_timer_ is null
    MaxAsked,     \* bound: new accounts the application has not decided on
    MaxEvents,    \* bound: calls that add, remove or camouflage the platform or
                  \* stop the server, and keepalives that come too late
    Faults        \* what peer, network and application may do, see FaultNames

FaultNames == { "silent",      \* the peer stops and does not log out
                "late",        \* no keepalive for 90 s though the peer runs
                "lost",        \* a reply to a REGISTER is lost
                "camouflage" } \* the application calls camouflage_online()

ASSUME ServerAssumption == /\ NoObject \notin Objects /\ NoTimer \notin Pollers
                           /\ MaxAsked \in Nat /\ MaxEvents \in Nat
                           /\ Faults \subseteq FaultNames

VARIABLES
    plat,      \* the platform objects
    registry,  \* sub_platforms_[id]
    running,   \* running_ of the server
    calls,     \* the handler each poller is in
    asked,     \* REGISTERs that wait for new_subordinate_account_callback_
    peer,      \* what the peer believes
    events,    \* how many of the events of MaxEvents there have been
    raced      \* objects whose last set_status() met another one (observer)

vars == <<plat, registry, running, calls, asked, peer, events, raced>>

StatusTypes == {"offline", "registering", "online"}

(* timer   the poller that keepalive_timer_ runs on                          *)
(* fresh   REGISTER or keepalive (or what camouflage_online() claims) within *)
(*         the last 90 s                                                     *)
Platform == [made : BOOLEAN, status : StatusTypes, fresh : BOOLEAN,
             timer : Pollers \cup {NoTimer}]

NewPlatform(made, st) == [made |-> made, status |-> st, fresh |-> FALSE, timer |-> NoTimer]

(* A handler: which object it makes online, offline or camouflaged, what it  *)
(* does next, and whether it replies to a REGISTER: "peer" in the handler of *)
(* that REGISTER, "app" when the application has decided on it.              *)
Steps == {"idle", "insert", "status", "timer"}
Call == [step : Steps, obj : Objects \cup {NoObject},
         to : {"online", "offline", "camouflage"}, reply : {"none", "peer", "app"}]

Idle == [step |-> "idle", obj |-> NoObject, to |-> "offline", reply |-> "none"]
SetStatus(o, st, reply) == [step |-> "status", obj |-> o, to |-> st, reply |-> reply]

Init ==
    /\ plat = [o \in Objects |-> NewPlatform(FALSE, "offline")]
    /\ registry = NoObject
    /\ running = TRUE
    /\ calls = [t \in Pollers |-> Idle]
    /\ asked = 0
    /\ peer = "off"
    /\ events = 0
    /\ raced = {}

(* t can take up the next handler *)
Free(t) == calls[t] = Idle

(* a platform object is made and entered in the map *)
NewObject == CHOOSE o \in Objects : ~plat[o].made
Makes(st) == /\ \E o \in Objects : ~plat[o].made
             /\ plat' = [plat EXCEPT ![NewObject] = NewPlatform(TRUE, st)]
             /\ registry' = NewObject

Enters(t, c) == calls' = [calls EXCEPT ![t] = c]

(* a handler of t is somewhere in set_status() or camouflage_online() of o *)
Sets(t, o) == calls[t].obj = o /\ calls[t].step \in {"status", "timer"}

(* the map or a handler holds the object *)
InUse(o) == registry = o \/ \E t \in Pollers : Sets(t, o)

-------------------------------------------------------------------------------
\* REGISTER

(* The peer sends a REGISTER when it has the reply to the last one, or waits *)
(* for it longer than a handler takes (but the application may take longer). *)
Waits == \E t \in Pollers : calls[t].reply = "peer"

(* on_recv_register() of a login with the right authorization: a known       *)
(* platform goes online, an unknown one is put to the application            *)
Register(t) ==
    /\ peer = "registering" /\ ~Waits /\ running /\ Free(t)
    /\ \/ /\ registry # NoObject
          /\ Enters(t, SetStatus(registry, "online", "peer"))
          /\ UNCHANGED asked
       \/ /\ registry = NoObject /\ asked < MaxAsked
          /\ asked' = asked + 1
          /\ UNCHANGED calls
    /\ UNCHANGED <<plat, registry, running, peer, events, raced>>

(* on_recv_register() with expires 0: the peer starts over, or stops *)
Logout(t) ==
    /\ ~Waits /\ running /\ Free(t)
    /\ IF registry # NoObject
       THEN /\ Enters(t, SetStatus(registry, "offline", "peer"))
            /\ \/ peer = "starting" /\ UNCHANGED peer
               \/ peer # "off" /\ peer' = "off"
       ELSE /\ \/ peer = "starting" /\ peer' = "registering"
               \/ peer # "off" /\ peer' = "off"
            /\ UNCHANGED calls
    /\ UNCHANGED <<plat, registry, running, asked, events, raced>>

(* The application decides on a new account, on any thread and at any time:  *)
(* new_subordinate_account() looks the platform up again                     *)
Decide(t, allow) ==
    /\ asked > 0 /\ Free(t)
    /\ asked' = asked - 1
    /\ \/ ~allow /\ UNCHANGED calls
       \/ allow /\ registry # NoObject /\ Enters(t, SetStatus(registry, "online", "app"))
       \/ allow /\ registry = NoObject /\ Enters(t, [Idle EXCEPT !.step = "insert"])
    /\ UNCHANGED <<plat, registry, running, peer, events, raced>>

(* and, if there was none, enters a new one, whatever the map holds by now *)
Insert(t) ==
    /\ calls[t].step = "insert"
    /\ Makes("registering")
    /\ Enters(t, SetStatus(NewObject, "online", "app"))
    /\ UNCHANGED <<running, asked, peer, events, raced>>

-------------------------------------------------------------------------------
\* set_status() and camouflage_online(), step by step

(* another poller is at work on o *)
Meets(t, o) == \E u \in Pollers \ {t} : calls[u].obj = o /\ calls[u].step = "timer"

(* status and times; what camouflage_online() is given as times may be old   *)
AssignStatus(t) ==
    LET c == calls[t]
        o == c.obj
    IN /\ c.step = "status"
       /\ \E f \in BOOLEAN :
             /\ c.to = "online" => f
             /\ c.to = "offline" => f = plat[o].fresh
             /\ plat' = [plat EXCEPT ![o].status = IF c.to = "offline" THEN "offline" ELSE "online",
                                     ![o].fresh = f]
       /\ raced' = IF Meets(t, o) THEN raced \cup {o} ELSE raced \ {o}
       /\ Enters(t, [c EXCEPT !.step = "timer"])
       /\ UNCHANGED <<registry, running, asked, peer, events>>

(* mutant: set_status() leaves the timer of a platform that goes offline *)
NextTimerStays(t, c) == IF c.to = "offline" THEN plat[c.obj].timer ELSE t

(* mutant: camouflage_online() sets no timer *)
NextTimerPlain(t, c) == IF c.to = "online" THEN t ELSE NoTimer

(* keepalive_timer_: a new one on this poller, or none *)
NextTimer(t, c) == IF c.to = "offline" THEN NoTimer ELSE t

(* a peer that has logged out logs in, one that has logged in is registered *)
Hears(c) == CASE c.reply # "none" /\ c.to = "offline" /\ peer = "starting" -> "registering"
              [] c.reply # "none" /\ c.to = "online" /\ peer = "registering" -> "registered"
              [] OTHER -> peer

(* the timer, and the reply to the REGISTER *)
AssignTimer(t, heard) ==
    LET c == calls[t]
    IN /\ c.step = "timer"
       /\ plat' = [plat EXCEPT ![c.obj].timer = NextTimer(t, c)]
       /\ peer' = IF heard THEN Hears(c) ELSE peer
       /\ Enters(t, Idle)
       /\ UNCHANGED <<registry, running, asked, events, raced>>

Finish(t) == \E heard \in BOOLEAN : (heard \/ "lost" \in Faults) /\ AssignTimer(t, heard)

(* camouflage_online() of a platform that is not online *)
Camouflage(t) ==
    /\ "camouflage" \in Faults /\ Free(t)
    /\ events < MaxEvents /\ events' = events + 1
    /\ registry # NoObject /\ plat[registry].status # "online"
    /\ Enters(t, SetStatus(registry, "camouflage", "none"))
    /\ UNCHANGED <<plat, registry, running, asked, peer, raced>>

-------------------------------------------------------------------------------
\* Keepalives

IsOnline == registry # NoObject /\ plat[registry].status = "online"

(* mutant: every platform in the map is answered *)
AnswersKnown == registry # NoObject

Answers == IsOnline

(* on_keep_alive(): only a platform that is online is answered.  A peer that *)
(* gets no answer starts over.                                               *)
Keepalive(t) ==
    /\ peer = "registered" /\ running /\ Free(t)
    /\ IF Answers
       THEN plat' = [plat EXCEPT ![registry].fresh = TRUE] /\ UNCHANGED peer
       ELSE peer' = "starting" /\ UNCHANGED plat
    /\ UNCHANGED <<registry, running, calls, asked, events, raced>>

(* 3 * 30 s without a sign of life, longer than any handler takes.  A peer   *)
(* that logs in repeats that more often.                                     *)
Elapse(o) ==
    /\ plat[o].fresh /\ \A t \in Pollers : ~Sets(t, o)
    /\ plat' = [plat EXCEPT ![o].fresh = FALSE]
    /\ \/ /\ peer = "off" \/ registry # o
          /\ UNCHANGED events
       \/ /\ "late" \in Faults /\ peer = "registered" /\ registry = o
          /\ events < MaxEvents /\ events' = events + 1
    /\ UNCHANGED <<registry, running, calls, asked, peer, raced>>

Expired(t, o) == plat[o].timer = t /\ ~plat[o].fresh

(* keepalive_timer_ finds that they are over *)
Tick(t, o) ==
    /\ Free(t) /\ Expired(t, o)
    /\ Enters(t, SetStatus(o, "offline", "none"))
    /\ UNCHANGED <<plat, registry, running, asked, peer, events, raced>>

-------------------------------------------------------------------------------
\* The application and the peer

(* add_subordinate_platform(): the new object displaces the old one *)
AddPlatform ==
    /\ events < MaxEvents /\ events' = events + 1
    /\ Makes("offline")
    /\ UNCHANGED <<running, calls, asked, peer, raced>>

(* remove_subordinate_platform(): shutdown() only tells the application *)
RemovePlatform ==
    /\ events < MaxEvents /\ events' = events + 1
    /\ registry # NoObject /\ registry' = NoObject
    /\ UNCHANGED <<plat, running, calls, asked, peer, raced>>

(* run() and shutdown() of the server *)
Run ==
    /\ ~running /\ running' = TRUE
    /\ UNCHANGED <<plat, registry, calls, asked, peer, events, raced>>

Shutdown ==
    /\ events < MaxEvents /\ events' = events + 1
    /\ running /\ running' = FALSE
    /\ registry' = NoObject
    /\ UNCHANGED <<plat, calls, asked, peer, raced>>

(* The last reference to an object goes when neither the map, nor a handler,  *)
(* nor the application holds it: its timer only has a weak_ptr                *)
Release(o) ==
    /\ plat[o].made /\ ~InUse(o)
    /\ plat' = [plat EXCEPT ![o] = NewPlatform(FALSE, "offline")]
    /\ raced' = raced \ {o}
    /\ UNCHANGED <<registry, running, calls, asked, peer, events>>

PeerStarts ==
    /\ peer = "off" /\ peer' = "starting"
    /\ UNCHANGED <<plat, registry, running, calls, asked, events, raced>>

PeerFallsSilent ==
    /\ "silent" \in Faults
    /\ peer # "off" /\ peer' = "off"
    /\ UNCHANGED <<plat, registry, running, calls, asked, events, raced>>

-------------------------------------------------------------------------------
Handler(t) == \/ Register(t) \/ Logout(t) \/ Insert(t) \/ AssignStatus(t) \/ Finish(t)
              \/ Camouflage(t) \/ Keepalive(t)
              \/ \E allow \in BOOLEAN : Decide(t, allow)
              \/ \E o \in Objects : Tick(t, o)

Next == \/ \E t \in Pollers : Handler(t)
        \/ \E o \in Objects : Elapse(o) \/ Release(o)
        \/ AddPlatform \/ RemovePlatform \/ Run \/ Shutdown
        \/ PeerStarts \/ PeerFallsSilent

Spec == Init /\ [][Next]_vars

(* what a poller that is not idle does next *)
Proceed(t) == Insert(t) \/ AssignStatus(t) \/ Finish(t)

(* what a peer that does not stop sends next *)
PeerSends(t) == \/ peer = "starting" /\ Logout(t) /\ peer' # "off"
                \/ Register(t)
                \/ Keepalive(t)

(* Pollers run what is queued and come to every timer, and time passes.  Of  *)
(* what a peer repeats some gets through, and so do some of the replies.  An *)
(* application decides on new accounts and does not refuse for ever, and it  *)
(* drops objects some time after they have left the map.                     *)
Fairness ==
    /\ \A t \in Pollers : WF_vars(Proceed(t))
    /\ \A o \in Objects : /\ SF_vars(\E t \in Pollers : Tick(t, o))
                          /\ WF_vars(peer = "off" /\ Elapse(o))
                          /\ WF_vars(Release(o))
    /\ SF_vars(\E t \in Pollers : PeerSends(t))
    /\ SF_vars(\E t \in Pollers : Decide(t, TRUE))
    /\ SF_vars(\E t \in Pollers : calls[t].reply # "none" /\ AssignTimer(t, TRUE))

FairSpec == Spec /\ Fairness

-------------------------------------------------------------------------------
\* Properties

TypeOK ==
    /\ plat \in [Objects -> Platform]
    /\ registry \in Objects \cup {NoObject}
    /\ running \in BOOLEAN
    /\ calls \in [Pollers -> Call]
    /\ asked \in 0..MaxAsked
    /\ peer \in {"off", "starting", "registering", "registered"}
    /\ events \in 0..MaxEvents
    /\ raced \subseteq Objects
    /\ \A o \in Objects : registry = o => plat[o].made

InProgress(o) == \E t \in Pollers : calls[t].obj = o /\ calls[t].step = "timer"

(* The keepalive timer follows the status: an object is watched when it is   *)
(* online, and only then, unless two set_status() of it have met.            *)
WatchedWhenOnline ==
    \A o \in Objects : plat[o].made /\ ~InProgress(o) /\ o \notin raced =>
        (plat[o].timer # NoTimer <=> plat[o].status = "online")

(* A peer that has gone without a word does not stay online. *)
SilenceIsNoticed ==
    \A o \in Objects :
        peer = "off" /\ plat[o].status = "online" ~>
            peer # "off" \/ plat[o].status # "online" \/ o \in raced

(* A peer that keeps trying agrees with a running server sooner or later:    *)
(* it believes to be registered and is shown online.  This survives lost     *)
(* replies, racing handlers, displaced and removed objects.                  *)
PeerAndServerAgree ==
    peer # "off" /\ running ~>
        (peer = "registered" /\ IsOnline) \/ peer = "off" \/ ~running

===============================================================================

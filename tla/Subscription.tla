------------------------------ MODULE Subscription ------------------------------
(***************************************************************************)
(* A subscription to a subordinate platform: the outgoing side of          *)
(* SubscribeRequestImpl, src/request/subscribe_request_impl.cpp.           *)
(*                                                                         *)
(* A running subscription is a chain of SUBSCRIBEs.  A 2xx makes a delayed *)
(* to_subscribe(), which refreshes the dialog; a send that fails makes     *)
(* one, and so does a terminated NOTIFY; a 5xx subscribes again at once.   *)
(* Every broadcast that the platform is online begins one more chain: no   *)
(* to_subscribe() is ever cancelled, because delay_task_.reset() only      *)
(* drops a pointer, and none of them looks at running_.                    *)
(*                                                                         *)
(* Replies and NOTIFYs find the object through subscribe_request_map_,     *)
(* tasks and broadcasts through a weak_ptr.  Handlers run one at a time,   *)
(* except start(), which other handlers may interrupt.  The peer and the   *)
(* platform are external.  Left out: an allocation that fails, the payload *)
(* of a NOTIFY, and the NOTIFY that extends a dialog the object has        *)
(* dropped, whose handling dereferences a null pointer.                    *)
(***************************************************************************)
EXTENDS Integers, FiniteSets, Functions

CONSTANTS
    Dialogs,      \* the dialogs the peer may create
    NoDialog,     \* sip_subscribe_ptr_ is null
    MaxChains,    \* bound: chains at a time
    MaxStarts,    \* bound: calls of start()
    Faults        \* what the peer and the network may do, see FaultNames

FaultNames == { "408",        \* no reply; the SUBSCRIBE may have been accepted
                "send",       \* a SUBSCRIBE cannot be sent
                "4xx",        \* the peer refuses
                "5xx",        \* the peer fails
                "forget",     \* the peer ends a dialog and tells nobody
                "terminate",  \* the peer ends a dialog with a NOTIFY
                "notify",     \* it sends other NOTIFYs
                "camouflage", \* the application pretends the platform is online
                "remove" }    \* the platform is removed

ASSUME SubscriptionAssumption == /\ IsFiniteSet(Dialogs) /\ NoDialog \notin Dialogs
                                 /\ MaxChains \in Nat /\ MaxStarts \in Nat
                                 /\ Faults \subseteq FaultNames

VARIABLES
    s,            \* the SubscribeRequestImpl with its transactions and tasks
    held,         \* the application refers to the object
    platform,     \* the status of the SubordinatePlatformImpl, or "gone"
    events,       \* its status broadcasts that have not run yet
    peer,         \* the dialogs of the peer
    starts,       \* calls of start() (bound)
    excuse        \* why nothing is on its way (observer)

vars == <<s, held, platform, events, peer, starts, excuse>>

Targets == Dialogs \cup {NoDialog}
StatusTypes == {"active", "pending", "terminated"}
PlatformStatus == {"online", "offline"}

(* starting  start() has read the status of the platform and has not         *)
(*           registered its callback yet                                     *)
(* mapped    subscribe_request_map_ has the object                           *)
(* callback  the platform calls the object when its status changes           *)
(* dialog    sip_subscribe_ptr_                                              *)
(* tasks     calls of to_subscribe() that are delayed or queued              *)
(* sent      SUBSCRIBEs the peer has not answered, by their dialog           *)
(* accepted  2xx replies on their way, by their dialog                       *)
Subscription ==
    [status : StatusTypes, running : BOOLEAN, starting : BOOLEAN,
     mapped : BOOLEAN, callback : BOOLEAN, dialog : Targets,
     tasks : Nat, sent : [Targets -> Nat], accepted : [Dialogs -> Nat]]

(* A dialog of the peer is "offered" in a 2xx.  Once that has been handled,  *)
(* it is "known": its NOTIFYs name the object.                               *)
DialogStates == {"none", "offered", "known"}

Init ==
    /\ s = [status |-> "terminated", running |-> FALSE, starting |-> FALSE,
            mapped |-> FALSE, callback |-> FALSE, dialog |-> NoDialog,
            tasks |-> 0, sent |-> [d \in Targets |-> 0],
            accepted |-> [d \in Dialogs |-> 0]]
    /\ held = TRUE
    /\ platform \in PlatformStatus
    /\ events = [st \in PlatformStatus |-> 0]
    /\ peer = [d \in Dialogs |-> "none"]
    /\ starts = 0
    /\ excuse = "none"

(* the object has not been destroyed *)
Alive == held \/ s.mapped

(* something is on its way that leads to the next SUBSCRIBE *)
Busy(r) == \/ r.tasks > 0
           \/ \E d \in Targets : r.sent[d] > 0
           \/ \E d \in Dialogs : r.accepted[d] > 0

(* chains, with those a broadcast will begin (bound) *)
Chains == s.tasks + FoldFunction(LAMBDA a, b : a + b, 0, s.sent)
                  + FoldFunction(LAMBDA a, b : a + b, 0, s.accepted)
                  + events["online"]
Room == Chains < MaxChains

(* the object becomes r, and when it comes to rest this is the reason *)
Become(r, why) == /\ s' = r
                  /\ excuse' = IF Busy(r) THEN "none" ELSE why

-------------------------------------------------------------------------------
\* Pieces of the handlers

(* to_subscribe(): a refresh in the dialog, or a new subscription *)
ToSubscribe(r) ==
    IF platform = "gone" THEN [r EXCEPT !.mapped = FALSE]
    ELSE [r EXCEPT !.sent[r.dialog] = @ + 1,
                   !.status = IF r.dialog = NoDialog THEN "pending" ELSE @]

(* the task that will call it *)
Delay(r) == [r EXCEPT !.tasks = @ + 1]

(* a final reply that is an error: the dialog is given up *)
Rejected(r) == [r EXCEPT !.dialog = NoDialog, !.status = "terminated"]

Unsent(r, d) == [r EXCEPT !.sent[d] = @ - 1]

-------------------------------------------------------------------------------
\* The application

(* start() up to the registration of its callback *)
Start ==
    /\ held /\ ~s.running
    /\ starts < MaxStarts /\ Room
    /\ LET r == [s EXCEPT !.running = TRUE, !.mapped = platform # "gone",
                          !.starting = platform # "gone"]
       IN  Become(IF platform = "online" THEN ToSubscribe(r) ELSE r, "none")
    /\ starts' = starts + 1
    /\ UNCHANGED <<held, platform, events, peer>>

(* the rest of it *)
Registered ==
    /\ s.starting
    /\ s' = [s EXCEPT !.starting = FALSE, !.callback = TRUE]
    /\ UNCHANGED <<held, platform, events, peer, starts, excuse>>

(* shutdown() forgets the object in the map.  It would remove the callback   *)
(* too, but remove_platform_status_cb() erases another key.                  *)
Shutdown ==
    /\ held /\ s.running /\ ~s.starting
    /\ s' = [s EXCEPT !.running = FALSE, !.mapped = FALSE]
    /\ UNCHANGED <<held, platform, events, peer, starts, excuse>>

(* the application drops its pointer *)
Release ==
    /\ held /\ ~s.starting
    /\ held' = FALSE
    /\ UNCHANGED <<s, platform, events, peer, starts, excuse>>

-------------------------------------------------------------------------------
\* Replies

(* The peer accepts: a new subscription gets a dialog that nobody uses. *)
AcceptNew(d) ==
    /\ s.sent[NoDialog] > 0
    /\ d # s.dialog /\ s.sent[d] = 0 /\ s.accepted[d] = 0
    /\ s' = [Unsent(s, NoDialog) EXCEPT !.accepted[d] = @ + 1]
    /\ peer' = [peer EXCEPT ![d] = "offered"]
    /\ UNCHANGED <<held, platform, events, starts, excuse>>

(* it accepts the refresh of a dialog it has *)
AcceptRefresh(d) ==
    /\ s.sent[d] > 0 /\ peer[d] # "none"
    /\ s' = [Unsent(s, d) EXCEPT !.accepted[d] = @ + 1]
    /\ UNCHANGED <<held, platform, events, peer, starts, excuse>>

(* mutant: the reply finds the object without the map *)
SucceedsUnmapped(d) ==
    /\ s.accepted[d] > 0
    /\ LET r == [s EXCEPT !.accepted[d] = @ - 1]
       IN  Become(Delay([r EXCEPT !.dialog = d, !.status = "active"]), excuse)
    /\ peer' = [peer EXCEPT ![d] = IF @ = "offered" THEN "known" ELSE @]
    /\ UNCHANGED <<held, platform, events, starts>>

(* mutant: the subscription is left to the NOTIFYs to extend *)
SucceedsForGood(d) ==
    /\ s.accepted[d] > 0
    /\ LET r == [s EXCEPT !.accepted[d] = @ - 1]
       IN  IF s.mapped
           THEN /\ Become([r EXCEPT !.dialog = d, !.status = "active"], excuse)
                /\ peer' = [peer EXCEPT ![d] = IF @ = "offered" THEN "known" ELSE @]
           ELSE Become(r, excuse) /\ UNCHANGED peer
    /\ UNCHANGED <<held, platform, events, starts>>

(* on_subscribe_reply() of a 2xx *)
Succeeds(d) ==
    /\ s.accepted[d] > 0
    /\ LET r == [s EXCEPT !.accepted[d] = @ - 1]
       IN  IF s.mapped
           THEN /\ Become(Delay([r EXCEPT !.dialog = d, !.status = "active"]), excuse)
                /\ peer' = [peer EXCEPT ![d] = IF @ = "offered" THEN "known" ELSE @]
           ELSE Become(r, excuse) /\ UNCHANGED peer
    /\ UNCHANGED <<held, platform, events, starts>>

(* on_subscribe_reply() of an error: only a 5xx is tried again, at once *)
Fails(r, serverError) ==
    IF ~s.mapped THEN Become(r, excuse)
    ELSE IF serverError THEN Become(ToSubscribe(Rejected(r)), excuse)
    ELSE Become(Rejected(r), "refused")

(* The peer refuses.  It always refuses a SUBSCRIBE in a dialog it has not. *)
Refuse(d) ==
    /\ s.sent[d] > 0
    /\ "4xx" \in Faults \/ (d # NoDialog /\ peer[d] = "none")
    /\ Fails(Unsent(s, d), FALSE)
    /\ UNCHANGED <<held, platform, events, peer, starts>>

(* mutant: a server error is an error like the others *)
ServerErrorRefuses(d) ==
    /\ "5xx" \in Faults /\ s.sent[d] > 0
    /\ LET r == Unsent(s, d)
       IN  Become(IF s.mapped THEN Rejected(r) ELSE r, excuse)
    /\ UNCHANGED <<held, platform, events, peer, starts>>

ServerError(d) ==
    /\ "5xx" \in Faults /\ s.sent[d] > 0
    /\ Fails(Unsent(s, d), TRUE)
    /\ UNCHANGED <<held, platform, events, peer, starts>>

(* 408: the peer has not answered, or its 2xx is lost.  It is no 5xx. *)
Timeout(d) ==
    /\ "408" \in Faults
    /\ \/ s.sent[d] > 0 /\ Fails(Unsent(s, d), FALSE)
       \/ /\ d # NoDialog /\ s.accepted[d] > 0
          /\ Fails([s EXCEPT !.accepted[d] = @ - 1], FALSE)
    /\ UNCHANGED <<held, platform, events, peer, starts>>

(* uac_send() cannot send: again in three seconds, even after shutdown() *)
SendFails(d) ==
    /\ "send" \in Faults /\ s.sent[d] > 0
    /\ LET r == Unsent(s, d)
       IN  Become(IF Alive THEN Delay([r EXCEPT !.status = "terminated"]) ELSE r, excuse)
    /\ UNCHANGED <<held, platform, events, peer, starts>>

-------------------------------------------------------------------------------
\* Tasks, broadcasts and NOTIFYs

(* mutant: the task holds the object *)
RunTaskStrong ==
    /\ s.tasks > 0
    /\ Become(ToSubscribe([s EXCEPT !.tasks = @ - 1]), excuse)
    /\ UNCHANGED <<held, platform, events, peer, starts>>

(* a delayed or queued to_subscribe() *)
RunTask ==
    /\ s.tasks > 0
    /\ LET r == [s EXCEPT !.tasks = @ - 1]
       IN  Become(IF Alive THEN ToSubscribe(r) ELSE r, excuse)
    /\ UNCHANGED <<held, platform, events, peer, starts>>

(* A broadcast runs the callback.  Going offline stops nothing: the tasks    *)
(* are not cancelled.  One that finds start() short of its registration      *)
(* reaches nobody.                                                           *)
Broadcast(st) ==
    /\ events[st] > 0
    /\ events' = [events EXCEPT ![st] = @ - 1]
    /\ IF ~(s.callback /\ Alive)
       THEN Become(s, IF s.starting /\ st = "online" THEN "missed" ELSE excuse)
       ELSE IF st = "online" THEN Become(ToSubscribe(s), excuse)
       ELSE Become([s EXCEPT !.status = "terminated"], excuse)
    /\ UNCHANGED <<held, platform, peer, starts>>

(* set_status() of the platform: it registers, or registers again, or        *)
(* leaves; each time it broadcasts                                           *)
PlatformIs(st) ==
    /\ platform # "gone"
    /\ st = "offline" => platform = "online" /\ events["offline"] = 0
    /\ st = "online" => Room
    /\ platform' = st
    /\ events' = [events EXCEPT ![st] = @ + 1]
    /\ UNCHANGED <<s, held, peer, starts, excuse>>

(* camouflage_online() broadcasts nothing *)
CamouflageOnline ==
    /\ "camouflage" \in Faults
    /\ platform = "offline"
    /\ platform' = "online"
    /\ Become(s, "missed")
    /\ UNCHANGED <<held, events, peer, starts>>

(* the server and the application have dropped the platform; its broadcasts  *)
(* and start() hold it                                                       *)
PlatformGone ==
    /\ "remove" \in Faults
    /\ platform # "gone" /\ ~s.starting /\ \A st \in PlatformStatus : events[st] = 0
    /\ platform' = "gone"
    /\ s' = [s EXCEPT !.callback = FALSE]
    /\ UNCHANGED <<held, events, peer, starts, excuse>>

(* a NOTIFY of a known dialog; one that extends makes a task of its own *)
Notify(d, state, extends) ==
    /\ "notify" \in Faults
    /\ s.mapped /\ peer[d] = "known"
    /\ extends => state = "active" /\ s.dialog # NoDialog /\ Room
    /\ LET r == [s EXCEPT !.status = state]
       IN  Become(IF extends THEN Delay(r) ELSE r, excuse)
    /\ UNCHANGED <<held, platform, events, peer, starts>>

(* A terminated NOTIFY: subscribe again.  The status changes only for a      *)
(* reason the code knows, and the dialog is kept, although it has ended.     *)
NotifyTerminated(d, known) ==
    /\ "terminate" \in Faults
    /\ s.mapped /\ peer[d] = "known" /\ Room
    /\ peer' = [peer EXCEPT ![d] = "none"]
    /\ Become(Delay(IF known THEN [s EXCEPT !.status = "terminated"] ELSE s), excuse)
    /\ UNCHANGED <<held, platform, events, starts>>

(* the peer restarts, the dialog expires, or its NOTIFY is lost *)
Forget(d) ==
    /\ "forget" \in Faults
    /\ peer[d] # "none"
    /\ peer' = [peer EXCEPT ![d] = "none"]
    /\ UNCHANGED <<s, held, platform, events, starts, excuse>>

-------------------------------------------------------------------------------
Replies == \/ \E d \in Dialogs : AcceptNew(d) \/ AcceptRefresh(d) \/ Succeeds(d)
           \/ \E d \in Targets : Refuse(d) \/ ServerError(d) \/ Timeout(d) \/ SendFails(d)

Notifications == \E d \in Dialogs :
    \/ \E state \in {"active", "pending"}, extends \in BOOLEAN : Notify(d, state, extends)
    \/ \E known \in BOOLEAN : NotifyTerminated(d, known)
    \/ Forget(d)

Next ==
    \/ Start \/ Registered \/ Shutdown \/ Release
    \/ Replies
    \/ RunTask
    \/ \E st \in PlatformStatus : Broadcast(st) \/ PlatformIs(st)
    \/ CamouflageOnline \/ PlatformGone
    \/ Notifications

Spec == Init /\ [][Next]_vars

(* Pollers run what is queued or due, start() goes on, and a peer answers    *)
(* every SUBSCRIBE: it does not lose or refuse all that it could accept, and *)
(* it refuses those in a dialog it has not.                                  *)
Fairness ==
    /\ WF_vars(Registered)
    /\ WF_vars(RunTask)
    /\ \A st \in PlatformStatus : WF_vars(Broadcast(st))
    /\ SF_vars(\E d \in Dialogs : AcceptNew(d))
    /\ SF_vars(\E d \in Dialogs : AcceptRefresh(d))
    /\ SF_vars(\E d \in Dialogs : Succeeds(d))
    /\ SF_vars(\E d \in Dialogs : peer[d] = "none" /\ Refuse(d))

FairSpec == Spec /\ Fairness

-------------------------------------------------------------------------------
\* Properties

TypeOK ==
    /\ s \in Subscription
    /\ held \in BOOLEAN
    /\ platform \in PlatformStatus \cup {"gone"}
    /\ events \in [PlatformStatus -> Nat]
    /\ peer \in [Dialogs -> DialogStates]
    /\ starts \in 0..MaxStarts
    /\ excuse \in {"none", "refused", "missed"}

(* A running subscription never falls silent while its platform is online:   *)
(* a task, a SUBSCRIBE, a reply or a broadcast is on its way.  There are two *)
(* excuses: the last SUBSCRIBE got an error other than 5xx (line 572), or    *)
(* the platform came online without the callback being told.                 *)
KeepsSubscribing ==
    s.running /\ s.mapped /\ platform = "online" /\ excuse = "none"
        => Busy(s) \/ events["online"] > 0

(* What arrives after shutdown() changes nothing: replies and NOTIFYs look   *)
(* the object up in subscribe_request_map_, so that an unmapped subscription *)
(* gets no dialog and does not become active.                                *)
StoppedLearnsNothing ==
    [][~s.mapped /\ ~s'.mapped => /\ s'.dialog = s.dialog
                                  /\ s'.status = "active" => s.status = "active"]_vars

(* A subscription nobody refers to any more sends nothing: all tasks and     *)
(* broadcasts hold a weak_ptr.                                               *)
ReleasedSendsNothing ==
    [][~Alive => \A d \in Targets : s'.sent[d] <= s.sent[d]]_vars

(* A running subscription whose platform is online becomes active, whatever  *)
(* replies, failures and NOTIFYs come before, unless it has one of the       *)
(* excuses of KeepsSubscribing.                                              *)
GetsActive ==
    s.running /\ s.mapped /\ platform = "online"
        ~> \/ s.status = "active"
           \/ excuse # "none"
           \/ ~(s.running /\ s.mapped /\ platform = "online")

===============================================================================

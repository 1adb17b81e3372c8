----------------------------- MODULE SuperPlatform -----------------------------
(***************************************************************************)
(* A platform that registers with a superior: SuperPlatformImpl of         *)
(* src/super_platform_impl.cpp.  It logs out, registers, refreshes the     *)
(* registration, sends keepalives and starts over when these fail.         *)
(*                                                                         *)
(* The registration lives as a chain: a REGISTER in flight, a delayed      *)
(* to_register(), a start_l() that resolves the address.  Each link ends   *)
(* by making the next one.  A keepalive timeout and start() begin further  *)
(* chains, only the refresh task is ever cancelled, and links other than   *)
(* transactions and keepalives hold a weak_ptr.                            *)
(*                                                                         *)
(* Handlers of one platform run one at a time.  The superior is external:  *)
(* it accepts REGISTERs in any order, and its replies arrive in any order. *)
(* A request the platform has given up does not reach it later.  Left out: *)
(* the status notifications, which hold the object until they have run.    *)
(***************************************************************************)
EXTENDS Integers

CONSTANTS
    MaxChains,      \* bound: chains at a time
    MaxKeepalives,  \* bound: keepalives at a time
    MaxStarts,      \* bound: calls of start()
    AuthLimit,      \* 401 replies in a row before the platform starts over: 5
    Faults          \* what the superior and the network may do, see FaultNames

FaultNames == { "408",       \* no reply; the REGISTER may have been processed
                "send",      \* a REGISTER cannot be sent
                "401",       \* the superior wants an authorization
                "4xx",       \* the superior refuses
                "redirect",  \* the superior redirects
                "forget" }   \* the superior restarts and forgets the platform

ASSUME SuperAssumption == /\ MaxChains \in Nat /\ MaxKeepalives \in Nat \ {0}
                          /\ MaxStarts \in Nat /\ AuthLimit \in Nat
                          /\ Faults \subseteq FaultNames

VARIABLES
    p,            \* the SuperPlatformImpl and its links
    held,         \* the server or the application refers to the object
    remote,       \* what the superior knows: registered or not, or forgotten
    accepted,     \* REGISTERs it has accepted, their 2xx is on its way
    starts,       \* calls of start() (bound)
    loggingOut    \* shutdown() has logged out, no login was in flight (observer)

vars == <<p, held, remote, accepted, starts, loggingOut>>

StatusTypes == {"offline", "registering", "online", "network_error", "auth_failure"}
Kinds == {"login", "logout"}   \* to_register() with an expiry, and with 0

(* tx         REGISTER transactions, queued for a session or in flight       *)
(* delayed    delayed to_register() calls nothing can cancel                 *)
(* refresh    refresh_register_timer_ is armed                               *)
(* relogin    to_register() calls queued after a logout                      *)
(* resolving  start_l() calls that wait for the resolver                     *)
(* keepTimer  keepalive_timer_ is armed                                      *)
(* keepalives requests queued or in flight                                   *)
(* late       keepalive_ticker_ exceeds interval * times                     *)
PlatformState ==
    [status : StatusTypes, running : BOOLEAN,
     tx : [Kinds -> Nat], delayed : [Kinds -> Nat], refresh : BOOLEAN,
     relogin : Nat, resolving : Nat,
     keepTimer : BOOLEAN, keepalives : Nat, late : BOOLEAN,
     authFailed : 0..AuthLimit, moved : BOOLEAN]

Init ==
    /\ p = [status |-> "offline", running |-> FALSE,
            tx |-> [k \in Kinds |-> 0], delayed |-> [k \in Kinds |-> 0], refresh |-> FALSE,
            relogin |-> 0, resolving |-> 0,
            keepTimer |-> FALSE, keepalives |-> 0, late |-> FALSE,
            authFailed |-> 0, moved |-> FALSE]
    /\ held = TRUE
    /\ remote = "out"
    /\ accepted = [k \in Kinds |-> 0]
    /\ starts = 0
    /\ loggingOut = FALSE

(* the chains that are on their way *)
Chains(r) == r.tx["login"] + r.tx["logout"] + r.delayed["login"] + r.delayed["logout"]
             + (IF r.refresh THEN 1 ELSE 0) + r.relogin + r.resolving

(* use_count(): somebody besides the handler itself refers to the object *)
InUse(r) == \/ held
            \/ r.tx["login"] + r.tx["logout"] > 0
            \/ r.relogin > 0
            \/ r.resolving > 0
            \/ r.keepalives > 0

-------------------------------------------------------------------------------
\* Pieces of the handlers

(* to_register(): a platform that has stopped only logs out *)
ToRegister(r, k) ==
    IF k = "login" /\ ~r.running THEN [r EXCEPT !.refresh = FALSE]
    ELSE [r EXCEPT !.refresh = FALSE, !.tx[k] = @ + 1,
                   !.status = IF @ = "online" THEN @ ELSE "registering"]

(* start_l(): an IP address is used at once, a name has to be resolved *)
StartL(r, isName) == IF isName THEN [r EXCEPT !.resolving = @ + 1]
                     ELSE ToRegister(r, "logout")

(* one more keepalive, up to the bound *)
OneMore(n) == IF n < MaxKeepalives THEN n + 1 ELSE n

Delay(r, k) == [r EXCEPT !.delayed[k] = @ + 1]

(* the refusal of a redirected platform leads back to the configured address *)
AfterRefusal(r, k, isName) ==
    IF r.moved THEN StartL([r EXCEPT !.moved = FALSE], isName) ELSE Delay(r, k)

-------------------------------------------------------------------------------
\* Calls

Start(isName) ==
    /\ held /\ ~p.running
    /\ starts < MaxStarts /\ Chains(p) < MaxChains
    /\ p' = StartL([p EXCEPT !.running = TRUE], isName)
    /\ starts' = starts + 1
    /\ loggingOut' = FALSE
    /\ UNCHANGED <<held, remote, accepted>>

(* mutant: shutdown() leaves it to the superior to notice *)
ShutdownQuietly ==
    /\ held /\ p.running
    /\ p' = [p EXCEPT !.running = FALSE]
    /\ loggingOut' = (p.status = "online" /\ p.tx["login"] = 0)
    /\ UNCHANGED <<held, remote, accepted, starts>>

(* shutdown(): only a platform that is online logs out *)
Shutdown ==
    /\ held /\ p.running
    /\ p' = LET r == [p EXCEPT !.running = FALSE]
            IN  IF r.status = "online" THEN ToRegister(r, "logout") ELSE r
    /\ loggingOut' = (p.status = "online" /\ p.tx["login"] = 0)
    /\ UNCHANGED <<held, remote, accepted, starts>>

(* remove_super_platform() after its shutdown(), and the application         *)
(* releases its pointer                                                      *)
Release ==
    /\ held /\ ~p.running
    /\ held' = FALSE
    /\ UNCHANGED <<p, remote, accepted, starts, loggingOut>>

-------------------------------------------------------------------------------
\* The superior

(* it has not answered one of them yet *)
Waiting(k) == p.tx[k] > accepted[k]

(* The superior accepts a registration, or a logout *)
Process(k) ==
    /\ Waiting(k)
    /\ remote' = IF k = "login" THEN "in" ELSE "out"
    /\ accepted' = [accepted EXCEPT ![k] = @ + 1]
    /\ UNCHANGED <<p, held, starts, loggingOut>>

(* it restarts: it knows nothing of the platform any more *)
Forget ==
    /\ "forget" \in Faults
    /\ remote = "in"
    /\ remote' = "forgotten"
    /\ UNCHANGED <<p, held, accepted, starts, loggingOut>>

-------------------------------------------------------------------------------
\* The end of a REGISTER transaction: on_register_reply() and uac_send()'s error

(* on_register_reply() has taken the platform out of its context *)
Replied(k) == [p EXCEPT !.tx[k] = @ - 1]

TakesAccepted(k) == /\ accepted[k] > 0
                    /\ accepted' = [accepted EXCEPT ![k] = @ - 1]

(* no reply, or 408; the superior may have accepted the request *)
Timeout(k) ==
    LET r == Replied(k)
    IN  /\ "408" \in Faults
        /\ \/ Waiting(k) /\ UNCHANGED accepted
           \/ TakesAccepted(k)
        /\ p' = IF InUse(r) THEN Delay([r EXCEPT !.status = "network_error"], k) ELSE r
        /\ UNCHANGED <<held, remote, starts, loggingOut>>

SendFails(k) ==
    LET r == Replied(k)
    IN  /\ "send" \in Faults
        /\ Waiting(k)
        /\ p' = IF InUse(r) THEN Delay([r EXCEPT !.status = "network_error"], k) ELSE r
        /\ UNCHANGED <<held, remote, accepted, starts, loggingOut>>

(* mutant: the platform does not register after the logout *)
LoggedOutForGood ==
    LET r == Replied("logout")
    IN  /\ TakesAccepted("logout")
        /\ p' = IF InUse(r) THEN [r EXCEPT !.authFailed = 0, !.status = "offline"] ELSE r
        /\ UNCHANGED <<held, remote, starts, loggingOut>>

(* mutant: a platform that another chain has brought online keeps its status *)
LoggedOutUnlessOnline ==
    LET r == Replied("logout")
    IN  /\ TakesAccepted("logout")
        /\ p' = IF ~InUse(r) \/ r.status = "online" THEN r
                ELSE [r EXCEPT !.authFailed = 0, !.status = "offline",
                               !.relogin = IF r.running THEN @ + 1 ELSE @]
        /\ UNCHANGED <<held, remote, starts, loggingOut>>

(* 2xx to expires = 0: a running platform registers now *)
LoggedOut ==
    LET r == Replied("logout")
    IN  /\ TakesAccepted("logout")
        /\ p' = IF InUse(r)
                THEN [r EXCEPT !.authFailed = 0, !.status = "offline",
                               !.relogin = IF r.running THEN @ + 1 ELSE @]
                ELSE r
        /\ UNCHANGED <<held, remote, starts, loggingOut>>

(* mutant: no refresh task *)
LoggedInOnce ==
    LET r == Replied("login")
    IN  /\ TakesAccepted("login")
        /\ p' = IF InUse(r)
                THEN [r EXCEPT !.authFailed = 0, !.status = "online", !.late = FALSE,
                               !.keepTimer = TRUE, !.keepalives = OneMore(@)]
                ELSE r
        /\ UNCHANGED <<held, remote, starts, loggingOut>>

(* 2xx to a registration: refresh task, keepalive timer and one keepalive.   *)
(* The refresh task it replaces is not cancelled.                            *)
LoggedIn ==
    LET r == Replied("login")
    IN  /\ TakesAccepted("login")
        /\ p' = IF InUse(r)
                THEN [r EXCEPT !.authFailed = 0, !.status = "online", !.late = FALSE,
                               !.refresh = TRUE,
                               !.delayed["login"] = IF r.refresh THEN @ + 1 ELSE @,
                               !.keepTimer = TRUE, !.keepalives = OneMore(@)]
                ELSE r
        /\ UNCHANGED <<held, remote, starts, loggingOut>>

(* 3xx: the contact becomes the address, if it can be parsed *)
Redirected(k, usable) ==
    LET r == Replied(k)
    IN  /\ "redirect" \in Faults
        /\ Waiting(k)
        /\ p' = IF ~InUse(r) THEN r
                ELSE IF usable THEN [r EXCEPT !.moved = TRUE, !.resolving = @ + 1]
                ELSE Delay([r EXCEPT !.moved = FALSE], k)
        /\ UNCHANGED <<held, remote, accepted, starts, loggingOut>>

(* 401: the authorization can be generated, or not *)
Unauthorized(k, generated, isName) ==
    LET r == Replied(k)
    IN  /\ "401" \in Faults
        /\ Waiting(k)
        /\ p' = IF ~InUse(r) THEN r
                ELSE IF r.authFailed = AuthLimit
                     THEN StartL([r EXCEPT !.authFailed = 0, !.moved = FALSE], isName)
                ELSE Delay([r EXCEPT !.authFailed = @ + 1,
                                     !.status = IF generated THEN @ ELSE "auth_failure"], k)
        /\ UNCHANGED <<held, remote, accepted, starts, loggingOut>>

Refused(k, isName) ==
    LET r == Replied(k)
    IN  /\ "4xx" \in Faults
        /\ Waiting(k)
        /\ p' = IF InUse(r) THEN AfterRefusal([r EXCEPT !.status = "auth_failure"], k, isName)
                ELSE r
        /\ UNCHANGED <<held, remote, accepted, starts, loggingOut>>

-------------------------------------------------------------------------------
\* Tasks

(* mutant: the task keeps the object alive *)
RunDelayedStrong(k) ==
    /\ p.delayed[k] > 0
    /\ p' = ToRegister([p EXCEPT !.delayed[k] = @ - 1], k)
    /\ UNCHANGED <<held, remote, accepted, starts, loggingOut>>

(* a delayed to_register(); its weak_ptr may have expired *)
RunDelayed(k) ==
    LET r == [p EXCEPT !.delayed[k] = @ - 1]
    IN  /\ p.delayed[k] > 0
        /\ p' = IF InUse(r) THEN ToRegister(r, k) ELSE r
        /\ UNCHANGED <<held, remote, accepted, starts, loggingOut>>

RunRefresh ==
    /\ p.refresh
    /\ p' = IF InUse(p) THEN ToRegister(p, "login") ELSE [p EXCEPT !.refresh = FALSE]
    /\ UNCHANGED <<held, remote, accepted, starts, loggingOut>>

RunRelogin ==
    /\ p.relogin > 0
    /\ p' = ToRegister([p EXCEPT !.relogin = @ - 1], "login")
    /\ UNCHANGED <<held, remote, accepted, starts, loggingOut>>

(* start_l() with a name: a failure of the resolver is retried *)
Resolved ==
    /\ p.resolving > 0
    /\ p' = ToRegister([p EXCEPT !.resolving = @ - 1], "logout")
    /\ UNCHANGED <<held, remote, accepted, starts, loggingOut>>

(* the retry of the resolver finds its weak_ptr expired *)
ResolverOrphaned ==
    LET r == [p EXCEPT !.resolving = @ - 1]
    IN  /\ p.resolving > 0 /\ ~InUse(r)
        /\ p' = r
        /\ UNCHANGED <<held, remote, accepted, starts, loggingOut>>

-------------------------------------------------------------------------------
\* Keepalives

KeepaliveDue ==
    /\ p.keepTimer /\ InUse(p)
    /\ p' = [p EXCEPT !.keepalives = OneMore(@)]
    /\ UNCHANGED <<held, remote, accepted, starts, loggingOut>>

(* time passes without a keepalive that is answered *)
KeepaliveLate ==
    /\ p.keepTimer /\ ~p.late
    /\ p' = [p EXCEPT !.late = TRUE]
    /\ UNCHANGED <<held, remote, accepted, starts, loggingOut>>

KeepaliveAnswered ==
    /\ p.keepalives > 0 /\ remote = "in"
    /\ p' = [p EXCEPT !.keepalives = @ - 1, !.late = FALSE]
    /\ UNCHANGED <<held, remote, accepted, starts, loggingOut>>

(* a failure is counted when it is late: the platform starts over *)
KeepaliveFails(isName) ==
    LET r == [p EXCEPT !.keepalives = @ - 1]
    IN  /\ p.keepalives > 0
        /\ p.late => Chains(p) < MaxChains
        /\ p' = IF p.late THEN StartL([r EXCEPT !.keepTimer = FALSE, !.status = "offline"], isName)
                ELSE r
        /\ UNCHANGED <<held, remote, accepted, starts, loggingOut>>

-------------------------------------------------------------------------------

Accept(k) == IF k = "login" THEN LoggedIn ELSE LoggedOut

Reply(k) == \/ Accept(k)
            \/ Timeout(k)
            \/ SendFails(k)
            \/ \E b \in BOOLEAN : Redirected(k, b) \/ Refused(k, b)
            \/ \E b, c \in BOOLEAN : Unauthorized(k, b, c)

Task == RunRefresh \/ RunRelogin \/ Resolved \/ ResolverOrphaned

Next == \/ \E b \in BOOLEAN : Start(b)
        \/ Shutdown
        \/ Release
        \/ \E k \in Kinds : Process(k) \/ Reply(k) \/ RunDelayed(k)
        \/ Task
        \/ KeepaliveDue \/ KeepaliveLate \/ KeepaliveAnswered
        \/ \E b \in BOOLEAN : KeepaliveFails(b)
        \/ Forget

Spec == Init /\ [][Next]_vars

(* Every task runs.  A superior that gets ever more requests accepts one in  *)
(* the end, and one of its replies gets through.                             *)
Fairness == /\ \A k \in Kinds : /\ SF_vars(Process(k))
                                /\ SF_vars(Accept(k))
                                /\ WF_vars(RunDelayed(k))
            /\ WF_vars(RunRefresh)
            /\ WF_vars(RunRelogin)
            /\ WF_vars(Resolved)

FairSpec == Spec /\ Fairness

-------------------------------------------------------------------------------
\* Properties

TypeOK == /\ p \in PlatformState
          /\ held \in BOOLEAN /\ remote \in {"in", "out", "forgotten"} /\ loggingOut \in BOOLEAN
          /\ starts \in 0..MaxStarts
         /\ accepted \in [Kinds -> Nat] /\ \A k \in Kinds : accepted[k] <= p.tx[k]

(* A platform that is started never stops trying: whatever replies, cancels  *)
(* and timeouts do, a transaction, a task or a resolver carries on.          *)
KeepsTrying == held /\ p.running => Chains(p) > 0

(* nothing is in flight or about to be sent, but for the refresh *)
Settled(r) == /\ r.tx["login"] + r.tx["logout"] = 0
              /\ r.delayed["login"] + r.delayed["logout"] = 0
              /\ r.relogin = 0 /\ r.resolving = 0

(* However many chains log the platform in and out, and in whatever order    *)
(* their replies arrive: when the dust has settled, a running platform shows *)
(* online and has not been logged out at the superior.                       *)
SettledIsRegistered == p.running /\ Settled(p) => p.status = "online" /\ remote # "out"

(* Tasks that hold a weak_ptr act only on an object that somebody uses:      *)
(* once nobody does, nothing is in flight and nothing is ever sent again.    *)
ReleasedIsQuiet == [][~InUse(p) => p'.tx = p.tx /\ p'.keepalives = p.keepalives]_vars

(* A platform that is started and not stopped is online sooner or later.     *)
GetsOnline == p.running ~> p.status = "online" \/ ~p.running

(* A superior that has forgotten a running platform is told of it again,     *)
(* though the platform still shows online and nothing is in flight.          *)
RegistersAgain == remote = "forgotten" /\ p.running ~> remote = "in" \/ ~p.running

(* A platform that is shut down while it is online and has no registration   *)
(* in flight (which could be accepted after the logout) is logged out at the *)
(* superior, unless it is started again or released before.                  *)
LogsOut == loggingOut ~> (remote # "in" \/ p.running \/ ~held)

===============================================================================

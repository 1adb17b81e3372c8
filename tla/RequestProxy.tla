----------------------------- MODULE RequestProxy -----------------------------
(***************************************************************************)
(* Request proxies of one platform: src/request/RequestProxyImpl.cpp,      *)
(* RequestListImpl.cpp, RequestConfigDownloadImpl.cpp, and the request map *)
(* and transaction sending of src/platform_helper.cpp.                     *)
(*                                                                         *)
(* A request is sent as a SIP MESSAGE.  Its *reply* (the SIP status code)  *)
(* and its *responses* (MESSAGEs of the peer that carry the same SN) come  *)
(* back separately; timers and tasks queued with async() compete with both *)
(* of them for the end of the request, and result_flag_ decides who ends   *)
(* it.  A proxy that answers a request of the peer is built on the peer's  *)
(* SN and shares the request map with the platform's own requests.         *)
(*                                                                         *)
(* Every handler is one action: replies and responses run on the poller of *)
(* the session, and the timers and tasks they start are put on the current *)
(* poller (EventPollerPool::getPoller prefers the calling thread).         *)
(***************************************************************************)
EXTENDS Integers, FiniteSets

CONSTANTS
    Requests,      \* proxies of the platform's own requests, SN from get_new_sn()
    Answers,       \* NoResponse proxies built on the SN of a request of the peer
    NoProxy,       \* an SN without an entry in request_map_
    MaxSN,         \* INT32_MAX: get_new_sn() wraps from it to 1
    MaxResponses,  \* bound: responses a proxy takes
    MaxItems,      \* bound: Num and SumNum of a list response
    ConfigTypes,   \* the configuration types a response may carry
    Requested,     \* the types a ConfigDownload request asks for
    Faults         \* what the environment may do, see FaultNames

FaultNames == { "early",        \* a response overtakes the final reply
                "provisional",  \* the peer sends a 1xx reply
                "badxml",       \* a response that load_from_xml() refuses
                "payload",      \* parse_to_xml() of the request fails
                "nosession",    \* no session, or sip_uac_send() fails
                "throw" }       \* the response callback throws

Proxies == Requests \cup Answers
SNs     == 1..MaxSN

ASSUME ProxyAssumption ==
    /\ Requests \cap Answers = {}
    /\ NoProxy \notin Proxies
    /\ MaxSN \in Nat \ {0}
    /\ MaxResponses \in Nat
    /\ MaxItems \in Nat
    /\ Requested \subseteq ConfigTypes
    /\ Faults \subseteq FaultNames

VARIABLES
    px,          \* the proxy objects
    requestMap,  \* PlatformHelper::request_map_
    nextSn       \* PlatformHelper::platform_sn_

vars == <<px, requestMap, nextSn>>

-------------------------------------------------------------------------------
\* The proxy object

Kinds  == {"NoResponse", "OneResponse", "List", "ConfigDownload"}
Phases == {"none", "made", "sent"}
TxStates == {"idle", "connecting", "calling", "done"}
Status == {"Init", "Replied", "Succeeded", "Timeout", "Failed"}
Final  == {"Succeeded", "Timeout", "Failed"}

(* phase   the application's calls: constructed by newRequestProxy(), sent   *)
(* flag    result_flag_                                                      *)
(* calls, told   how often rcb_ ran, and the status() it read (observers)    *)
(* tx      the client transaction: waiting for a session, for a reply, over  *)
(* timer   RequestProxyImpl::timer_ is armed                                 *)
(* ltimer  the timer_ of the derived class, which hides the base's, is armed *)
(* fresh   ticker_ was reset since the list timer last fired                 *)
(* tasks   on_completed() calls queued with async()                          *)
(* resp, valid   responses_.size(), and how many of them could be loaded     *)
(* threw   a response callback has thrown (observer)                         *)
ProxyState == [phase : Phases, kind : Kinds, sn : SNs \cup {0},
               status : Status, flag : BOOLEAN,
               calls : Nat, told : Status,
               tx : TxStates,
               timer : BOOLEAN, ltimer : BOOLEAN, fresh : BOOLEAN,
               tasks : Nat, resp : Nat, valid : Nat,
               recvNum : Nat, sumNum : Nat, recvTypes : SUBSET ConfigTypes,
               threw : BOOLEAN]

NewProxy == [phase |-> "none", kind |-> "NoResponse", sn |-> 0,
             status |-> "Init", flag |-> FALSE, calls |-> 0, told |-> "Init",
             tx |-> "idle", timer |-> FALSE, ltimer |-> FALSE, fresh |-> FALSE,
             tasks |-> 0, resp |-> 0, valid |-> 0,
             recvNum |-> 0, sumNum |-> 0, recvTypes |-> {}, threw |-> FALSE]

Init == /\ px = [p \in Proxies |-> NewProxy]
        /\ requestMap = [s \in SNs |-> NoProxy]
        /\ nextSn = 1

(* The object is still referenced: by the map, or by a closure that captured *)
(* the shared_ptr (transaction, base timer, queued task).  The timers of the *)
(* derived classes hold a weak_ptr only.                                     *)
Alive(p) == \/ \E s \in SNs : requestMap[s] = p
            \/ px[p].tx \in {"connecting", "calling"}
            \/ px[p].timer
            \/ px[p].tasks > 0

-------------------------------------------------------------------------------
\* on_completed() and the two ways a handler ends

(* mutants: result_flag_ forgotten; the derived timer not reset *)
CompletedAgain(r) ==
    [r EXCEPT !.flag = TRUE, !.calls = @ + 1, !.told = r.status, !.ltimer = FALSE]
CompletedKeepsTimer(r) ==
    IF r.flag THEN r
    ELSE [r EXCEPT !.flag = TRUE, !.calls = @ + 1, !.told = r.status]

Completed(r) ==
    IF r.flag THEN r
    ELSE [r EXCEPT !.flag = TRUE, !.calls = @ + 1, !.told = r.status, !.ltimer = FALSE]

(* mutant: the entry of a completed request stays in the map *)
FinishKeepsEntry(p, r) ==
    /\ px' = [px EXCEPT ![p] = Completed(r)]
    /\ UNCHANGED requestMap

(* A handler that leaves the object as r and calls on_completed(): the first *)
(* call runs rcb_ and erases the SN, whoever owns its entry by then.         *)
Finish(p, r) ==
    /\ px' = [px EXCEPT ![p] = Completed(r)]
    /\ requestMap' = IF r.flag THEN requestMap
                     ELSE [requestMap EXCEPT ![r.sn] = NoProxy]

Keep(p, r) ==
    /\ px' = [px EXCEPT ![p] = r]
    /\ UNCHANGED requestMap

-------------------------------------------------------------------------------
\* The application: construct, send

(* newRequestProxy(), and the constructor's choice of the SN *)
NewRequest(p, k) ==
    /\ px[p].phase = "none"
    /\ px' = [px EXCEPT ![p].phase = "made", ![p].kind = k, ![p].sn = nextSn]
    /\ nextSn' = IF nextSn = MaxSN THEN 1 ELSE nextSn + 1
    /\ UNCHANGED requestMap

(* The query and alarm handlers construct their answer with the peer's SN.   *)
NewAnswer(p, s) ==
    /\ px[p].phase = "none"
    /\ px' = [px EXCEPT ![p].phase = "made", ![p].sn = s]
    /\ UNCHANGED <<requestMap, nextSn>>

Send(p) ==
    /\ px[p].phase = "made"
    /\ px' = [px EXCEPT ![p].phase = "sent", ![p].tx = "connecting"]
    /\ requestMap' = [requestMap EXCEPT ![px[p].sn] = p]
    /\ UNCHANGED nextSn

(* send() when the payload cannot be built: the map is not reached *)
SendPayloadFails(p) ==
    /\ "payload" \in Faults
    /\ px[p].phase = "made"
    /\ Finish(p, [px[p] EXCEPT !.phase = "sent", !.status = "Failed"])
    /\ UNCHANGED nextSn

(* uac_send3(): get_session() calls back and the transaction is sent *)
SessionReady(p) ==
    /\ px[p].tx = "connecting"
    /\ Keep(p, [px[p] EXCEPT !.tx = "calling"])
    /\ UNCHANGED nextSn

(* uac_send3(): no session or sip_uac_send() refused, the error callback *)
SessionFails(p) ==
    /\ "nosession" \in Faults
    /\ px[p].tx = "connecting"
    /\ Finish(p, [px[p] EXCEPT !.tx = "done", !.status = "Failed"])
    /\ UNCHANGED nextSn

-------------------------------------------------------------------------------
\* The reply: on_reply(), called for every reply, provisional ones included

FinalCodes == {"2xx", "408", "4xx"}   \* "408" stands for no reply at all, too

ReplyStatus(k, code) ==
    CASE code = "2xx" -> IF k = "NoResponse" THEN "Succeeded" ELSE "Replied"
      [] code = "408" -> "Timeout"
      [] OTHER        -> "Failed"

(* mutant: a list relies on the timer of the base class *)
OnReplyLNoListTimer(r) ==
    CASE r.kind = "List" -> [r EXCEPT !.fresh = TRUE]
      [] r.kind = "ConfigDownload" -> [r EXCEPT !.ltimer = TRUE]
      [] OTHER -> r

(* on_reply_l() of the derived classes: they start their own timer *)
OnReplyL(r) ==
    CASE r.kind = "List" ->
            [r EXCEPT !.fresh = TRUE, !.ltimer = @ \/ r.status = "Replied"]
      [] r.kind = "ConfigDownload" -> [r EXCEPT !.ltimer = TRUE]
      [] OTHER -> r

OnReply(p, code, tx) ==
    LET r == OnReplyL([px[p] EXCEPT !.status = ReplyStatus(px[p].kind, code), !.tx = tx])
    IN  /\ px[p].tx = "calling"
        /\ IF r.status # "Replied"
           THEN Finish(p, r)
           ELSE Keep(p, [r EXCEPT !.timer = TRUE])
        /\ UNCHANGED nextSn

FinalReply(p) == \E code \in FinalCodes : OnReply(p, code, "done")

ProvisionalReply(p) == "provisional" \in Faults /\ OnReply(p, "1xx", "calling")

-------------------------------------------------------------------------------
\* The responses: PlatformHelper::on_response() looks the SN up, on_response()

(* The peer answers a request it has got; p is the proxy found under the SN. *)
Delivers(p) ==
    /\ px[p].resp < MaxResponses
    /\ \E q \in Requests :
          /\ px[q].sn # 0
          /\ requestMap[px[q].sn] = p
          /\ px[q].tx = "done" \/ ("early" \in Faults /\ px[q].tx = "calling")

(* the part common to all types: cancel the timer, keep the response *)
Taken(r) == [r EXCEPT !.timer = FALSE, !.resp = @ + 1]

(* mutant: a response cancels the timer of the derived class, too *)
LoadedCancelsBoth(r) == [Taken(r) EXCEPT !.valid = @ + 1, !.ltimer = FALSE]

Loaded(r) == [Taken(r) EXCEPT !.valid = @ + 1]

(* mutant: the completion is not queued *)
MalformedForgotten(p) ==
    /\ "badxml" \in Faults
    /\ Delivers(p)
    /\ Keep(p, [Taken(px[p]) EXCEPT !.status = "Failed"])
    /\ UNCHANGED nextSn

MalformedResponse(p) ==
    /\ "badxml" \in Faults
    /\ Delivers(p)
    /\ Keep(p, [Taken(px[p]) EXCEPT !.status = "Failed", !.tasks = @ + 1])
    /\ UNCHANGED nextSn

(* RequestProxyImpl::on_response(): a single response completes from a task *)
PlainResponse(p) ==
    /\ px[p].kind \in {"NoResponse", "OneResponse"}
    /\ Delivers(p)
    /\ Keep(p, IF px[p].kind = "OneResponse"
               THEN [Loaded(px[p]) EXCEPT !.status = "Succeeded", !.tasks = @ + 1]
               ELSE Loaded(px[p]))
    /\ UNCHANGED nextSn

(* mutant: one item short *)
ListEndShort(r) == r.sumNum <= r.recvNum + 1

(* all SumNum items have come *)
ListEnd(r) == r.sumNum <= r.recvNum

(* RequestListImpl::on_response() *)
ListResponse(p, num, sum) ==
    LET r == [Loaded(px[p]) EXCEPT !.fresh = TRUE, !.recvNum = @ + num, !.sumNum = sum]
    IN  /\ px[p].kind = "List"
        /\ Delivers(p)
        /\ IF ListEnd(r)
           THEN Finish(p, [r EXCEPT !.ltimer = FALSE, !.status = "Succeeded"])
           ELSE Keep(p, r)
        /\ UNCHANGED nextSn

(* RequestConfigDownloadImpl::on_response().  A response without a type and  *)
(* with a result other than OK fails the request; an exception of the        *)
(* callback is answered with 500 and skips on_completed().                   *)
ConfigResponse(p, types, ok, throws) ==
    LET got  == px[p].recvTypes \cup types
        end  == got = Requested
        r    == [Loaded(px[p]) EXCEPT
                    !.recvTypes = got,
                    !.ltimer = @ /\ ~end,
                    !.status = IF end THEN "Succeeded" ELSE @]
    IN  /\ px[p].kind = "ConfigDownload"
        /\ throws => "throw" \in Faults
        /\ Delivers(p)
        /\ IF types = {} /\ ~ok
           THEN Finish(p, [r EXCEPT !.ltimer = FALSE, !.status = "Failed"])
           ELSE IF throws THEN Keep(p, [r EXCEPT !.threw = TRUE])
           ELSE IF end THEN Finish(p, r)
           ELSE Keep(p, r)
        /\ UNCHANGED nextSn

-------------------------------------------------------------------------------
\* Queued tasks and timers

RunTask(p) ==
    /\ px[p].tasks > 0
    /\ Finish(p, [px[p] EXCEPT !.tasks = @ - 1])
    /\ UNCHANGED nextSn

(* the 5 s timer of on_reply() *)
TimerFires(p) ==
    LET r == [px[p] EXCEPT !.timer = FALSE]
    IN  /\ px[p].timer
        /\ IF r.status = "Replied"
           THEN Finish(p, [r EXCEPT !.status = "Timeout"])
           ELSE Keep(p, r)
        /\ UNCHANGED nextSn

(* the 10 s periodic timer of a list: go on if the last response is recent *)
ListTimerTick(p) ==
    /\ px[p].kind = "List" /\ px[p].ltimer
    /\ Alive(p) /\ px[p].fresh
    /\ Keep(p, [px[p] EXCEPT !.fresh = FALSE])
    /\ UNCHANGED nextSn

(* the same timer when ticker_ shows more than 5 s: no look at status_ *)
ListTimerExpires(p) ==
    /\ px[p].kind = "List" /\ px[p].ltimer
    /\ Alive(p)
    /\ Finish(p, [px[p] EXCEPT !.ltimer = FALSE, !.status = "Timeout"])
    /\ UNCHANGED nextSn

(* the 5 s timer of a configuration download completes in any case *)
ConfigTimerFires(p) ==
    /\ px[p].kind = "ConfigDownload" /\ px[p].ltimer
    /\ Alive(p)
    /\ Finish(p, [px[p] EXCEPT !.ltimer = FALSE,
                               !.status = IF @ = "Replied" THEN "Timeout" ELSE @])
    /\ UNCHANGED nextSn

(* either of them finds its weak_ptr expired and stops *)
TimerOrphaned(p) ==
    /\ px[p].ltimer /\ ~Alive(p)
    /\ Keep(p, [px[p] EXCEPT !.ltimer = FALSE])
    /\ UNCHANGED nextSn

-------------------------------------------------------------------------------

App(p) == \/ p \in Requests /\ \E k \in Kinds : NewRequest(p, k)
          \/ p \in Answers /\ \E s \in SNs : NewAnswer(p, s)
          \/ Send(p)
          \/ SendPayloadFails(p)

Session(p) == SessionReady(p) \/ SessionFails(p)

Response(p) ==
    \/ MalformedResponse(p)
    \/ PlainResponse(p)
    \/ \E num, sum \in 0..MaxItems : ListResponse(p, num, sum)
    \/ \E types \in SUBSET ConfigTypes, ok, throws \in BOOLEAN :
          ConfigResponse(p, types, ok, throws)

DerivedTimer(p) == \/ ListTimerTick(p)
                   \/ ListTimerExpires(p)
                   \/ ConfigTimerFires(p)
                   \/ TimerOrphaned(p)

Next == \E p \in Proxies : \/ App(p)
                           \/ Session(p)
                           \/ FinalReply(p)
                           \/ ProvisionalReply(p)
                           \/ Response(p)
                           \/ RunTask(p)
                           \/ TimerFires(p)
                           \/ DerivedTimer(p)

Spec == Init /\ [][Next]_vars

(* What the program schedules itself is fair: connecting ends, the SIP stack *)
(* reports a final reply or 408 for every transaction, timers and tasks run. *)
(* Nothing obliges the application to send or the peer to respond.           *)
Fairness == \A p \in Proxies : /\ WF_vars(Session(p))
                               /\ WF_vars(FinalReply(p))
                               /\ WF_vars(RunTask(p))
                               /\ WF_vars(TimerFires(p))
                               /\ WF_vars(DerivedTimer(p))

FairSpec == Spec /\ Fairness

-------------------------------------------------------------------------------
\* What a request promises: RequestPromise

Phase(p) == IF px[p].flag THEN "settled"
            ELSE IF px[p].phase = "sent" THEN "open" ELSE "idle"

Promise == INSTANCE RequestPromise
              WITH state   <- [p \in Proxies |-> Phase(p)],
                   outcome <- [p \in Proxies |-> px[p].told],
                   Outcomes <- Final

(* A proxy in sequence with its peer keeps the promise of RequestPromise:    *)
(* one outcome, final, for every request that is sent.                       *)
KeepsPromise == Promise!Spec

-------------------------------------------------------------------------------
\* Properties

(* Every variable has its type. *)
TypeOK == /\ px \in [Proxies -> ProxyState]
          /\ requestMap \in [SNs -> Proxies \cup {NoProxy}]
          /\ nextSn \in SNs

(* However replies, responses, tasks and timers race, the result callback    *)
(* has run exactly as often as result_flag_ says: never twice, and never     *)
(* before send().                                                            *)
CallbackOnce ==
    \A p \in Proxies : /\ px[p].calls = IF px[p].flag THEN 1 ELSE 0
                       /\ px[p].flag => px[p].phase = "sent"

(* p and another proxy that has been sent carry the same SN. *)
Shares(p) == \E q \in Proxies \ {p} : px[q].phase = "sent" /\ px[q].sn = px[p].sn

(* request_map_ routes to open requests only, each under its own SN, and     *)
(* every open request whose SN no other proxy used is found there.           *)
MapRoutesOpenRequests ==
    /\ \A s \in SNs : \A p \in Proxies :
          requestMap[s] = p => px[p].sn = s /\ px[p].phase = "sent" /\ ~px[p].flag
    /\ \A p \in Proxies :
          px[p].phase = "sent" /\ ~px[p].flag /\ ~Shares(p) => requestMap[px[p].sn] = p

(* An open request always has something left that will end it: a transaction *)
(* in progress, a queued task, an armed timer whose handler acts.  (A proxy  *)
(* that may have lost its map entry to another one and a proxy whose         *)
(* callback threw are exempt: both can be left without an end.)              *)
NoLostWakeup ==
    \A p \in Proxies :
        px[p].phase = "sent" /\ ~px[p].flag /\ ~Shares(p) /\ ~px[p].threw =>
            \/ px[p].tx \in {"connecting", "calling"}
            \/ px[p].tasks > 0
            \/ px[p].timer /\ px[p].status = "Replied"
            \/ px[p].ltimer /\ Alive(p)

(* The callback is told Succeeded only for a request whose answer is there:  *)
(* a loaded response, all SumNum items of a list, all requested types.       *)
SuccessIsComplete ==
    \A p \in Proxies : px[p].told = "Succeeded" =>
        CASE px[p].kind = "NoResponse"     -> px[p].tx = "done"
          [] px[p].kind = "OneResponse"    -> px[p].valid > 0
          [] px[p].kind = "List"           -> px[p].valid > 0 /\ px[p].sumNum <= px[p].recvNum
          [] px[p].kind = "ConfigDownload" -> px[p].valid > 0 /\ Requested \subseteq px[p].recvTypes

(* If no response overtakes the reply, no 1xx comes and the SN is its own,   *)
(* the status the callback reads is a final one and never changes again.     *)
OutcomeIsFinal ==
    \A p \in Proxies : px[p].flag /\ ~Shares(p) =>
        px[p].told \in Final /\ px[p].status = px[p].told

(* Every request that is sent is completed, with the two exemptions of       *)
(* NoLostWakeup.                                                             *)
SentCompletes ==
    \A p \in Proxies : px[p].phase = "sent" ~> px[p].flag \/ px[p].threw \/ Shares(p)

===============================================================================

------------------------------ MODULE QueryAnswer ------------------------------
(***************************************************************************)
(* How a platform answers a query of its superior: OneResponseQueryHandler *)
(* and MultiResponseQueryHandler of src/super_platform_impl.cpp, for one   *)
(* query.                                                                  *)
(*                                                                         *)
(* The handler puts the query to the application together with a callback, *)
(* and arms a timer that calls the same callback with an error answer.     *)
(* Application and timer run on threads of their own; the application may  *)
(* call back at any time and more than once.  The callback of a query with *)
(* several responses takes a queue of messages and starts `concurrency'    *)
(* chains: a chain sends a message, and when that has been replied to, the *)
(* reply's poller goes on with the next one.  Chains meet at the queue,    *)
(* which has a mutex, and at the flag that ends them all, which is read    *)
(* before the mutex is taken.                                              *)
(*                                                                         *)
(* A message is sent as a NoResponse request (RequestProxy), of which only *)
(* the outcome is kept: every request ends.  Left out: what the messages   *)
(* say, and a callback with a negative concurrency, which sends nothing.   *)
(***************************************************************************)
EXTENDS Integers, Sequences, FiniteSets

CONSTANTS
    Chains,       \* do_send_response chains
    MaxParts,     \* bound: messages of an answer
    SNs,          \* serial numbers
    MaxCalls,     \* bound: calls of the callback by the application
    Handlers,     \* which of the handler templates are at work
    Outcomes      \* how a message may fare, see OutcomeNames

OutcomeNames == { "ok",        \* 200
                  "refused",   \* 4xx, not 408
                  "failed" }   \* 408 or 5xx, no reply, or it could not be sent

ASSUME QueryAssumption ==
    /\ IsFiniteSet(Chains) /\ Chains \subseteq Nat \ {0}
    /\ MaxParts \in Nat \ {0} /\ MaxCalls \in Nat /\ SNs \subseteq Nat \ {0}
    /\ Handlers \subseteq {"one", "multi"}
    /\ Outcomes \subseteq OutcomeNames

VARIABLES
    query,   \* the query: handler, SN, and the SIP code it was replied to with
    ownSn,   \* what get_new_sn() of the platform will return
    timer,   \* ctx->timeout
    taken,   \* ctx->flag
    answer,  \* what the callback was called with
    next,    \* ctx->responses holds the parts next..answer.parts
    stop,    \* the flag that ends the chains
    begun,   \* chains the callback's loop has started
    chain,   \* the chains
    sent,    \* the messages handed to send(), in order (observer); late: when
             \* the flag that ends the chains was set
    alive,   \* the platform object exists
    calls    \* calls of the callback by the application

vars == <<query, ownSn, timer, taken, answer, next, stop, begun, chain, sent, alive, calls>>

Query  == [kind : {"one", "multi"}, sn : SNs, code : {0, 200, 400, 404}]
Answer == [by : {"nobody", "app", "timer"}, parts : 0..MaxParts,
           width : Nat, ignore : BOOLEAN]

(* at      what the chain does next                                        *)
(* first   it is still run by the callback's loop, which waits for it      *)
Chain   == [at : {"idle", "check", "take", "send", "wait", "over"},
            first : BOOLEAN, part : 0..MaxParts]
Message == [part : 1..MaxParts, sn : SNs, by : {"app", "timer"}, late : BOOLEAN]

(* why the chains are to end, the flag being set for all but "no" (which of  *)
(* several reasons came first is for the properties)                         *)
Stops == {"no", "empty", "gone"} \cup OutcomeNames

Init ==
    /\ query \in [kind : Handlers, sn : SNs, code : {0}]
    /\ ownSn \in SNs
    /\ timer = "none"
    /\ taken = FALSE
    /\ answer = [by |-> "nobody", parts |-> 0, width |-> 0, ignore |-> FALSE]
    /\ next = 1
    /\ stop = "no"
    /\ begun = 0
    /\ chain = [c \in Chains |-> [at |-> "idle", first |-> TRUE, part |-> 0]]
    /\ sent = <<>>
    /\ alive = TRUE
    /\ calls = 0

-------------------------------------------------------------------------------
\* The query

(* process(): the XML is refused, nobody listens, or the application is asked *)
Process ==
    /\ query.code = 0
    /\ \/ /\ query' \in {[query EXCEPT !.code = 400], [query EXCEPT !.code = 404]}
          /\ UNCHANGED timer
       \/ query' = [query EXCEPT !.code = 200] /\ timer' = "armed"
    /\ UNCHANGED <<ownSn, taken, answer, next, stop, begun, chain, sent, alive, calls>>

-------------------------------------------------------------------------------
\* The callback

(* mutant: the flag is that of the chains *)
FirstLate == ~taken \/ stop # "no"

(* flag.test_and_set() *)
First == ~taken

(* the callback takes the messages, cancels the timer and starts the chains; *)
(* one message needs one chain, and concurrency 0 starts one too             *)
Takes(who, parts, width, ignore) ==
    /\ taken' = TRUE
    /\ answer' = [by |-> who, parts |-> parts, ignore |-> ignore,
                  width |-> IF width = 0 THEN 1 ELSE width]
    /\ next' = 1 /\ begun' = 0 /\ stop' = "no"
    /\ chain' = [c \in Chains |-> [at |-> "idle", first |-> TRUE, part |-> 0]]

Widths == {0} \cup {c \in Chains : c < Cardinality(Chains)}

(* the application answers, at any time after it was asked *)
AppAnswers ==
    /\ query.code = 200 /\ calls < MaxCalls
    /\ calls' = calls + 1
    /\ IF First
       THEN /\ timer' = "none"
            /\ \E parts \in 0..MaxParts, width \in Widths, ignore \in BOOLEAN :
                 /\ query.kind = "one" => parts = 1 /\ width = 1 /\ ~ignore
                 /\ Takes("app", parts, width, ignore)
       ELSE UNCHANGED <<timer, taken, answer, next, stop, begun, chain>>
    /\ UNCHANGED <<query, ownSn, sent, alive>>

(* GB28181_QUERY_TIMEOUT_MS have passed *)
TimerAnswers ==
    /\ timer = "armed"
    /\ timer' = "none"
    /\ IF First THEN Takes("timer", 1, 1, TRUE)
                ELSE UNCHANGED <<taken, answer, next, stop, begun, chain>>
    /\ UNCHANGED <<query, ownSn, sent, alive, calls>>

-------------------------------------------------------------------------------
\* The chains: do_send_response

Goes(c, to) == chain' = [chain EXCEPT ![c].at = to]

(* flag->exchange(true) *)
Ends(why) == stop' = IF stop = "no" THEN why ELSE stop

(* mutant: i <= concurrency *)
WidthAndOne == answer.width + 1

(* how many chains the loop starts *)
Width == answer.width

(* the loop starts the next chain when the previous call has returned *)
Begin(c) ==
    /\ taken /\ c = begun + 1 /\ c <= Width
    /\ \A d \in Chains : chain[d].first => chain[d].at \in {"idle", "wait", "over"}
    /\ begun' = c
    /\ Goes(c, "check")
    /\ UNCHANGED <<query, ownSn, timer, taken, answer, next, stop, sent, alive, calls>>

(* mutant: the flag is not read *)
AfterCheckAlways == "take"

(* the flag is read; one response is sent without looking at it *)
AfterCheck == IF stop # "no" /\ query.kind = "multi" THEN "over" ELSE "take"

Check(c) ==
    /\ chain[c].at = "check"
    /\ Goes(c, AfterCheck)
    /\ UNCHANGED <<query, ownSn, timer, taken, answer, next, stop, begun, sent, alive, calls>>

(* !responses.empty() *)
HasMore == next <= answer.parts

(* the front of the queue is taken under the mutex; an empty queue ends all *)
Take(c) ==
    /\ chain[c].at = "take"
    /\ IF HasMore
       THEN /\ chain' = [chain EXCEPT ![c].at = "send", ![c].part = next]
            /\ next' = next + 1 /\ UNCHANGED stop
       ELSE Ends("empty") /\ Goes(c, "over") /\ UNCHANGED next
    /\ UNCHANGED <<query, ownSn, timer, taken, answer, begun, sent, alive, calls>>

(* RequestProxyImpl::send() puts the proxy's own SN into the message: the    *)
(* query's for several responses, a new one where the proxy was given none   *)
SentSn == IF query.kind = "multi" THEN query.sn ELSE ownSn

(* the message is handed to a RequestProxy, if there is still a platform *)
Send(c) ==
    /\ chain[c].at = "send"
    /\ IF alive
       THEN /\ sent' = Append(sent, [part |-> chain[c].part, sn |-> SentSn,
                                   by |-> answer.by, late |-> stop # "no"])
            /\ Goes(c, "wait") /\ UNCHANGED stop
       ELSE Ends("gone") /\ Goes(c, "over") /\ UNCHANGED sent
    /\ UNCHANGED <<query, ownSn, timer, taken, answer, next, begun, alive, calls>>

(* mutant: ignore_4xx is not looked at *)
GoesOnNever(how) == how = "ok"

(* SIP_IS_SIP_CLIENT_ERROR(code) && code != 408 may be ignored *)
GoesOn(how) == how = "ok" \/ (how = "refused" /\ answer.ignore)

(* the message was replied to, on the poller of the session, or given up: *)
(* the chain goes on, or ends all; one response was all there is to send  *)
Completed(c, how) ==
    /\ chain[c].at = "wait"
    /\ IF GoesOn(how) /\ query.kind = "multi"
       THEN /\ chain' = [chain EXCEPT ![c].at = "check", ![c].first = FALSE]
            /\ UNCHANGED stop
       ELSE Ends(how) /\ chain' = [chain EXCEPT ![c].at = "over", ![c].first = FALSE]
    /\ UNCHANGED <<query, ownSn, timer, taken, answer, next, begun, sent, alive, calls>>

(* the application drops the platform *)
Destroyed ==
    /\ alive /\ alive' = FALSE
    /\ UNCHANGED <<query, ownSn, timer, taken, answer, next, stop, begun, chain, sent, calls>>

-------------------------------------------------------------------------------
Step(c) == Begin(c) \/ Check(c) \/ Take(c) \/ Send(c) \/ \E how \in Outcomes : Completed(c, how)

Next == Process \/ AppAnswers \/ TimerAnswers \/ Destroyed \/ \E c \in Chains : Step(c)

Spec == Init /\ [][Next]_vars

(* Timers fire, threads run on, and every request comes to an end; nobody   *)
(* makes the application answer.                                            *)
FairSpec == Spec /\ WF_vars(TimerAnswers) /\ \A c \in Chains : WF_vars(Step(c))

-------------------------------------------------------------------------------
\* Properties

(* Every variable keeps its type. *)
TypeOK ==
    /\ query \in Query /\ ownSn \in SNs /\ timer \in {"none", "armed"}
    /\ taken \in BOOLEAN /\ answer \in Answer /\ next \in 1..(MaxParts + 1)
    /\ stop \in Stops /\ begun \in Nat /\ chain \in [Chains -> Chain]
    /\ sent \in Seq(Message) /\ alive \in BOOLEAN /\ calls \in 0..MaxCalls

(* Application and timer race to answer, and only one of them does: nothing  *)
(* is sent for a query that was refused, everything sent is from the one     *)
(* answer, and no message of it is sent twice (ctx->flag and the mutex).     *)
AnsweredOnce ==
    /\ sent # <<>> => query.code = 200 /\ taken
    /\ \A i \in DOMAIN sent : sent[i].by = answer.by /\ sent[i].part < next
    /\ \A i, j \in DOMAIN sent : sent[i].part = sent[j].part => i = j

(* The messages go out in the order the application gave them, but for what  *)
(* `concurrency' chains may overtake: a message is at most concurrency - 1   *)
(* places ahead (sip_event.h:101).                                           *)
InOrder == \A i \in DOMAIN sent : sent[i].part < i + answer.width

(* When a message fails, the chains end: each of the others has at most the  *)
(* message still in its hands to send.                                       *)
StopsSoon == taken => Cardinality({i \in DOMAIN sent : sent[i].late}) < answer.width

AllSent == {sent[i].part : i \in DOMAIN sent} = 1..answer.parts

(* A query that was accepted is answered, by the timer if not by the         *)
(* application, and in full unless the platform goes away or a message fails *)
(* in a way that the application has not asked to ignore.                    *)
GetsAnswered == query.code = 200 ~> \/ ~alive
                                    \/ stop = "failed"
                                    \/ (stop = "refused" /\ ~answer.ignore)
                                    \/ (taken /\ AllSent)

(* A query is a request with one response (request_proxy.h:32): what the     *)
(* platform sends as the answer carries the SN by which the asker finds it.  *)
FindsQuery == \A i \in DOMAIN sent : sent[i].sn = query.sn

===============================================================================

---------------------------- MODULE InviteSession ----------------------------
(***************************************************************************)
(* One INVITE session between two instances of the library: the caller     *)
(* that runs to_invite_request() and the callee that runs                  *)
(* on_recv_invite(), both an InviteRequestImpl of                          *)
(* src/request/invite_request_impl.cpp, and the messages between them.     *)
(*                                                                         *)
(* Each end keeps a status, and an entry in invite_request_map_ under its  *)
(* own address: a message of the dialog reaches an end only through that   *)
(* entry.  Nothing locks an end: a thread that has looked it up, or has    *)
(* begun to_bye(), calls set_status() later.  at[e][t] is what thread t is *)
(* about to do to e; other threads run in between.  A thread is not cut    *)
(* where no other one can tell: to_bye() looks at the status and sends in  *)
(* one step, on_invite_reply() finds the end and resets the transaction.   *)
(*                                                                         *)
(* libsip is external: it delivers a message once, handles the replies of  *)
(* a transaction one after the other, gives up an INVITE without a final   *)
(* reply (408), and ties an end to its dialog when the callee gets the     *)
(* INVITE or the caller its final reply.  The ACK of an INVITE comes on    *)
(* the session of the INVITE, the other requests of the peer on the one    *)
(* the peer's platform has then, so that they overtake each other.  The    *)
(* platform outlives the INVITE session; the application answers an INVITE *)
(* once, and calls to_bye() from one thread and after to_invite_request()  *)
(* has returned.                                                           *)
(***************************************************************************)
EXTENDS Naturals

CONSTANT Faults   \* what may happen besides the plain exchange

FaultNames == { "ackloss",     \* an ACK is lost
                "send",        \* an INVITE, BYE or CANCEL that cannot be sent
                "sdp",         \* an SDP that cannot be generated or parsed
                "teardown",    \* the peer sends an INFO with a TEARDOWN
                "earlybye" }   \* the callee is ended before its answer has run

ASSUME InviteAssumption == Faults \subseteq FaultNames

VARIABLES
    end,       \* the two InviteRequestImpl objects
    invite,    \* the INVITE client transaction
    answer,    \* the answer of the application, a task of the callee's poller
    answered,  \* the final reply of the INVITE server transaction
    ackTimer,  \* the 5 s task that waits for the ACK
    at,        \* at[e][t]: what thread t is about to do to e
    net,       \* net[e][m]: how many m are on their way to e
    refused,   \* live ends that have answered a BYE or CANCEL with 481 (observer)
    unsent,    \* ends whose BYE or CANCEL to a live peer was not sent (observer)
    raced      \* live ends that were over before (observer)

vars == <<end, invite, answer, answered, ackTimer, at, net, refused, unsent, raced>>
serverVars == <<answer, answered, ackTimer>>
observers == <<refused, unsent, raced>>

Ends == {"caller", "callee"}
Peer(e) == IF e = "caller" THEN "callee" ELSE "caller"

Live     == {"invite", "trying", "ack"}
Ended    == {"bye", "cancel", "failed"}
Answers  == {"ok", "error"}
Requests == {"INVITE", "ACK", "BYE", "CANCEL"}
Replies  == {"100", "200", "4xx"}
Messages == Requests \cup Replies
InviteStates == {"new", "unsent", "connecting", "calling", "done"}

(* user    the application, a destructor                                   *)
(* reply   on_invite_reply(), or the callback of uac_send2()               *)
(* task    handle_reply()         timer   the 5 s task                     *)
(* ACK     on_recv_ack()          peer    the other requests of the peer   *)
Threads == {"user", "reply", "task", "timer", "ACK", "peer"}

(* ok        on_invite_reply() has a 2xx and has reset the transaction     *)
(* a status  set_status() is called with it                                *)
Phases == Live \cup Ended \cup {"idle", "ok"}

(* made    the object exists                                               *)
(* mapped  it is in invite_request_map_                                    *)
(* tx      uac_invite_transaction_ is set                                  *)
(* dialog  invite_dialog_ is set, and the session of the dialog is this end *)
EndState == [made : BOOLEAN, status : Live \cup Ended, mapped : BOOLEAN,
             tx : BOOLEAN, dialog : BOOLEAN]

Init ==
    /\ end = [e \in Ends |-> [made |-> e = "caller", status |-> "invite",
                              mapped |-> FALSE, tx |-> FALSE, dialog |-> FALSE]]
    /\ invite = "new"
    /\ answer = "none"
    /\ answered = "none"
    /\ ackTimer = FALSE
    /\ at = [e \in Ends |-> [t \in Threads |-> "idle"]]
    /\ net = [e \in Ends |-> [m \in Messages |-> 0]]
    /\ refused = {} /\ unsent = {} /\ raced = {}

-------------------------------------------------------------------------------
\* The network

Sends(e, m) == net' = [net EXCEPT ![Peer(e)][m] = @ + 1]

(* e gets an m, in any order *)
Receives(e, m) == net[e][m] > 0 /\ net' = [net EXCEPT ![e][m] = @ - 1]

(* e gets an m and answers it *)
Exchanges(e, m, reply) ==
    /\ net[e][m] > 0
    /\ net' = [net EXCEPT ![e][m] = @ - 1, ![Peer(e)][reply] = @ + 1]

-------------------------------------------------------------------------------
\* The object and its threads

Goto(e, t, p) == at' = [at EXCEPT ![e][t] = p]

Idle(e) == \A t \in Threads : at[e][t] = "idle"

(* threads that are about to set e to a live status *)
Reviving(e) == {t \in Threads : at[e][t] \in Live \cup {"ok"}}

(* the observers remember what concerns e until e is over *)
Observe(e, s) ==
    IF s \in Ended
    THEN refused' = refused \ {e} /\ unsent' = unsent \ {Peer(e)} /\ raced' = raced \ {e}
    ELSE /\ raced' = IF end[e].status \in Ended THEN raced \cup {e} ELSE raced
         /\ UNCHANGED <<refused, unsent>>

(* mutant: an end that is over stays in the map *)
SetStatusKeepsEntry(e, t) ==
    /\ at[e][t] \in Live \cup Ended
    /\ end' = [end EXCEPT ![e].status = at[e][t]]
    /\ Observe(e, at[e][t])
    /\ Goto(e, t, "idle")
    /\ UNCHANGED <<invite, serverVars, net>>

(* set_status(): no status refuses another one.  It reads the status again   *)
(* and removes the entry of an end that is over; a live status that another  *)
(* thread assigns in between saves the entry.                                *)
SetStatus(e, t) ==
    /\ at[e][t] \in Live \cup Ended
    /\ \E kept \in BOOLEAN :
          /\ at[e][t] \in Live => kept
          /\ kept => Reviving(e) # {}
          /\ end' = [end EXCEPT ![e].status = at[e][t], ![e].mapped = @ /\ kept]
    /\ Observe(e, at[e][t])
    /\ Goto(e, t, "idle")
    /\ UNCHANGED <<invite, serverVars, net>>

(* a BYE or CANCEL that is not sent *)
SendsNothing(e) ==
    /\ unsent' = IF end[Peer(e)].status \in Ended THEN unsent ELSE unsent \cup {e}
    /\ UNCHANGED net

(* to_bye() sends what ends the session; nobody hears of a failure *)
SendsEnd(e) ==
    \/ end[e].tx /\ Sends(e, "CANCEL") /\ UNCHANGED unsent
    \/ ~end[e].tx /\ end[e].dialog /\ Sends(e, "BYE") /\ UNCHANGED unsent
    \/ ((~end[e].tx /\ ~end[e].dialog) \/ "send" \in Faults) /\ SendsNothing(e)

(* to_bye(), called by t, until it calls set_status() *)
ToBye(e, t) ==
    /\ at[e][t] = "idle"
    /\ end[e].status \in Live
    /\ SendsEnd(e)
    /\ Goto(e, t, IF end[e].dialog /\ ~end[e].tx THEN "bye" ELSE "cancel")

-------------------------------------------------------------------------------
\* The caller

(* to_invite_request(); the INVITE waits for a session *)
ToInviteRequest ==
    /\ invite = "new"
    /\ end' = [end EXCEPT !["caller"].tx = TRUE, !["caller"].mapped = TRUE]
    /\ invite' = "connecting"
    /\ UNCHANGED <<serverVars, at, net, observers>>

(* to_invite_request() without a local SDP: the transaction stays set *)
ToInviteRequestWithoutSdp ==
    /\ "sdp" \in Faults
    /\ invite = "new"
    /\ end' = [end EXCEPT !["caller"].tx = TRUE]
    /\ invite' = "unsent"
    /\ UNCHANGED <<serverVars, at, net, observers>>

InviteSent ==
    /\ invite = "connecting"
    /\ invite' = "calling"
    /\ Sends("caller", "INVITE")
    /\ UNCHANGED <<end, serverVars, at, observers>>

(* mutant: the error is only handed to rcb_ *)
InviteNotSentQuiet ==
    /\ "send" \in Faults
    /\ invite = "connecting"
    /\ invite' = "done"
    /\ UNCHANGED <<end, serverVars, at, net, observers>>

(* the callback of uac_send2() with an error; rcb_ is still set *)
InviteNotSent ==
    /\ "send" \in Faults
    /\ invite = "connecting"
    /\ invite' = "done"
    /\ Goto("caller", "reply", "failed")
    /\ UNCHANGED <<end, serverVars, net, observers>>

(* on_invite_reply(): the thread goes on to p; a session that is not in the  *)
(* map ignores the reply                                                     *)
TakeReply(p) ==
    /\ at["caller"]["reply"] = "idle"
    /\ invite = "calling"
    /\ IF end["caller"].mapped THEN Goto("caller", "reply", p) ELSE UNCHANGED at
    /\ UNCHANGED <<serverVars, observers>>

TryingReply ==
    TakeReply("trying") /\ Receives("caller", "100") /\ UNCHANGED <<end, invite>>

(* mutant: the transaction is kept *)
TakeFinalReplyKeepsTx(p) == TakeReply(p) /\ invite' = "done" /\ UNCHANGED end

(* on_invite_reply(): CANCEL is not possible any more *)
TakeFinalReply(p) ==
    /\ TakeReply(p)
    /\ invite' = "done"
    /\ end' = [end EXCEPT !["caller"].tx = @ /\ ~end["caller"].mapped]

(* mutant: the 200 of a session that was given up is acknowledged, too *)
OkReplyAlwaysAcks ==
    /\ TakeFinalReply("ok")
    /\ IF end["caller"].mapped
       THEN Receives("caller", "200") ELSE Exchanges("caller", "200", "ACK")

OkReply == TakeFinalReply("ok") /\ Receives("caller", "200")

ErrorReply == TakeFinalReply("failed") /\ Receives("caller", "4xx")

(* libsip gives up: on_invite_reply() with 408 *)
InviteTimeout == TakeFinalReply("failed") /\ UNCHANGED net

(* on_invite_reply() keeps the dialog of the 2xx and acknowledges *)
SendAck ==
    /\ at["caller"]["reply"] = "ok"
    /\ end' = [end EXCEPT !["caller"].dialog = TRUE]
    /\ Sends("caller", "ACK")
    /\ Goto("caller", "reply", "ack")
    /\ UNCHANGED <<invite, serverVars, observers>>

(* the SDP of the 2xx cannot be parsed, or the ACK not sent: to_bye(), whose *)
(* status failed replaces at once                                            *)
OkOfNoUse ==
    /\ Faults \cap {"sdp", "send"} # {}
    /\ at["caller"]["reply"] = "ok"
    /\ end' = [end EXCEPT !["caller"].dialog = TRUE]
    /\ IF end["caller"].status \notin Live THEN UNCHANGED <<net, unsent>>
       ELSE \/ Sends("caller", "BYE") /\ UNCHANGED unsent
            \/ "send" \in Faults /\ SendsNothing("caller")
    /\ Goto("caller", "reply", "failed")
    /\ UNCHANGED <<invite, serverVars, refused, raced>>

(* libsip drops a reply to a transaction that is over *)
LateReply ==
    /\ invite = "done"
    /\ \E m \in Replies : Receives("caller", m)
    /\ UNCHANGED <<end, invite, serverVars, at, observers>>

(* to_bye(), to_teardown() with a dialog, or the destructor of an object     *)
(* nothing refers to                                                         *)
CallerBye ==
    /\ invite # "new"
    /\ ToBye("caller", "user")
    /\ UNCHANGED <<end, invite, serverVars, refused, raced>>

-------------------------------------------------------------------------------
\* The callee

(* on_recv_invite() with an SDP of no use, or for an unknown platform *)
InviteRefused ==
    /\ Exchanges("callee", "INVITE", "4xx")
    /\ answered' = "4xx"
    /\ UNCHANGED <<end, invite, answer, ackTimer, at, observers>>

(* on_recv_invite(): 100 and on_invite(); the object is not in the map yet *)
InviteAccepted ==
    /\ Exchanges("callee", "INVITE", "100")
    /\ end' = [end EXCEPT !["callee"].made = TRUE, !["callee"].dialog = TRUE]
    /\ UNCHANGED <<invite, serverVars, at, observers>>

(* the application answers: handle_reply() is queued to the session's poller *)
GiveAnswer(a) ==
    /\ end["callee"].made
    /\ answer = "none"
    /\ answer' = a
    /\ UNCHANGED <<end, invite, answered, ackTimer, at, net, observers>>

(* a server transaction sends one final reply *)
Reply(code) ==
    /\ answered' = IF answered = "none" THEN code ELSE answered
    /\ IF answered = "none" THEN Sends("callee", code) ELSE UNCHANGED net

(* handle_reply() runs; its weak_ptr has expired *)
AnswerExpired ==
    /\ answer \in Answers /\ ~end["callee"].made
    /\ answer' = "run"
    /\ UNCHANGED <<end, invite, answered, ackTimer, at, net, observers>>

(* mutant: the session is not entered in the map *)
AnswerOkNoEntry ==
    /\ answer = "ok" /\ end["callee"].made
    /\ answer' = "entered"
    /\ UNCHANGED <<end, invite, answered, ackTimer, at, net, observers>>

(* handle_reply() with 2xx and an SDP: the entry, whatever the status *)
AnswerOk ==
    /\ answer = "ok" /\ end["callee"].made
    /\ end' = [end EXCEPT !["callee"].mapped = TRUE]
    /\ answer' = "entered"
    /\ UNCHANGED <<invite, answered, ackTimer, at, net, observers>>

(* mutant: nobody waits for the ACK *)
ReplyOkNoTimer ==
    /\ answer = "entered"
    /\ answer' = "run"
    /\ Reply("200")
    /\ UNCHANGED <<end, invite, ackTimer, at, observers>>

(* ... then the 200 and the wait for the ACK *)
ReplyOk ==
    /\ answer = "entered"
    /\ answer' = "run"
    /\ Reply("200")
    /\ ackTimer' = TRUE
    /\ UNCHANGED <<end, invite, at, observers>>

(* handle_reply() with an error, or without an SDP *)
AnswerError ==
    /\ answer = "error" /\ end["callee"].made
    /\ answer' = "run"
    /\ Reply("4xx")
    /\ Goto("callee", "task", "failed")
    /\ UNCHANGED <<end, invite, ackTimer, observers>>

(* the 5 s task of handle_reply() *)
AckTimeout ==
    /\ ackTimer
    /\ ackTimer' = FALSE
    /\ IF end["callee"].made /\ end["callee"].status \in Live \ {"ack"}
       THEN ToBye("callee", "timer") ELSE UNCHANGED <<at, net, unsent>>
    /\ UNCHANGED <<end, invite, answer, answered, refused, raced>>

(* to_bye() of the application *)
CalleeBye ==
    /\ end["callee"].made
    /\ answer = "run" \/ "earlybye" \in Faults
    /\ ToBye("callee", "user")
    /\ UNCHANGED <<end, invite, serverVars, refused, raced>>

(* nothing refers to the object any more: the destructor ends the session *)
CalleeDestroyed ==
    /\ end["callee"].made /\ ~end["callee"].mapped
    /\ Idle("callee") /\ answer # "entered"
    /\ IF end["callee"].status \in Live
       THEN SendsEnd("callee") ELSE UNCHANGED <<net, unsent>>
    /\ end' = [end EXCEPT !["callee"].made = FALSE,
                          !["callee"].status = IF @ \in Live THEN "bye" ELSE @]
    /\ UNCHANGED <<invite, serverVars, at, refused, raced>>

-------------------------------------------------------------------------------
\* Requests within the dialog

(* on_recv_bye(), on_recv_cancel(): 481 from an end that is not in the map.  *)
(* Before its final reply the dialog of the caller has no session.           *)
RecvEnd(e, s) ==
    /\ at[e]["peer"] = "idle"
    /\ IF end[e].mapped /\ end[e].dialog
       THEN Goto(e, "peer", s) /\ UNCHANGED refused
       ELSE /\ refused' = IF end[e].status \in Ended THEN refused ELSE refused \cup {e}
            /\ UNCHANGED at
    /\ UNCHANGED <<end, invite, answer, ackTimer, unsent, raced>>

RecvBye(e) == RecvEnd(e, "bye") /\ Receives(e, "BYE") /\ UNCHANGED answered

(* libsip may end the INVITE transaction itself when it is cancelled, then   *)
(* with 487                                                                  *)
RecvCancel ==
    /\ RecvEnd("callee", "cancel")
    /\ \/ Receives("callee", "CANCEL") /\ UNCHANGED answered
       \/ /\ end["callee"].made /\ answered = "none"
          /\ answered' = "4xx"
          /\ Exchanges("callee", "CANCEL", "4xx")

(* on_recv_ack(): whatever the status of the session it finds *)
RecvAck ==
    /\ at["callee"]["ACK"] = "idle"
    /\ Receives("callee", "ACK")
    /\ IF end["callee"].mapped THEN Goto("callee", "ACK", "ack") ELSE UNCHANGED at
    /\ UNCHANGED <<end, invite, serverVars, observers>>

LoseAck ==
    /\ "ackloss" \in Faults
    /\ Receives("callee", "ACK")
    /\ UNCHANGED <<end, invite, serverVars, at, observers>>

(* on_recv_info() with a TEARDOWN, which other implementations send *)
RecvTeardown(e) ==
    /\ "teardown" \in Faults
    /\ end[e].mapped /\ end[e].dialog /\ end[Peer(e)].status = "ack"
    /\ ToBye(e, "peer")
    /\ UNCHANGED <<end, invite, serverVars, refused, raced>>

-------------------------------------------------------------------------------

Connect == InviteSent \/ InviteNotSent

CallerReceives == \/ TryingReply \/ OkReply \/ ErrorReply \/ LateReply
                  \/ RecvBye("caller")

CalleeReceives == \/ InviteRefused \/ InviteAccepted
                  \/ RecvBye("callee") \/ RecvCancel \/ RecvAck

RunAnswer == AnswerExpired \/ AnswerOk \/ ReplyOk \/ AnswerError

(* a thread that is at work on an end goes on *)
Continue == \/ SendAck \/ OkOfNoUse
            \/ \E e \in Ends, t \in Threads : SetStatus(e, t)

Next == \/ ToInviteRequest \/ ToInviteRequestWithoutSdp
        \/ Connect
        \/ CallerReceives \/ InviteTimeout
        \/ CallerBye
        \/ CalleeReceives \/ LoseAck
        \/ \E a \in Answers : GiveAnswer(a)
        \/ RunAnswer \/ AckTimeout
        \/ CalleeBye \/ CalleeDestroyed
        \/ \E e \in Ends : RecvTeardown(e)
        \/ Continue

Spec == Init /\ [][Next]_vars

(* Connections end, messages arrive, libsip gives up in the end, threads go  *)
(* on, tasks and timers run.  Nothing obliges an application to answer or to *)
(* hang up.                                                                  *)
Fairness == /\ WF_vars(Connect)
            /\ WF_vars(CallerReceives)
            /\ WF_vars(CalleeReceives)
            /\ WF_vars(InviteTimeout)
            /\ WF_vars(RunAnswer)
            /\ WF_vars(AckTimeout)
            /\ WF_vars(Continue)

FairSpec == Spec /\ Fairness

-------------------------------------------------------------------------------
\* Properties

(* Every variable keeps its type.                                            *)
TypeOK ==
    /\ end \in [Ends -> EndState]
    /\ invite \in InviteStates
    /\ answer \in Answers \cup {"none", "entered", "run"}
    /\ answered \in {"none", "200", "4xx"}
    /\ ackTimer \in BOOLEAN
    /\ at \in [Ends -> [Threads -> Phases]]
    /\ net \in [Ends -> [Messages -> Nat]]
    /\ refused \subseteq Ends /\ unsent \subseteq Ends /\ raced \subseteq Ends

IsOver(e) == ~end[e].made \/ end[e].status \in Ended

(* An end that believes the session established can always end the peer: the *)
(* peer is over itself, or the map and the dialog lead a BYE to it, unless   *)
(* set_status() has brought the peer back after its end.                     *)
EstablishedReachesPeer ==
    \A e \in Ends : end[e].status = "ack" =>
        \/ IsOver(Peer(e))
        \/ end[Peer(e)].mapped /\ end[Peer(e)].dialog
        \/ Peer(e) \in raced

(* The caller is established only when the callee has answered 200; the      *)
(* callee only when the caller has taken that 200, has a dialog to end, and  *)
(* was established or is about to be.                                        *)
EstablishedByBoth ==
    /\ end["caller"].status = "ack" => answered = "200"
    /\ end["callee"].status = "ack" =>
          /\ end["caller"].dialog
          /\ end["caller"].status \in {"ack", "bye", "cancel"} \/ at["caller"]["reply"] = "ack"

(* Once the final reply of its INVITE has been handled, to_bye() of a live   *)
(* caller in the map does not send a CANCEL: that is for transactions that   *)
(* are open.                                                                 *)
NoStaleCancel ==
    LET c == end["caller"]
    IN  c.mapped /\ c.status \in Live /\ c.tx =>
            invite # "done" \/ at["caller"]["reply"] # "idle"

(* An end that is over, when no thread is about to set it to a live status,  *)
(* stays so whatever reply, ACK or failure of sending still comes:           *)
(* set_status() itself refuses nothing, only the map keeps them away.        *)
StaysOver ==
    [][\A e \in Ends : end[e].status \in Ended /\ Reviving(e) = {} =>
          end'[e].status \in Ended /\ Reviving(e)' = {}]_vars

(* When one end is over, the other one will be, too.  Except for a callee    *)
(* whose application has not answered yet, a BYE or CANCEL that was not sent *)
(* or had no transaction or dialog to go to, a peer that was established    *)
(* although it had refused the BYE or CANCEL, which came too early, and an   *)
(* end that was set to a live status after it was over.                      *)
EndedTogether ==
    \A e \in Ends : end[e].status \in Ended ~>
        \/ IsOver(Peer(e))
        \/ answer = "none"
        \/ e \in unsent
        \/ Peer(e) \in refused /\ end[Peer(e)].status = "ack"
        \/ \E d \in Ends : d \in raced /\ end[d].status \in Live

(* to_invite_request() leads to an established session or to the end of it,  *)
(* unless a 1xx has brought the caller back after its end.                   *)
CallerSettles ==
    (invite \in {"connecting", "calling"}) ~>
        /\ invite = "done"
        /\ end["caller"].status \in Ended \cup {"ack"} \/ "caller" \in raced

(* invite_request_impl.cpp says that a session is removed from the map at    *)
(* its BYE: no end that is over, with no thread at work on it, is in the     *)
(* map.                                                                      *)
OverLeavesMap == \A e \in Ends : end[e].mapped /\ Idle(e) => end[e].status \in Live

===============================================================================

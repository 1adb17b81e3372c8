-------------------------- MODULE RequestProxyProofs --------------------------
(***************************************************************************)
(* Theorems about RequestProxy, for every set of proxies, every SN range   *)
(* and every combination of faults.                                        *)
(***************************************************************************)
EXTENDS RequestProxy, FiniteSetTheorems, TLAPS

-------------------------------------------------------------------------------
\* The inductive invariant

(* What every proxy object satisfies by itself. *)
RecordOK(r) ==
    /\ r.calls = IF r.flag THEN 1 ELSE 0
    /\ r.phase # "none" => r.sn \in SNs
    /\ r.phase # "sent" => /\ r.tx = "idle" /\ ~r.flag /\ r.tasks = 0
                           /\ ~r.timer /\ ~r.ltimer
    /\ r.phase = "sent" /\ ~r.flag => r.tx # "idle"

(* What will end an open request, by its kind. *)
Wake(r) ==
    r.phase = "sent" /\ ~r.flag /\ ~r.threw =>
        \/ r.tx \in {"connecting", "calling"}
        \/ r.tasks > 0
        \/ r.kind = "OneResponse" /\ r.timer /\ r.status = "Replied"
        \/ r.kind \in {"List", "ConfigDownload"} /\ r.ltimer

MapOwned ==
    \A s \in SNs : \A p \in Proxies :
        requestMap[s] = p => px[p].sn = s /\ px[p].phase = "sent" /\ ~px[p].flag

Registered ==
    \A p \in Proxies :
        px[p].phase = "sent" /\ ~px[p].flag /\ ~Shares(p) => requestMap[px[p].sn] = p

IInv == /\ TypeOK
        /\ \A p \in Proxies : RecordOK(px[p])
        /\ MapOwned
        /\ Registered
        /\ \A p \in Proxies : Shares(p) \/ Wake(px[p])

(* The shape of every handler of p: it leaves the object as some record r,   *)
(* still the same request, and then calls on_completed() or does not.        *)
Handler(p) ==
    \E r \in ProxyState :
        /\ px[p].phase # "none"
        /\ r.phase = "sent" /\ r.sn = px[p].sn
        /\ r.flag = px[p].flag /\ r.calls = px[p].calls /\ r.told = px[p].told
        /\ \/ Finish(p, r)
           \/ /\ Keep(p, r)
              /\ px[p].phase = "sent"
              /\ ~r.flag => r.tx # "idle"
              /\ Shares(p) \/ (Wake(px[p]) => Wake(r))
        /\ UNCHANGED nextSn

-------------------------------------------------------------------------------
\* The operators on proxy records keep the type

LEMMA CompletedFields ==
    ASSUME NEW r \in ProxyState
    PROVE  /\ Completed(r) \in ProxyState
           /\ Completed(r).phase = r.phase
           /\ Completed(r).sn = r.sn
           /\ Completed(r).flag = TRUE
           /\ Completed(r).calls = IF r.flag THEN r.calls ELSE r.calls + 1
<1>1. CASE r.flag
  BY <1>1 DEF Completed, ProxyState
<1>2. CASE ~r.flag
  <2>1. r.status \in Status /\ r.calls + 1 \in Nat
    BY DEF ProxyState
  <2>2. [r EXCEPT !.flag = TRUE, !.calls = @ + 1, !.told = r.status, !.ltimer = FALSE]
            \in ProxyState
    BY <2>1 DEF ProxyState
  <2>3. Completed(r)
          = [r EXCEPT !.flag = TRUE, !.calls = @ + 1, !.told = r.status, !.ltimer = FALSE]
    BY <1>2 DEF Completed
  <2> QED BY <1>2, <2>2, <2>3 DEF ProxyState
<1> QED BY <1>1, <1>2

LEMMA TakenFields ==
    ASSUME NEW r \in ProxyState
    PROVE  /\ Taken(r) \in ProxyState
           /\ Taken(r).phase = r.phase
           /\ Taken(r).kind = r.kind
           /\ Taken(r).sn = r.sn
           /\ Taken(r).flag = r.flag
           /\ Taken(r).calls = r.calls
           /\ Taken(r).told = r.told
           /\ Taken(r).tx = r.tx
           /\ Taken(r).ltimer = r.ltimer
           /\ Taken(r).tasks = r.tasks
           /\ Taken(r).threw = r.threw
<1>1. r.resp + 1 \in Nat
  BY DEF ProxyState
<1> QED BY <1>1 DEF Taken, ProxyState

LEMMA LoadedFields ==
    ASSUME NEW r \in ProxyState
    PROVE  /\ Loaded(r) \in ProxyState
           /\ Loaded(r).phase = r.phase
           /\ Loaded(r).kind = r.kind
           /\ Loaded(r).sn = r.sn
           /\ Loaded(r).flag = r.flag
           /\ Loaded(r).calls = r.calls
           /\ Loaded(r).told = r.told
           /\ Loaded(r).tx = r.tx
           /\ Loaded(r).ltimer = r.ltimer
           /\ Loaded(r).tasks = r.tasks
           /\ Loaded(r).threw = r.threw
<1>1. Taken(r) \in ProxyState
  BY TakenFields
<1>2. Taken(r).valid + 1 \in Nat
  BY <1>1 DEF ProxyState
<1> QED BY <1>1, <1>2, TakenFields DEF Loaded, ProxyState

LEMMA OnReplyLFields ==
    ASSUME NEW r \in ProxyState
    PROVE  /\ OnReplyL(r) \in ProxyState
           /\ OnReplyL(r).phase = r.phase
           /\ OnReplyL(r).kind = r.kind
           /\ OnReplyL(r).sn = r.sn
           /\ OnReplyL(r).flag = r.flag
           /\ OnReplyL(r).calls = r.calls
           /\ OnReplyL(r).told = r.told
           /\ OnReplyL(r).tx = r.tx
           /\ OnReplyL(r).status = r.status
           /\ OnReplyL(r).tasks = r.tasks
           /\ r.kind = "ConfigDownload" => OnReplyL(r).ltimer
           /\ r.kind = "List" /\ r.status = "Replied" => OnReplyL(r).ltimer
<1>1. (r.ltimer \/ r.status = "Replied") \in BOOLEAN
  BY DEF ProxyState
<1>2. CASE r.kind = "List"
  BY <1>1, <1>2 DEF OnReplyL, ProxyState
<1>3. CASE r.kind = "ConfigDownload"
  BY <1>3 DEF OnReplyL, ProxyState
<1>4. CASE r.kind \notin {"List", "ConfigDownload"}
  BY <1>4 DEF OnReplyL, ProxyState
<1> QED BY <1>2, <1>3, <1>4

-------------------------------------------------------------------------------
\* Every action of Next other than the application's has the shape of Handler

(* A proxy under an SN of the map is open: responses reach open requests only. *)
LEMMA DeliveredOpen ==
    ASSUME IInv, NEW p \in Proxies, Delivers(p)
    PROVE  /\ px[p] \in ProxyState
           /\ px[p].phase = "sent" /\ ~px[p].flag /\ px[p].tx # "idle"
<1>1. PICK q \in Requests : px[q].sn # 0 /\ requestMap[px[q].sn] = p
  BY DEF Delivers
<1>2. px[q] \in ProxyState /\ px[p] \in ProxyState
  BY DEF IInv, TypeOK, Proxies
<1>3. px[q].sn \in SNs
  BY <1>1, <1>2 DEF ProxyState
<1>4. px[p].phase = "sent" /\ ~px[p].flag
  BY <1>1, <1>3 DEF IInv, MapOwned
<1> QED BY <1>2, <1>4 DEF IInv, RecordOK

LEMMA SendPayloadFailsHandler ==
    ASSUME IInv, NEW p \in Proxies, SendPayloadFails(p)
    PROVE  Handler(p)
<1> DEFINE r == [px[p] EXCEPT !.phase = "sent", !.status = "Failed"]
<1>1. px[p] \in ProxyState
  BY DEF IInv, TypeOK
<1>2. "sent" \in Phases /\ "Failed" \in Status
  BY DEF Phases, Status
<1>3. /\ r \in ProxyState
      /\ r.phase = "sent" /\ r.sn = px[p].sn
      /\ r.flag = px[p].flag /\ r.calls = px[p].calls /\ r.told = px[p].told
  BY <1>1, <1>2 DEF ProxyState
<1>4. px[p].phase # "none" /\ Finish(p, r) /\ UNCHANGED nextSn
  BY DEF SendPayloadFails
<1> HIDE DEF r
<1> QED BY <1>3, <1>4 DEF Handler

(* An object whose transaction has begun has been sent. *)
LEMMA BusyIsSent ==
    ASSUME IInv, NEW p \in Proxies,
           px[p].tx # "idle" \/ px[p].tasks > 0 \/ px[p].timer \/ px[p].ltimer
    PROVE  /\ px[p] \in ProxyState
           /\ px[p].phase = "sent"
           /\ ~px[p].flag => px[p].tx # "idle"
<1>1. px[p] \in ProxyState /\ RecordOK(px[p])
  BY DEF IInv, TypeOK
<1> QED BY <1>1 DEF RecordOK, ProxyState

LEMMA SessionHandler ==
    ASSUME IInv, NEW p \in Proxies, Session(p)
    PROVE  Handler(p)
<1>1. /\ px[p] \in ProxyState /\ px[p].phase = "sent" /\ px[p].tx = "connecting"
  BY BusyIsSent DEF Session, SessionReady, SessionFails
<1>2. CASE SessionReady(p)
  <2> DEFINE r == [px[p] EXCEPT !.tx = "calling"]
  <2>1. "calling" \in TxStates
    BY DEF TxStates
  <2>2. /\ r \in ProxyState
        /\ r.phase = "sent" /\ r.sn = px[p].sn
        /\ r.flag = px[p].flag /\ r.calls = px[p].calls /\ r.told = px[p].told
        /\ r.tx = "calling"
    BY <1>1, <2>1 DEF ProxyState
  <2>3. Keep(p, r) /\ UNCHANGED nextSn
    BY <1>2 DEF SessionReady
  <2> HIDE DEF r
  <2> QED BY <1>1, <2>2, <2>3 DEF Handler, Wake
<1>3. CASE SessionFails(p)
  <2> DEFINE r == [px[p] EXCEPT !.tx = "done", !.status = "Failed"]
  <2>1. "done" \in TxStates /\ "Failed" \in Status
    BY DEF TxStates, Status
  <2>2. /\ r \in ProxyState
        /\ r.phase = "sent" /\ r.sn = px[p].sn
        /\ r.flag = px[p].flag /\ r.calls = px[p].calls /\ r.told = px[p].told
    BY <1>1, <2>1 DEF ProxyState
  <2>3. Finish(p, r) /\ UNCHANGED nextSn
    BY <1>3 DEF SessionFails
  <2> HIDE DEF r
  <2> QED BY <1>1, <2>2, <2>3 DEF Handler
<1> QED BY <1>2, <1>3 DEF Session

LEMMA OnReplyHandler ==
    ASSUME IInv, NEW p \in Proxies, NEW code \in FinalCodes \cup {"1xx"},
           NEW tx \in {"done", "calling"}, OnReply(p, code, tx)
    PROVE  Handler(p)
<1> DEFINE r0 == [px[p] EXCEPT !.status = ReplyStatus(px[p].kind, code), !.tx = tx]
           r  == OnReplyL(r0)
           rt == [r EXCEPT !.timer = TRUE]
<1>1. /\ px[p] \in ProxyState /\ px[p].phase = "sent"
  BY BusyIsSent DEF OnReply
<1>2. ReplyStatus(px[p].kind, code) \in Status /\ tx \in TxStates
  BY DEF ReplyStatus, Status, TxStates
<1>3. /\ r0 \in ProxyState
      /\ r0.phase = "sent" /\ r0.sn = px[p].sn /\ r0.kind = px[p].kind
      /\ r0.flag = px[p].flag /\ r0.calls = px[p].calls /\ r0.told = px[p].told
      /\ r0.tx = tx /\ r0.status = ReplyStatus(px[p].kind, code)
  BY <1>1, <1>2 DEF ProxyState
<1>4. /\ r \in ProxyState
      /\ r.phase = "sent" /\ r.sn = px[p].sn /\ r.kind = px[p].kind
      /\ r.flag = px[p].flag /\ r.calls = px[p].calls /\ r.told = px[p].told
      /\ r.tx = tx /\ r.status = ReplyStatus(px[p].kind, code)
      /\ r.kind = "ConfigDownload" => r.ltimer
      /\ r.kind = "List" /\ r.status = "Replied" => r.ltimer
  <2> HIDE DEF r0
  <2> QED BY <1>3, OnReplyLFields
<1>5. /\ IF r.status # "Replied" THEN Finish(p, r) ELSE Keep(p, rt)
      /\ UNCHANGED nextSn
  BY DEF OnReply
<1> HIDE DEF r
<1>6. CASE r.status # "Replied"
  BY <1>1, <1>4, <1>5, <1>6 DEF Handler
<1>7. CASE r.status = "Replied"
  <2>1. /\ rt \in ProxyState
        /\ rt.phase = "sent" /\ rt.sn = px[p].sn /\ rt.kind = px[p].kind
        /\ rt.flag = px[p].flag /\ rt.calls = px[p].calls /\ rt.told = px[p].told
        /\ rt.tx = tx /\ rt.status = "Replied" /\ rt.timer
        /\ rt.ltimer = r.ltimer
    BY <1>4, <1>7 DEF ProxyState
  <2>2. px[p].kind \in {"OneResponse", "List", "ConfigDownload"}
    <3>1. px[p].kind \in Kinds
      BY <1>1 DEF ProxyState
    <3>2. px[p].kind # "NoResponse"
      BY <1>4, <1>7 DEF ReplyStatus
    <3> QED BY <3>1, <3>2 DEF Kinds
  <2>3. Keep(p, rt)
    BY <1>5, <1>7
  <2> HIDE DEF rt
  <2>4. Wake(rt)
    BY <1>4, <1>7, <2>1, <2>2 DEF Wake
  <2> QED BY <1>1, <1>5, <2>1, <2>3, <2>4 DEF Handler
<1> QED BY <1>6, <1>7

LEMMA ReplyHandler ==
    ASSUME IInv, NEW p \in Proxies, FinalReply(p) \/ ProvisionalReply(p)
    PROVE  Handler(p)
BY OnReplyHandler DEF FinalReply, ProvisionalReply

LEMMA PlainResponseHandler ==
    ASSUME IInv, NEW p \in Proxies, MalformedResponse(p) \/ PlainResponse(p)
    PROVE  Handler(p)
<1>1. Delivers(p)
  BY DEF MalformedResponse, PlainResponse
<1>2. /\ px[p] \in ProxyState
      /\ px[p].phase = "sent" /\ ~px[p].flag /\ px[p].tx # "idle"
  BY <1>1, DeliveredOpen
<1>3. CASE MalformedResponse(p)
  <2> DEFINE r == [Taken(px[p]) EXCEPT !.status = "Failed", !.tasks = @ + 1]
  <2>0. /\ Taken(px[p]) \in ProxyState
        /\ Taken(px[p]).phase = "sent" /\ Taken(px[p]).sn = px[p].sn
        /\ Taken(px[p]).flag = px[p].flag /\ Taken(px[p]).calls = px[p].calls
        /\ Taken(px[p]).told = px[p].told
        /\ Taken(px[p]).tx # "idle"
    BY <1>2, TakenFields
  <2>1. /\ "Failed" \in Status
        /\ Taken(px[p]).tasks + 1 \in Nat /\ Taken(px[p]).tasks + 1 > 0
    BY <2>0 DEF Status, ProxyState
  <2>2. /\ r \in ProxyState
        /\ r.phase = "sent" /\ r.sn = px[p].sn
        /\ r.flag = px[p].flag /\ r.calls = px[p].calls /\ r.told = px[p].told
        /\ r.tx # "idle" /\ r.tasks > 0
    BY <2>0, <2>1 DEF ProxyState
  <2>3. Keep(p, r) /\ UNCHANGED nextSn
    BY <1>3 DEF MalformedResponse
  <2> HIDE DEF r
  <2> QED BY <1>2, <2>2, <2>3 DEF Handler, Wake
<1>4. CASE PlainResponse(p) /\ px[p].kind = "OneResponse"
  <2> DEFINE r == [Loaded(px[p]) EXCEPT !.status = "Succeeded", !.tasks = @ + 1]
  <2>0. /\ Loaded(px[p]) \in ProxyState
        /\ Loaded(px[p]).phase = "sent" /\ Loaded(px[p]).sn = px[p].sn
        /\ Loaded(px[p]).flag = px[p].flag /\ Loaded(px[p]).calls = px[p].calls
        /\ Loaded(px[p]).told = px[p].told
        /\ Loaded(px[p]).tx # "idle"
    BY <1>2, LoadedFields
  <2>1. /\ "Succeeded" \in Status
        /\ Loaded(px[p]).tasks + 1 \in Nat /\ Loaded(px[p]).tasks + 1 > 0
    BY <2>0 DEF Status, ProxyState
  <2>2. /\ r \in ProxyState
        /\ r.phase = "sent" /\ r.sn = px[p].sn
        /\ r.flag = px[p].flag /\ r.calls = px[p].calls /\ r.told = px[p].told
        /\ r.tx # "idle" /\ r.tasks > 0
    BY <2>0, <2>1 DEF ProxyState
  <2>3. Keep(p, r) /\ UNCHANGED nextSn
    BY <1>4 DEF PlainResponse
  <2> HIDE DEF r
  <2> QED BY <1>2, <2>2, <2>3 DEF Handler, Wake
<1>5. CASE PlainResponse(p) /\ px[p].kind = "NoResponse"
  <2> DEFINE r == Loaded(px[p])
  <2>1. /\ r \in ProxyState
        /\ r.phase = "sent" /\ r.sn = px[p].sn /\ r.kind = "NoResponse"
        /\ r.flag = px[p].flag /\ r.calls = px[p].calls /\ r.told = px[p].told
        /\ r.tx = px[p].tx /\ r.tasks = px[p].tasks /\ r.threw = px[p].threw
    BY <1>2, <1>5, LoadedFields
  <2>2. Keep(p, r) /\ UNCHANGED nextSn
    BY <1>5 DEF PlainResponse
  <2> HIDE DEF r
  <2>3. Wake(px[p]) => Wake(r)
    BY <1>2, <1>5, <2>1 DEF Wake
  <2> QED BY <1>2, <2>1, <2>2, <2>3 DEF Handler
<1> QED BY <1>3, <1>4, <1>5 DEF PlainResponse

LEMMA ListResponseHandler ==
    ASSUME IInv, NEW p \in Proxies, NEW num \in Nat, NEW sum \in Nat,
           ListResponse(p, num, sum)
    PROVE  Handler(p)
<1> DEFINE r == [Loaded(px[p]) EXCEPT !.fresh = TRUE, !.recvNum = @ + num, !.sumNum = sum]
           e == [r EXCEPT !.ltimer = FALSE, !.status = "Succeeded"]
<1>1. /\ px[p] \in ProxyState /\ px[p].kind = "List"
      /\ px[p].phase = "sent" /\ ~px[p].flag /\ px[p].tx # "idle"
  BY DeliveredOpen DEF ListResponse
<1>2. Loaded(px[p]).recvNum + num \in Nat
  BY <1>1, LoadedFields DEF ProxyState
<1>3. /\ r \in ProxyState
      /\ r.phase = "sent" /\ r.sn = px[p].sn /\ r.kind = "List"
      /\ r.flag = px[p].flag /\ r.calls = px[p].calls /\ r.told = px[p].told
      /\ r.tx = px[p].tx /\ r.tasks = px[p].tasks /\ r.threw = px[p].threw
      /\ r.ltimer = px[p].ltimer
  <2> DEFINE m == Loaded(px[p])
             n == m.recvNum + num
  <2>1. /\ m \in ProxyState /\ n \in Nat
        /\ m.phase = "sent" /\ m.sn = px[p].sn /\ m.kind = "List"
        /\ m.flag = px[p].flag /\ m.calls = px[p].calls /\ m.told = px[p].told
        /\ m.tx = px[p].tx /\ m.tasks = px[p].tasks /\ m.threw = px[p].threw
        /\ m.ltimer = px[p].ltimer
    BY <1>1, <1>2, LoadedFields
  <2>2. r = [m EXCEPT !.fresh = TRUE, !.recvNum = n, !.sumNum = sum]
    OBVIOUS
  <2> HIDE DEF m, n, r
  <2> QED BY <2>1, <2>2 DEF ProxyState
<1>4. IF ListEnd(r) THEN Finish(p, e) ELSE Keep(p, r)
  BY DEF ListResponse
<1>5. UNCHANGED nextSn
  BY DEF ListResponse
<1>6. /\ e \in ProxyState
      /\ e.phase = "sent" /\ e.sn = px[p].sn
      /\ e.flag = px[p].flag /\ e.calls = px[p].calls /\ e.told = px[p].told
  <2>1. "Succeeded" \in Status
    BY DEF Status
  <2> HIDE DEF r
  <2> QED BY <1>3, <2>1 DEF ProxyState
<1> HIDE DEF r, e
<1>7. Wake(px[p]) => Wake(r)
  BY <1>1, <1>3 DEF Wake
<1> QED BY <1>1, <1>3, <1>4, <1>5, <1>6, <1>7 DEF Handler

LEMMA ConfigResponseHandler ==
    ASSUME IInv, NEW p \in Proxies, NEW types \in SUBSET ConfigTypes,
           NEW ok \in BOOLEAN, NEW throws \in BOOLEAN,
           ConfigResponse(p, types, ok, throws)
    PROVE  Handler(p)
<1> DEFINE got == px[p].recvTypes \cup types
           end == got = Requested
           r   == [Loaded(px[p]) EXCEPT
                      !.recvTypes = got,
                      !.ltimer = @ /\ ~end,
                      !.status = IF end THEN "Succeeded" ELSE @]
           f   == [r EXCEPT !.ltimer = FALSE, !.status = "Failed"]
           t   == [r EXCEPT !.threw = TRUE]
<1>1. /\ px[p] \in ProxyState /\ px[p].kind = "ConfigDownload"
      /\ px[p].phase = "sent" /\ ~px[p].flag /\ px[p].tx # "idle"
  BY DeliveredOpen DEF ConfigResponse
<1>2. got \in SUBSET ConfigTypes
  BY <1>1 DEF ProxyState
<1>3. /\ IF types = {} /\ ~ok THEN Finish(p, f)
         ELSE IF throws THEN Keep(p, t)
         ELSE IF end THEN Finish(p, r)
         ELSE Keep(p, r)
      /\ UNCHANGED nextSn
  BY DEF ConfigResponse
<1> HIDE DEF got
<1>4. /\ r \in ProxyState
      /\ r.phase = "sent" /\ r.sn = px[p].sn /\ r.kind = "ConfigDownload"
      /\ r.flag = px[p].flag /\ r.calls = px[p].calls /\ r.told = px[p].told
      /\ r.tx = px[p].tx /\ r.tasks = px[p].tasks /\ r.threw = px[p].threw
      /\ r.ltimer = (px[p].ltimer /\ ~end)
  <2> DEFINE l == Loaded(px[p])
             st == IF end THEN "Succeeded" ELSE l.status
             lt == l.ltimer /\ ~end
  <2>1. /\ l \in ProxyState
        /\ l.phase = "sent" /\ l.sn = px[p].sn /\ l.kind = "ConfigDownload"
        /\ l.flag = px[p].flag /\ l.calls = px[p].calls /\ l.told = px[p].told
        /\ l.tx = px[p].tx /\ l.tasks = px[p].tasks /\ l.threw = px[p].threw
        /\ l.ltimer = px[p].ltimer
    BY <1>1, LoadedFields
  <2>2. st \in Status
    BY <2>1 DEF ProxyState, Status
  <2>3. lt \in BOOLEAN /\ lt = (px[p].ltimer /\ ~end)
    BY <2>1
  <2>4. r = [l EXCEPT !.recvTypes = got, !.ltimer = lt, !.status = st]
    OBVIOUS
  <2> HIDE DEF l, st, lt, r, end
  <2> QED BY <1>2, <2>1, <2>2, <2>3, <2>4 DEF ProxyState
<1> HIDE DEF end, r
<1>5. /\ f \in ProxyState
      /\ f.phase = "sent" /\ f.sn = px[p].sn
      /\ f.flag = px[p].flag /\ f.calls = px[p].calls /\ f.told = px[p].told
  <2>1. "Failed" \in Status
    BY DEF Status
  <2> QED BY <1>4, <2>1 DEF ProxyState
<1>6. /\ t \in ProxyState
      /\ t.phase = "sent" /\ t.sn = px[p].sn /\ t.tx = px[p].tx
      /\ t.flag = px[p].flag /\ t.calls = px[p].calls /\ t.told = px[p].told
      /\ t.threw
  BY <1>4 DEF ProxyState
<1> HIDE DEF f, t
<1>7. Wake(t)
  BY <1>6 DEF Wake
<1>8. ~end => (Wake(px[p]) => Wake(r))
  BY <1>1, <1>4 DEF Wake
<1> QED BY <1>1, <1>3, <1>4, <1>5, <1>6, <1>7, <1>8 DEF Handler

LEMMA ResponseHandler ==
    ASSUME IInv, NEW p \in Proxies, Response(p)
    PROVE  Handler(p)
<1>1. 0..MaxItems \subseteq Nat
  BY ProxyAssumption
<1> QED BY <1>1, PlainResponseHandler, ListResponseHandler, ConfigResponseHandler
        DEF Response

LEMMA RunTaskHandler ==
    ASSUME IInv, NEW p \in Proxies, RunTask(p)
    PROVE  Handler(p)
<1> DEFINE r == [px[p] EXCEPT !.tasks = @ - 1]
<1>1. px[p] \in ProxyState /\ px[p].phase = "sent"
  BY BusyIsSent DEF RunTask
<1>2. px[p].tasks - 1 \in Nat
  BY <1>1 DEF RunTask, ProxyState
<1>3. /\ r \in ProxyState
      /\ r.phase = "sent" /\ r.sn = px[p].sn
      /\ r.flag = px[p].flag /\ r.calls = px[p].calls /\ r.told = px[p].told
  BY <1>1, <1>2 DEF ProxyState
<1>4. Finish(p, r) /\ UNCHANGED nextSn
  BY DEF RunTask
<1> HIDE DEF r
<1> QED BY <1>1, <1>3, <1>4 DEF Handler

LEMMA TimerFiresHandler ==
    ASSUME IInv, NEW p \in Proxies, TimerFires(p)
    PROVE  Handler(p)
<1> DEFINE r == [px[p] EXCEPT !.timer = FALSE]
           e == [r EXCEPT !.status = "Timeout"]
<1>1. /\ px[p] \in ProxyState /\ px[p].phase = "sent"
      /\ ~px[p].flag => px[p].tx # "idle"
  BY BusyIsSent DEF TimerFires
<1>2. /\ r \in ProxyState
      /\ r.phase = "sent" /\ r.sn = px[p].sn /\ r.kind = px[p].kind
      /\ r.flag = px[p].flag /\ r.calls = px[p].calls /\ r.told = px[p].told
      /\ r.tx = px[p].tx /\ r.tasks = px[p].tasks /\ r.threw = px[p].threw
      /\ r.ltimer = px[p].ltimer /\ r.status = px[p].status
  BY <1>1 DEF ProxyState
<1>3. /\ IF r.status = "Replied" THEN Finish(p, e) ELSE Keep(p, r)
      /\ UNCHANGED nextSn
  BY DEF TimerFires
<1> HIDE DEF r
<1>4. /\ e \in ProxyState
      /\ e.phase = "sent" /\ e.sn = px[p].sn
      /\ e.flag = px[p].flag /\ e.calls = px[p].calls /\ e.told = px[p].told
  <2>1. "Timeout" \in Status
    BY DEF Status
  <2> QED BY <1>2, <2>1 DEF ProxyState
<1> HIDE DEF e
<1>5. r.status # "Replied" => (Wake(px[p]) => Wake(r))
  BY <1>1, <1>2 DEF Wake
<1> QED BY <1>1, <1>2, <1>3, <1>4, <1>5 DEF Handler

LEMMA DerivedTimerHandler ==
    ASSUME IInv, NEW p \in Proxies, DerivedTimer(p)
    PROVE  Handler(p)
<1>1. /\ px[p] \in ProxyState /\ px[p].phase = "sent"
      /\ ~px[p].flag => px[p].tx # "idle"
  BY BusyIsSent
     DEF DerivedTimer, ListTimerTick, ListTimerExpires, ConfigTimerFires, TimerOrphaned
<1>2. CASE ListTimerTick(p)
  <2> DEFINE r == [px[p] EXCEPT !.fresh = FALSE]
  <2>1. /\ r \in ProxyState
        /\ r.phase = "sent" /\ r.sn = px[p].sn /\ r.kind = px[p].kind
        /\ r.flag = px[p].flag /\ r.calls = px[p].calls /\ r.told = px[p].told
        /\ r.tx = px[p].tx /\ r.tasks = px[p].tasks /\ r.threw = px[p].threw
        /\ r.ltimer = px[p].ltimer /\ r.timer = px[p].timer
        /\ r.status = px[p].status
    BY <1>1 DEF ProxyState
  <2>2. Keep(p, r) /\ UNCHANGED nextSn
    BY <1>2 DEF ListTimerTick
  <2> HIDE DEF r
  <2>3. Wake(px[p]) => Wake(r)
    BY <1>1, <2>1 DEF Wake
  <2> QED BY <1>1, <2>1, <2>2, <2>3 DEF Handler
<1>3. CASE ListTimerExpires(p)
  <2> DEFINE r == [px[p] EXCEPT !.ltimer = FALSE, !.status = "Timeout"]
  <2>1. "Timeout" \in Status
    BY DEF Status
  <2>2. /\ r \in ProxyState
        /\ r.phase = "sent" /\ r.sn = px[p].sn
        /\ r.flag = px[p].flag /\ r.calls = px[p].calls /\ r.told = px[p].told
    BY <1>1, <2>1 DEF ProxyState
  <2>3. Finish(p, r) /\ UNCHANGED nextSn
    BY <1>3 DEF ListTimerExpires
  <2> HIDE DEF r
  <2> QED BY <1>1, <2>2, <2>3 DEF Handler
<1>4. CASE ConfigTimerFires(p)
  <2> DEFINE st == IF px[p].status = "Replied" THEN "Timeout" ELSE px[p].status
             r  == [px[p] EXCEPT !.ltimer = FALSE, !.status = st]
  <2>1. st \in Status
    BY <1>1 DEF Status, ProxyState
  <2>2. Finish(p, r) /\ UNCHANGED nextSn
    BY <1>4 DEF ConfigTimerFires
  <2> HIDE DEF st
  <2>3. /\ r \in ProxyState
        /\ r.phase = "sent" /\ r.sn = px[p].sn
        /\ r.flag = px[p].flag /\ r.calls = px[p].calls /\ r.told = px[p].told
    BY <1>1, <2>1 DEF ProxyState
  <2> HIDE DEF r
  <2> QED BY <1>1, <2>2, <2>3 DEF Handler
<1>5. CASE TimerOrphaned(p)
  <2> DEFINE r == [px[p] EXCEPT !.ltimer = FALSE]
  <2>1. /\ r \in ProxyState
        /\ r.phase = "sent" /\ r.sn = px[p].sn
        /\ r.flag = px[p].flag /\ r.calls = px[p].calls /\ r.told = px[p].told /\ r.tx = px[p].tx
    BY <1>1 DEF ProxyState
  <2>2. Keep(p, r) /\ UNCHANGED nextSn
    BY <1>5 DEF TimerOrphaned
  <2>3. px[p].sn \in SNs
    BY <1>1 DEF IInv, RecordOK
  <2>4. requestMap[px[p].sn] # p
    BY <1>5, <2>3 DEF TimerOrphaned, Alive
  <2>5. Shares(p) \/ px[p].flag
    BY <1>1, <2>4 DEF IInv, Registered
  <2> HIDE DEF r
  <2>6. px[p].flag => Wake(r)
    BY <2>1 DEF Wake
  <2> QED BY <1>1, <2>1, <2>2, <2>5, <2>6 DEF Handler
<1> QED BY <1>2, <1>3, <1>4, <1>5 DEF DerivedTimer

-------------------------------------------------------------------------------
\* The invariant is inductive

(* Once a proxy shares its SN it keeps sharing it: nothing unsends a request. *)
LEMMA SharesStable ==
    ASSUME TypeOK, TypeOK',
           \A q \in Proxies : px[q].phase = "sent" =>
               px'[q].phase = "sent" /\ px'[q].sn = px[q].sn,
           NEW p \in Proxies, px'[p].sn = px[p].sn, Shares(p)
    PROVE  Shares(p)'
BY DEF Shares

LEMMA HandlerInv ==
    ASSUME IInv, NEW p \in Proxies, Handler(p)
    PROVE  IInv'
<1>1. PICK r \in ProxyState :
        /\ px[p].phase # "none"
        /\ r.phase = "sent" /\ r.sn = px[p].sn
        /\ r.flag = px[p].flag /\ r.calls = px[p].calls /\ r.told = px[p].told
        /\ \/ Finish(p, r)
           \/ /\ Keep(p, r)
              /\ px[p].phase = "sent"
              /\ ~r.flag => r.tx # "idle"
              /\ Shares(p) \/ (Wake(px[p]) => Wake(r))
        /\ UNCHANGED nextSn
  BY DEF Handler
<1>2. /\ px \in [Proxies -> ProxyState]
      /\ requestMap \in [SNs -> Proxies \cup {NoProxy}]
      /\ nextSn \in SNs
  BY DEF IInv, TypeOK
<1>3. /\ RecordOK(px[p])
      /\ px[p].sn \in SNs
      /\ p # NoProxy
  BY <1>1, ProxyAssumption DEF IInv, RecordOK
<1>4. PICK x \in ProxyState :
        /\ px' = [px EXCEPT ![p] = x]
        /\ x.phase = "sent" /\ x.sn = px[p].sn
        /\ px[p].flag => x.flag
        /\ \/ x.flag /\ requestMap' = IF px[p].flag THEN requestMap
                                      ELSE [requestMap EXCEPT ![px[p].sn] = NoProxy]
           \/ x.flag = px[p].flag /\ requestMap' = requestMap
        /\ RecordOK(x)
        /\ Shares(p) \/ Wake(x)
        /\ px[p].phase = "sent" \/ x.flag
  <2>1. CASE Finish(p, r)
    <3>1. /\ Completed(r) \in ProxyState
          /\ Completed(r).phase = r.phase /\ Completed(r).sn = r.sn
          /\ Completed(r).flag = TRUE
          /\ Completed(r).calls = IF r.flag THEN r.calls ELSE r.calls + 1
      BY CompletedFields
    <3>2. RecordOK(Completed(r))
      BY <1>1, <1>3, <3>1 DEF RecordOK
    <3>3. Wake(Completed(r))
      BY <3>1 DEF Wake
    <3> QED BY <1>1, <2>1, <3>1, <3>2, <3>3 DEF Finish
  <2>2. CASE /\ Keep(p, r)
             /\ px[p].phase = "sent"
             /\ ~r.flag => r.tx # "idle"
             /\ Shares(p) \/ (Wake(px[p]) => Wake(r))
    <3>1. RecordOK(r)
      BY <1>1, <1>3, <2>2 DEF RecordOK
    <3>2. Shares(p) \/ Wake(r)
      BY <2>2 DEF IInv
    <3> QED BY <1>1, <2>2, <3>1, <3>2 DEF Keep
  <2> QED BY <1>1, <2>1, <2>2
<1>5. TypeOK'
  BY <1>1, <1>2, <1>4 DEF TypeOK
<1>6. \A q \in Proxies : /\ q # p => px'[q] = px[q]
                         /\ px'[p] = x
  BY <1>2, <1>4
<1>7. \A q \in Proxies : px'[q].sn = px[q].sn /\ (px[q].phase = "sent" => px'[q].phase = "sent")
  BY <1>4, <1>6
<1>8. \A q \in Proxies : Shares(q) => Shares(q)'
  BY <1>7, <1>5, SharesStable DEF IInv
<1>9. \A q \in Proxies : RecordOK(px[q])'
  BY <1>4, <1>6 DEF IInv
<1>10. MapOwned'
  <2> SUFFICES ASSUME NEW s \in SNs, NEW q \in Proxies, requestMap'[s] = q
               PROVE  px'[q].sn = s /\ px'[q].phase = "sent" /\ ~px'[q].flag
    BY DEF MapOwned
  <2>1. requestMap[s] = q /\ (s = px[p].sn => requestMap' = requestMap)
    BY <1>2, <1>3, <1>4, ProxyAssumption
  <2>2. px[q].sn = s /\ px[q].phase = "sent" /\ ~px[q].flag
    BY <2>1 DEF IInv, MapOwned
  <2>3. CASE q # p
    BY <1>6, <2>2, <2>3
  <2>4. CASE q = p
    BY <1>2, <1>3, <1>4, <1>6, <2>1, <2>2, <2>4, ProxyAssumption
  <2> QED BY <2>3, <2>4
<1>11. Registered'
  <2> SUFFICES ASSUME NEW q \in Proxies,
                      px'[q].phase = "sent", ~px'[q].flag, ~Shares(q)'
               PROVE  requestMap'[px'[q].sn] = q
    BY DEF Registered
  <2>1. ~Shares(q)
    BY <1>8
  <2>2. px[q].phase = "sent" /\ ~px[q].flag
    BY <1>4, <1>6
  <2>3. requestMap[px[q].sn] = q
    BY <2>1, <2>2 DEF IInv, Registered
  <2>4. CASE q = p
    BY <1>4, <1>6, <2>3, <2>4
  <2>5. CASE q # p
    <3>1. px'[p].phase = "sent" /\ px'[p].sn = px[p].sn
      BY <1>4, <1>6
    <3>2. px[q].sn # px[p].sn
      BY <1>7, <2>5, <3>1 DEF Shares
    <3>3. requestMap'[px[q].sn] = requestMap[px[q].sn]
      <4>1. px[q].sn \in SNs
        BY <2>2 DEF IInv, RecordOK
      <4>2. CASE requestMap' = requestMap
        BY <4>2
      <4>3. CASE requestMap' = [requestMap EXCEPT ![px[p].sn] = NoProxy]
        BY <1>2, <3>2, <4>1, <4>3
      <4> QED BY <1>4, <4>2, <4>3
    <3> QED BY <1>7, <2>3, <3>3
  <2> QED BY <2>4, <2>5
<1>12. \A q \in Proxies : (Shares(q) \/ Wake(px[q]))'
  BY <1>4, <1>6, <1>8 DEF IInv
<1> QED BY <1>5, <1>9, <1>10, <1>11, <1>12 DEF IInv

(* The application constructs a proxy: it is on no map yet and not sent. *)
LEMMA ConstructInv ==
    ASSUME IInv, NEW p \in Proxies,
           \/ \E k \in Kinds : NewRequest(p, k)
           \/ \E s \in SNs : NewAnswer(p, s)
    PROVE  IInv'
<1>1. /\ px \in [Proxies -> ProxyState]
      /\ requestMap \in [SNs -> Proxies \cup {NoProxy}]
      /\ nextSn \in SNs
  BY DEF IInv, TypeOK
<1>2. PICK x \in ProxyState :
        /\ px' = [px EXCEPT ![p] = x]
        /\ x.phase = "made" /\ x.sn \in SNs
        /\ x.flag = px[p].flag /\ x.calls = px[p].calls /\ x.tx = px[p].tx
        /\ x.tasks = px[p].tasks /\ x.timer = px[p].timer /\ x.ltimer = px[p].ltimer
  <2>1. px[p] \in ProxyState /\ "made" \in Phases
    BY <1>1 DEF Phases
  <2>2. CASE \E k \in Kinds : NewRequest(p, k)
    <3>1. PICK k \in Kinds : NewRequest(p, k)
      BY <2>2
    <3> DEFINE x == [px[p] EXCEPT !.phase = "made", !.kind = k, !.sn = nextSn]
    <3>2. px' = [px EXCEPT ![p] = x]
      BY <3>1, <1>1 DEF NewRequest
    <3>3. /\ x \in ProxyState /\ x.phase = "made" /\ x.sn \in SNs
          /\ x.flag = px[p].flag /\ x.calls = px[p].calls /\ x.tx = px[p].tx
          /\ x.tasks = px[p].tasks /\ x.timer = px[p].timer /\ x.ltimer = px[p].ltimer
      BY <1>1, <2>1 DEF ProxyState
    <3> QED BY <3>2, <3>3
  <2>3. CASE \E s \in SNs : NewAnswer(p, s)
    <3>1. PICK s \in SNs : NewAnswer(p, s)
      BY <2>3
    <3> DEFINE x == [px[p] EXCEPT !.phase = "made", !.sn = s]
    <3>2. px' = [px EXCEPT ![p] = x]
      BY <3>1, <1>1 DEF NewAnswer
    <3>3. /\ x \in ProxyState /\ x.phase = "made" /\ x.sn \in SNs
          /\ x.flag = px[p].flag /\ x.calls = px[p].calls /\ x.tx = px[p].tx
          /\ x.tasks = px[p].tasks /\ x.timer = px[p].timer /\ x.ltimer = px[p].ltimer
      BY <2>1 DEF ProxyState
    <3> QED BY <3>2, <3>3
  <2> QED BY <2>2, <2>3
<1>3. /\ px[p].phase = "none" /\ requestMap' = requestMap /\ nextSn' \in SNs
  <2>1. 1 \in SNs /\ (nextSn = MaxSN \/ nextSn + 1 \in SNs)
    BY <1>1, ProxyAssumption DEF SNs
  <2>2. CASE \E k \in Kinds : NewRequest(p, k)
    BY <2>1, <2>2 DEF NewRequest
  <2>3. CASE \E s \in SNs : NewAnswer(p, s)
    BY <1>1, <2>3 DEF NewAnswer
  <2> QED BY <2>2, <2>3
<1>4. \A q \in Proxies : /\ q # p => px'[q] = px[q]
                         /\ px'[p] = x
  BY <1>1, <1>2
<1>5. TypeOK'
  BY <1>1, <1>2, <1>3 DEF TypeOK
<1>6. \A q \in Proxies : RecordOK(px[q])'
  <2>1. RecordOK(x)
    BY <1>2, <1>3 DEF IInv, RecordOK
  <2> QED BY <1>4, <2>1 DEF IInv
<1>7. \A q \in Proxies \ {p} : Shares(q) <=> Shares(q)'
  BY <1>2, <1>3, <1>4 DEF Shares
<1>8. MapOwned'
  BY <1>3, <1>4 DEF IInv, MapOwned
<1>9. Registered'
  BY <1>2, <1>3, <1>4, <1>7 DEF IInv, Registered
<1>10. \A q \in Proxies : (Shares(q) \/ Wake(px[q]))'
  <2>1. Wake(x)
    BY <1>2 DEF Wake
  <2> QED BY <1>4, <1>7, <2>1 DEF IInv
<1> QED BY <1>5, <1>6, <1>8, <1>9, <1>10 DEF IInv

(* send() puts the proxy under its SN, possibly over another one. *)
LEMMA SendInv ==
    ASSUME IInv, NEW p \in Proxies, Send(p)
    PROVE  IInv'
<1>1. /\ px \in [Proxies -> ProxyState]
      /\ requestMap \in [SNs -> Proxies \cup {NoProxy}]
      /\ nextSn \in SNs
  BY DEF IInv, TypeOK
<1> DEFINE x == [px[p] EXCEPT !.phase = "sent", !.tx = "connecting"]
<1>2. /\ px' = [px EXCEPT ![p] = x]
      /\ requestMap' = [requestMap EXCEPT ![px[p].sn] = p]
      /\ px[p].phase = "made" /\ nextSn' = nextSn
  BY <1>1 DEF Send
<1>3. /\ x \in ProxyState /\ x.phase = "sent" /\ x.tx = "connecting"
      /\ x.sn = px[p].sn /\ x.flag = px[p].flag /\ x.calls = px[p].calls
  <2>1. px[p] \in ProxyState /\ "sent" \in Phases /\ "connecting" \in TxStates
    BY <1>1 DEF Phases, TxStates
  <2> QED BY <2>1 DEF ProxyState
<1>4. RecordOK(px[p]) /\ px[p].sn \in SNs /\ ~px[p].flag
  BY <1>2 DEF IInv, RecordOK
<1> HIDE DEF x
<1>5. \A q \in Proxies : /\ q # p => px'[q] = px[q]
                         /\ px'[p] = x
  BY <1>1, <1>2
<1>6. TypeOK'
  BY <1>1, <1>2, <1>3 DEF TypeOK
<1>7. \A q \in Proxies : RecordOK(px[q])'
  <2>1. RecordOK(x)
    BY <1>3, <1>4 DEF RecordOK
  <2> QED BY <1>5, <2>1 DEF IInv
<1>8. \A q \in Proxies : Shares(q) => Shares(q)'
  BY <1>3, <1>5, <1>6, SharesStable DEF IInv
<1>9. MapOwned'
  BY <1>1, <1>2, <1>3, <1>4, <1>5, ProxyAssumption DEF IInv, MapOwned
<1>10. Registered'
  <2> SUFFICES ASSUME NEW q \in Proxies,
                      px'[q].phase = "sent", ~px'[q].flag, ~Shares(q)'
               PROVE  requestMap'[px'[q].sn] = q
    BY DEF Registered
  <2>1. CASE q = p
    BY <1>1, <1>2, <1>3, <1>4, <1>5, <2>1
  <2>2. CASE q # p
    <3>1. px[q].phase = "sent" /\ ~px[q].flag /\ ~Shares(q) /\ px'[q].sn = px[q].sn
      BY <1>5, <1>8, <2>2
    <3>2. requestMap[px[q].sn] = q /\ px[q].sn \in SNs
      BY <3>1 DEF IInv, Registered, RecordOK
    <3>3. px[q].sn # px[p].sn
      BY <1>3, <1>5, <2>2, <3>1 DEF Shares
    <3> QED BY <1>1, <1>2, <3>1, <3>2, <3>3
  <2> QED BY <2>1, <2>2
<1>11. \A q \in Proxies : (Shares(q) \/ Wake(px[q]))'
  <2>1. Wake(x)
    BY <1>3 DEF Wake
  <2> QED BY <1>5, <1>8, <2>1 DEF IInv
<1> QED BY <1>6, <1>7, <1>9, <1>10, <1>11 DEF IInv

LEMMA InitInv == Init => IInv
<1> SUFFICES ASSUME Init PROVE IInv
  OBVIOUS
<1>1. NewProxy \in ProxyState
  BY DEF NewProxy, ProxyState, Phases, Kinds, Status, TxStates
<1>2. \A p \in Proxies : px[p] = NewProxy
  BY DEF Init
<1>3. TypeOK
  BY <1>1, ProxyAssumption DEF Init, TypeOK, SNs
<1>4. /\ NewProxy.phase = "none" /\ NewProxy.calls = 0 /\ NewProxy.flag = FALSE
      /\ NewProxy.tx = "idle" /\ NewProxy.tasks = 0
      /\ NewProxy.timer = FALSE /\ NewProxy.ltimer = FALSE
  BY DEF NewProxy
<1>5. RecordOK(NewProxy) /\ Wake(NewProxy)
  BY <1>4 DEF RecordOK, Wake
<1>6. MapOwned
  BY ProxyAssumption DEF Init, MapOwned
<1>7. Registered
  BY <1>2, <1>4 DEF Registered
<1> QED BY <1>2, <1>3, <1>5, <1>6, <1>7 DEF IInv

LEMMA NextInv == IInv /\ [Next]_vars => IInv'
<1> SUFFICES ASSUME IInv, [Next]_vars PROVE IInv'
  OBVIOUS
<1>1. CASE UNCHANGED vars
  BY <1>1 DEF vars, IInv, TypeOK, MapOwned, Registered, Shares
<1>2. ASSUME NEW p \in Proxies, App(p)
      PROVE  IInv'
  BY <1>2, ConstructInv, SendInv, SendPayloadFailsHandler, HandlerInv DEF App
<1>3. ASSUME NEW p \in Proxies,
             \/ Session(p) \/ FinalReply(p) \/ ProvisionalReply(p) \/ Response(p)
             \/ RunTask(p) \/ TimerFires(p) \/ DerivedTimer(p)
      PROVE  IInv'
  BY <1>3, SessionHandler, ReplyHandler, ResponseHandler, RunTaskHandler,
     TimerFiresHandler, DerivedTimerHandler, HandlerInv
<1> QED BY <1>1, <1>2, <1>3 DEF Next

THEOREM Invariance == Spec => []IInv
BY InitInv, NextInv, PTL DEF Spec

-------------------------------------------------------------------------------
\* The properties

(* Every reachable state has the declared types, whatever the faults. *)
THEOREM TypeCorrect == Spec => []TypeOK
<1>1. IInv => TypeOK
  BY DEF IInv
<1> QED BY <1>1, Invariance, PTL

(* on_completed() runs the result callback once at most, whichever of reply, *)
(* response, task and timer gets there first.                                *)
THEOREM CallbackOnceCorrect == Spec => []CallbackOnce
<1>1. IInv => CallbackOnce
  BY DEF IInv, RecordOK, CallbackOnce, TypeOK, ProxyState, Phases
<1> QED BY <1>1, Invariance, PTL

(* request_map_ leads to open requests only, and to every open request whose *)
(* SN no other proxy has used.                                               *)
THEOREM MapCorrect == Spec => []MapRoutesOpenRequests
<1>1. IInv => MapRoutesOpenRequests
  BY DEF IInv, MapOwned, Registered, MapRoutesOpenRequests
<1> QED BY <1>1, Invariance, PTL

(* An open request is never left without something that will end it. *)
THEOREM WakeupCorrect == Spec => []NoLostWakeup
<1>1. ASSUME IInv, NEW p \in Proxies,
             px[p].phase = "sent", ~px[p].flag, ~Shares(p), ~px[p].threw
      PROVE  \/ px[p].tx \in {"connecting", "calling"}
             \/ px[p].tasks > 0
             \/ px[p].timer /\ px[p].status = "Replied"
             \/ px[p].ltimer /\ Alive(p)
  <2>1. Wake(px[p])
    BY <1>1 DEF IInv
  <2>2. Alive(p)
    BY <1>1 DEF IInv, Registered, RecordOK, Alive
  <2> QED BY <1>1, <2>1, <2>2 DEF Wake
<1>2. IInv => NoLostWakeup
  BY <1>1 DEF NoLostWakeup
<1> QED BY <1>2, Invariance, PTL

-------------------------------------------------------------------------------
\* What the callback is told

(* The answer of the request is there. *)
Complete(r) ==
    /\ r.kind = "NoResponse" => r.tx = "done"
    /\ r.kind = "OneResponse" => r.valid > 0
    /\ r.kind = "List" => r.valid > 0 /\ r.sumNum <= r.recvNum
    /\ r.kind = "ConfigDownload" => r.valid > 0 /\ Requested \subseteq r.recvTypes

(* Succeeded is told, or about to be told, for a complete request only.      *)
Honest(r) ==
    /\ r.told = "Succeeded" => r.flag /\ Complete(r)
    /\ ~r.flag /\ r.status = "Succeeded" =>
          r.kind \in {"OneResponse", "ConfigDownload"} /\ Complete(r)
    /\ r.phase # "sent" => r.status = "Init"

(* In sequence: nothing happens before the final reply, which sets a status, *)
(* and nothing that changes the status is left once the callback has run.    *)
Settled(r) ==
    /\ r.tx \in {"connecting", "calling"} =>
          ~r.flag /\ r.tasks = 0 /\ ~r.timer /\ ~r.ltimer
    /\ r.tx = "done" => r.status # "Init"
    /\ r.flag => ~r.ltimer /\ r.told \in Final /\ r.status = r.told
    /\ r.tasks > 0 => r.status \in Final

(* Response and reply come in sequence. *)
InSequence == "early" \notin Faults /\ "provisional" \notin Faults

Good(p, r) == Honest(r) /\ (InSequence => Shares(p) \/ Settled(r))

GInv == IInv /\ \A p \in Proxies : Good(p, px[p])

(* A handler of p leaves a good object. *)
GoodStep(p) == \E r \in ProxyState : px' = [px EXCEPT ![p] = r] /\ Good(p, r)

(* Every handler starts from these. *)
LEMMA GoodFacts ==
    ASSUME GInv, NEW p \in Proxies
    PROVE  /\ px[p] \in ProxyState /\ RecordOK(px[p]) /\ Honest(px[p])
           /\ InSequence => Shares(p) \/ Settled(px[p])
           /\ IInv
BY DEF GInv, Good, IInv, TypeOK

LEMMA CompletedMore ==
    ASSUME NEW r \in ProxyState
    PROVE  /\ Completed(r).kind = r.kind /\ Completed(r).status = r.status
           /\ Completed(r).tx = r.tx /\ Completed(r).tasks = r.tasks
           /\ Completed(r).timer = r.timer
           /\ Completed(r).valid = r.valid /\ Completed(r).recvNum = r.recvNum
           /\ Completed(r).sumNum = r.sumNum /\ Completed(r).recvTypes = r.recvTypes
           /\ Completed(r).told = IF r.flag THEN r.told ELSE r.status
           /\ r.flag => Completed(r).ltimer = r.ltimer
           /\ ~r.flag => Completed(r).ltimer = FALSE
<1>1. CASE r.flag
  BY <1>1 DEF Completed
<1>2. CASE ~r.flag
  <2>1. Completed(r)
          = [r EXCEPT !.flag = TRUE, !.calls = @ + 1, !.told = r.status, !.ltimer = FALSE]
    BY <1>2 DEF Completed
  <2> QED BY <1>2, <2>1 DEF ProxyState
<1> QED BY <1>1, <1>2

(* on_completed() at the end of a handler. *)
LEMMA FinishGood ==
    ASSUME NEW p \in Proxies, NEW r \in ProxyState, Finish(p, r), r.phase = "sent",
           r.told = "Succeeded" => r.flag /\ Complete(r),
           ~r.flag /\ r.status = "Succeeded" => Complete(r),
           InSequence /\ ~Shares(p) =>
               /\ r.tx \notin {"connecting", "calling"}
               /\ r.tx = "done" => r.status # "Init"
               /\ r.flag => ~r.ltimer /\ r.told \in Final /\ r.status = r.told
               /\ ~r.flag => r.status \in Final
    PROVE  GoodStep(p)
<1> DEFINE q == Completed(r)
<1>1. px' = [px EXCEPT ![p] = q]
  BY DEF Finish
<1>2. q \in ProxyState /\ q.phase = "sent" /\ q.flag
  BY CompletedFields
<1>3. /\ q.kind = r.kind /\ q.status = r.status /\ q.tx = r.tx /\ q.tasks = r.tasks
      /\ q.valid = r.valid /\ q.recvNum = r.recvNum
      /\ q.sumNum = r.sumNum /\ q.recvTypes = r.recvTypes
      /\ q.told = IF r.flag THEN r.told ELSE r.status
      /\ r.flag => q.ltimer = r.ltimer
      /\ ~r.flag => q.ltimer = FALSE
  BY CompletedMore
<1> HIDE DEF q
<1>4. Complete(r) => Complete(q)
  BY <1>3 DEF Complete
<1>5. Honest(q)
  BY <1>2, <1>3, <1>4 DEF Honest
<1>6. ASSUME InSequence, ~Shares(p) PROVE Settled(q)
  BY <1>2, <1>3, <1>6 DEF Settled
<1> QED BY <1>1, <1>2, <1>5, <1>6 DEF GoodStep, Good

(* A response reaches an open request, in sequence only after its reply. *)
LEMMA DeliveredGood ==
    ASSUME GInv, NEW p \in Proxies, Delivers(p)
    PROVE  /\ px[p] \in ProxyState /\ Honest(px[p])
           /\ px[p].phase = "sent" /\ ~px[p].flag
           /\ InSequence /\ ~Shares(p) => px[p].tx = "done" /\ Settled(px[p])
<1>1. /\ px[p] \in ProxyState /\ Honest(px[p]) /\ px[p].phase = "sent" /\ ~px[p].flag
      /\ InSequence => Shares(p) \/ Settled(px[p])
  BY GoodFacts, DeliveredOpen
<1>2. ASSUME InSequence, ~Shares(p) PROVE px[p].tx = "done"
  <2>1. PICK q \in Requests : /\ px[q].sn # 0 /\ requestMap[px[q].sn] = p
                              /\ px[q].tx = "done"
    BY <1>2 DEF Delivers, InSequence
  <2>2. q \in Proxies /\ px[q] \in ProxyState /\ RecordOK(px[q])
    BY GoodFacts DEF Proxies
  <2>3. px[q].sn \in SNs /\ px[q].phase = "sent"
    BY <2>1, <2>2 DEF RecordOK, ProxyState
  <2>4. px[p].sn = px[q].sn
    BY <2>1, <2>3 DEF GInv, IInv, MapOwned
  <2>5. q = p
    BY <1>2, <2>2, <2>3, <2>4 DEF Shares
  <2> QED BY <2>1, <2>5
<1> QED BY <1>1, <1>2

LEMMA AppGood == ASSUME GInv, NEW p \in Proxies, App(p) PROVE GoodStep(p)
<1> DEFINE o == px[p]
<1>1. /\ o \in ProxyState /\ RecordOK(o) /\ Honest(o)
  BY GoodFacts
<1>2. ASSUME NEW k \in Kinds, NEW s \in SNs, o.phase = "none",
             px' = [px EXCEPT ![p].phase = "made", ![p].kind = k, ![p].sn = s]
      PROVE  GoodStep(p)
  <2> DEFINE q == [o EXCEPT !.phase = "made", !.kind = k, !.sn = s]
  <2>1. /\ q \in ProxyState /\ q.phase = "made" /\ q.status = o.status /\ q.told = o.told
        /\ q.flag = o.flag /\ q.tx = o.tx /\ q.tasks = o.tasks
    BY <1>1, <1>2 DEF ProxyState, Phases
  <2>2. px' = [px EXCEPT ![p] = q]
    BY <1>2
  <2> HIDE DEF q
  <2>3. Honest(q) /\ Settled(q)
    BY <1>1, <1>2, <2>1 DEF Honest, Settled, RecordOK
  <2> QED BY <2>1, <2>2, <2>3 DEF GoodStep, Good
<1>3. nextSn \in SNs
  BY GoodFacts DEF IInv, TypeOK
<1>4. CASE \E k \in Kinds : NewRequest(p, k)
  BY <1>2, <1>3, <1>4 DEF NewRequest
<1>5. CASE \E s \in SNs : NewAnswer(p, s)
  <2>1. PICK s \in SNs : NewAnswer(p, s)
    BY <1>5
  <2>2. o.phase = "none" /\ px' = [px EXCEPT ![p].phase = "made", ![p].sn = s]
    BY <2>1 DEF NewAnswer
  <2> DEFINE q == [o EXCEPT !.phase = "made", !.sn = s]
  <2>3. /\ q \in ProxyState /\ q.phase = "made" /\ q.status = o.status /\ q.told = o.told
        /\ q.flag = o.flag /\ q.tx = o.tx /\ q.tasks = o.tasks
    BY <1>1, <2>2 DEF ProxyState, Phases
  <2>4. px' = [px EXCEPT ![p] = q]
    BY <2>2
  <2> HIDE DEF q
  <2>5. Honest(q) /\ Settled(q)
    BY <1>1, <2>2, <2>3 DEF Honest, Settled, RecordOK
  <2> QED BY <2>3, <2>4, <2>5 DEF GoodStep, Good
<1>6. CASE Send(p)
  <2> DEFINE q == [o EXCEPT !.phase = "sent", !.tx = "connecting"]
  <2>1. o.phase = "made" /\ px' = [px EXCEPT ![p] = q]
    BY <1>6 DEF Send
  <2>2. /\ q \in ProxyState /\ q.phase = "sent" /\ q.status = o.status /\ q.told = o.told
        /\ q.flag = o.flag /\ q.tx = "connecting" /\ q.tasks = o.tasks
        /\ q.timer = o.timer /\ q.ltimer = o.ltimer
    BY <1>1 DEF ProxyState, Phases, TxStates
  <2> HIDE DEF q
  <2>3. Honest(q) /\ Settled(q)
    BY <1>1, <2>1, <2>2 DEF Honest, Settled, RecordOK
  <2> QED BY <2>1, <2>2, <2>3 DEF GoodStep, Good
<1>7. CASE SendPayloadFails(p)
  <2> DEFINE r == [o EXCEPT !.phase = "sent", !.status = "Failed"]
  <2>1. o.phase = "made" /\ Finish(p, r)
    BY <1>7 DEF SendPayloadFails
  <2>2. /\ r \in ProxyState /\ r.phase = "sent" /\ r.status = "Failed" /\ r.told = o.told
        /\ r.flag = o.flag /\ r.tx = o.tx
    BY <1>1 DEF ProxyState, Phases, Status
  <2> HIDE DEF r
  <2>3. ~r.flag /\ r.told # "Succeeded" /\ r.tx = "idle" /\ "Failed" \in Final
    BY <1>1, <2>1, <2>2 DEF Honest, RecordOK, Final
  <2> QED BY <2>1, <2>2, <2>3, FinishGood
<1> QED BY <1>4, <1>5, <1>6, <1>7 DEF App

LEMMA SessionGood == ASSUME GInv, NEW p \in Proxies, Session(p) PROVE GoodStep(p)
<1> DEFINE o == px[p]
<1>1. /\ o \in ProxyState /\ Honest(o) /\ (InSequence => Shares(p) \/ Settled(o))
      /\ o.tx = "connecting" /\ o.phase = "sent"
  BY GoodFacts, BusyIsSent DEF Session, SessionReady, SessionFails
<1>2. CASE SessionReady(p)
  <2> DEFINE q == [o EXCEPT !.tx = "calling"]
  <2>1. px' = [px EXCEPT ![p] = q]
    BY <1>2 DEF SessionReady, Keep
  <2>2. /\ q \in ProxyState /\ q.phase = "sent" /\ q.kind = o.kind /\ q.status = o.status
        /\ q.told = o.told /\ q.flag = o.flag /\ q.tx = "calling" /\ q.tasks = o.tasks
        /\ q.timer = o.timer /\ q.ltimer = o.ltimer /\ q.valid = o.valid
        /\ q.recvNum = o.recvNum /\ q.sumNum = o.sumNum /\ q.recvTypes = o.recvTypes
    BY <1>1 DEF ProxyState, TxStates
  <2> HIDE DEF q
  <2>3. Honest(q)
    BY <1>1, <2>2 DEF Honest, Complete
  <2>4. Settled(o) => Settled(q)
    BY <1>1, <2>2 DEF Settled
  <2> QED BY <1>1, <2>1, <2>2, <2>3, <2>4 DEF GoodStep, Good
<1>3. CASE SessionFails(p)
  <2> DEFINE r == [o EXCEPT !.tx = "done", !.status = "Failed"]
  <2>1. Finish(p, r)
    BY <1>3 DEF SessionFails
  <2>2. /\ r \in ProxyState /\ r.phase = "sent" /\ r.kind = o.kind /\ r.status = "Failed"
        /\ r.told = o.told /\ r.flag = o.flag /\ r.tx = "done"
        /\ r.valid = o.valid
        /\ r.recvNum = o.recvNum /\ r.sumNum = o.sumNum /\ r.recvTypes = o.recvTypes
    BY <1>1 DEF ProxyState, TxStates, Status
  <2> HIDE DEF r
  <2>3. r.told = "Succeeded" => r.flag /\ Complete(r)
    BY <1>1, <2>2 DEF Honest, Complete
  <2>4. InSequence /\ ~Shares(p) => ~r.flag
    BY <1>1, <2>2 DEF Settled
  <2>5. "Failed" \in Final /\ "Failed" # "Init" /\ "Failed" # "Succeeded"
    BY DEF Final
  <2> QED BY <2>1, <2>2, <2>3, <2>4, <2>5, FinishGood
<1> QED BY <1>2, <1>3 DEF Session

(* A handler that leaves the request as it is, but for timers. *)
LEMMA KeepGood ==
    ASSUME GInv, NEW p \in Proxies, NEW r \in ProxyState, Keep(p, r), r.phase = "sent",
           r.kind = px[p].kind, r.status = px[p].status, r.told = px[p].told,
           r.flag = px[p].flag, r.tx = px[p].tx, r.tasks = px[p].tasks,
           r.valid = px[p].valid, r.recvNum = px[p].recvNum,
           r.sumNum = px[p].sumNum, r.recvTypes = px[p].recvTypes,
           r.timer => px[p].timer, r.ltimer => px[p].ltimer
    PROVE  GoodStep(p)
<1>1. /\ Honest(px[p]) /\ (InSequence => Shares(p) \/ Settled(px[p]))
  BY GoodFacts
<1>2. px' = [px EXCEPT ![p] = r]
  BY DEF Keep
<1>3. Honest(r)
  BY <1>1 DEF Honest, Complete
<1>4. Settled(px[p]) => Settled(r)
  BY DEF Settled
<1> QED BY <1>1, <1>2, <1>3, <1>4 DEF GoodStep, Good

(* on_reply_l() starts a timer and no more. *)
LEMMA OnReplyLMore ==
    ASSUME NEW r \in ProxyState
    PROVE  /\ OnReplyL(r).told = r.told /\ OnReplyL(r).valid = r.valid
           /\ OnReplyL(r).recvNum = r.recvNum /\ OnReplyL(r).sumNum = r.sumNum
           /\ OnReplyL(r).recvTypes = r.recvTypes
<1>1. CASE r.kind = "List"
  BY <1>1 DEF OnReplyL, ProxyState
<1>2. CASE r.kind = "ConfigDownload"
  BY <1>2 DEF OnReplyL, ProxyState
<1>3. CASE r.kind \notin {"List", "ConfigDownload"}
  BY <1>3 DEF OnReplyL, ProxyState
<1> QED BY <1>1, <1>2, <1>3

LEMMA OnReplyGood ==
    ASSUME GInv, NEW p \in Proxies, NEW code, NEW tx \in {"calling", "done"},
           OnReply(p, code, tx),
           tx = "done" \/ (code = "1xx" /\ "provisional" \in Faults)
    PROVE  GoodStep(p)
<1> DEFINE o  == px[p]
           st == ReplyStatus(o.kind, code)
           r0 == [o EXCEPT !.status = st, !.tx = tx]
           r  == OnReplyL(r0)
           rt == [r EXCEPT !.timer = TRUE]
<1>1. /\ o \in ProxyState /\ Honest(o) /\ (InSequence => Shares(p) \/ Settled(o))
      /\ o.tx = "calling" /\ o.phase = "sent"
  BY GoodFacts, BusyIsSent DEF OnReply
<1>2. /\ st \in Final \cup {"Replied"} /\ st \in Status
      /\ st = "Succeeded" => o.kind = "NoResponse" /\ code # "1xx"
  BY DEF ReplyStatus, Final, Status
<1>3. /\ IF r.status # "Replied" THEN Finish(p, r) ELSE Keep(p, rt)
  BY DEF OnReply
<1> HIDE DEF st
<1>4. /\ r0 \in ProxyState /\ r0.phase = "sent" /\ r0.kind = o.kind /\ r0.status = st
      /\ r0.told = o.told /\ r0.flag = o.flag /\ r0.tx = tx /\ r0.tasks = o.tasks
      /\ r0.valid = o.valid /\ r0.recvNum = o.recvNum /\ r0.sumNum = o.sumNum
      /\ r0.recvTypes = o.recvTypes
  BY <1>1, <1>2 DEF ProxyState, TxStates
<1> HIDE DEF r0
<1>5. /\ r \in ProxyState /\ r.phase = "sent" /\ r.kind = o.kind /\ r.status = st
      /\ r.told = o.told /\ r.flag = o.flag /\ r.tx = tx /\ r.tasks = o.tasks
      /\ r.valid = o.valid /\ r.recvNum = o.recvNum /\ r.sumNum = o.sumNum
      /\ r.recvTypes = o.recvTypes
  BY <1>4, OnReplyLFields, OnReplyLMore
<1> HIDE DEF r
<1>6. r.told = "Succeeded" => r.flag /\ Complete(r)
  BY <1>1, <1>5 DEF Honest, Complete
<1>7. InSequence => tx = "done"
  BY DEF InSequence
<1>8. InSequence /\ ~Shares(p) => ~o.flag /\ o.tasks = 0
  BY <1>1 DEF Settled
<1>9. CASE r.status # "Replied"
  <2>1. Finish(p, r)
    BY <1>3, <1>9
  <2>2. ~r.flag /\ r.status = "Succeeded" => Complete(r)
    BY <1>2, <1>5 DEF Complete
  <2>3. r.status \in Final /\ r.status # "Init"
    BY <1>2, <1>5, <1>9 DEF Final
  <2> QED BY <1>5, <1>6, <1>7, <1>8, <2>1, <2>2, <2>3, FinishGood
<1>10. CASE r.status = "Replied"
  <2>1. px' = [px EXCEPT ![p] = rt]
    BY <1>3, <1>10 DEF Keep
  <2>2. /\ rt \in ProxyState /\ rt.phase = "sent" /\ rt.kind = r.kind
        /\ rt.status = "Replied" /\ rt.told = r.told /\ rt.flag = r.flag
        /\ rt.tx = r.tx /\ rt.tasks = r.tasks /\ rt.valid = r.valid
        /\ rt.recvNum = r.recvNum /\ rt.sumNum = r.sumNum
        /\ rt.recvTypes = r.recvTypes
    BY <1>5, <1>10 DEF ProxyState
  <2> HIDE DEF rt
  <2>3. Honest(rt)
    BY <1>6, <2>2 DEF Honest, Complete
  <2>4. InSequence /\ ~Shares(p) => Settled(rt)
    BY <1>5, <1>7, <1>8, <2>2 DEF Settled
  <2> QED BY <2>1, <2>2, <2>3, <2>4 DEF GoodStep, Good
<1> QED BY <1>9, <1>10

LEMMA ReplyGood ==
    ASSUME GInv, NEW p \in Proxies, FinalReply(p) \/ ProvisionalReply(p)
    PROVE  GoodStep(p)
BY OnReplyGood DEF FinalReply, ProvisionalReply

(* What a response that is taken or loaded leaves of the request. *)
LEMMA TakenMore ==
    ASSUME NEW r \in ProxyState
    PROVE  /\ Taken(r).status = r.status /\ Taken(r).told = r.told
           /\ Taken(r).valid = r.valid /\ Taken(r).recvNum = r.recvNum
           /\ Taken(r).sumNum = r.sumNum /\ Taken(r).recvTypes = r.recvTypes
<1>1. r.resp + 1 \in Nat
  BY DEF ProxyState
<1> QED BY <1>1 DEF Taken, ProxyState

LEMMA LoadedMore ==
    ASSUME NEW r \in ProxyState
    PROVE  /\ Loaded(r).status = r.status /\ Loaded(r).told = r.told
           /\ Loaded(r).valid > 0 /\ Loaded(r).recvNum = r.recvNum
           /\ Loaded(r).sumNum = r.sumNum /\ Loaded(r).recvTypes = r.recvTypes
<1>1. Taken(r) \in ProxyState
  BY TakenFields
<1>2. Taken(r).valid + 1 \in Nat /\ Taken(r).valid + 1 > 0
  BY <1>1 DEF ProxyState
<1>3. /\ Loaded(r).status = Taken(r).status /\ Loaded(r).told = Taken(r).told
      /\ Loaded(r).valid = Taken(r).valid + 1 /\ Loaded(r).recvNum = Taken(r).recvNum
      /\ Loaded(r).sumNum = Taken(r).sumNum /\ Loaded(r).recvTypes = Taken(r).recvTypes
  BY <1>1 DEF Loaded, ProxyState
<1> QED BY <1>2, <1>3, TakenMore

(* A response of which the proxy takes note without completing. *)
LEMMA NotedGood ==
    ASSUME GInv, NEW p \in Proxies, Delivers(p), NEW r \in ProxyState,
           px' = [px EXCEPT ![p] = r],
           r.phase = "sent", r.told = px[p].told, r.flag = px[p].flag, r.tx = px[p].tx,
           r.status = "Succeeded" =>
               r.kind \in {"OneResponse", "ConfigDownload"} /\ Complete(r),
           \/ r.status \in Final
           \/ r.status = px[p].status /\ r.tasks = px[p].tasks
    PROVE  GoodStep(p)
<1>1. /\ Honest(px[p]) /\ ~px[p].flag
      /\ InSequence /\ ~Shares(p) => px[p].tx = "done" /\ Settled(px[p])
  BY DeliveredGood
<1>2. Honest(r)
  BY <1>1 DEF Honest
<1>3. InSequence /\ ~Shares(p) => Settled(r)
  BY <1>1 DEF Settled, Final
<1> QED BY <1>2, <1>3 DEF GoodStep, Good

LEMMA PlainResponseGood ==
    ASSUME GInv, NEW p \in Proxies, MalformedResponse(p) \/ PlainResponse(p)
    PROVE  GoodStep(p)
<1> DEFINE o == px[p]
<1>1. Delivers(p)
  BY DEF MalformedResponse, PlainResponse
<1>2. o \in ProxyState /\ Honest(o) /\ o.phase = "sent" /\ ~o.flag
  BY <1>1, DeliveredGood
<1>3. CASE MalformedResponse(p)
  <2> DEFINE l == Taken(o)
             r == [l EXCEPT !.status = "Failed", !.tasks = @ + 1]
  <2>1. px' = [px EXCEPT ![p] = r]
    BY <1>3 DEF MalformedResponse, Keep
  <2>2. /\ l \in ProxyState /\ l.phase = "sent" /\ l.flag = o.flag
        /\ l.tx = o.tx /\ l.told = o.told
    BY <1>2, TakenFields, TakenMore
  <2> HIDE DEF l
  <2>3. "Failed" \in Status /\ l.tasks + 1 \in Nat
    BY <2>2 DEF Status, ProxyState
  <2>4. /\ r \in ProxyState /\ r.phase = "sent" /\ r.flag = o.flag
        /\ r.tx = o.tx /\ r.told = o.told /\ r.status = "Failed"
    BY <2>2, <2>3 DEF ProxyState
  <2> HIDE DEF r
  <2>5. "Failed" \in Final /\ "Failed" # "Succeeded"
    BY DEF Final
  <2> QED BY <1>1, <2>1, <2>4, <2>5, NotedGood
<1>4. CASE PlainResponse(p) /\ o.kind = "OneResponse"
  <2> DEFINE l == Loaded(o)
             r == [l EXCEPT !.status = "Succeeded", !.tasks = @ + 1]
  <2>1. px' = [px EXCEPT ![p] = r]
    BY <1>4 DEF PlainResponse, Keep
  <2>2. /\ l \in ProxyState /\ l.phase = "sent" /\ l.flag = o.flag
        /\ l.tx = o.tx /\ l.told = o.told /\ l.kind = o.kind /\ l.valid > 0
    BY <1>2, LoadedFields, LoadedMore
  <2> HIDE DEF l
  <2>3. "Succeeded" \in Status /\ l.tasks + 1 \in Nat
    BY <2>2 DEF Status, ProxyState
  <2>4. /\ r \in ProxyState /\ r.phase = "sent" /\ r.flag = o.flag
        /\ r.tx = o.tx /\ r.told = o.told /\ r.status = "Succeeded"
        /\ r.kind = "OneResponse" /\ r.valid > 0
    BY <1>4, <2>2, <2>3 DEF ProxyState
  <2> HIDE DEF r
  <2>5. "Succeeded" \in Final /\ Complete(r)
    BY <2>4 DEF Final, Complete
  <2> QED BY <1>1, <2>1, <2>4, <2>5, NotedGood
<1>5. CASE PlainResponse(p) /\ o.kind = "NoResponse"
  <2> DEFINE r == Loaded(o)
  <2>1. px' = [px EXCEPT ![p] = r]
    BY <1>5 DEF PlainResponse, Keep
  <2>2. /\ r \in ProxyState /\ r.phase = "sent" /\ r.flag = o.flag /\ r.tx = o.tx
        /\ r.told = o.told /\ r.status = o.status /\ r.tasks = o.tasks
    BY <1>2, LoadedFields, LoadedMore
  <2> HIDE DEF r
  <2>3. o.status # "Succeeded"
    BY <1>2, <1>5 DEF Honest
  <2> QED BY <1>1, <2>1, <2>2, <2>3, NotedGood
<1> QED BY <1>3, <1>4, <1>5 DEF PlainResponse

(* A response that completes the request. *)
LEMMA EndsGood ==
    ASSUME GInv, NEW p \in Proxies, Delivers(p), NEW r \in ProxyState, Finish(p, r),
           r.phase = "sent", r.told = px[p].told, r.flag = px[p].flag, r.tx = px[p].tx,
           r.status \in Final, r.status = "Succeeded" => Complete(r)
    PROVE  GoodStep(p)
<1>1. /\ Honest(px[p]) /\ ~px[p].flag
      /\ InSequence /\ ~Shares(p) => px[p].tx = "done"
  BY DeliveredGood
<1>2. r.told # "Succeeded" /\ r.status # "Init"
  BY <1>1 DEF Honest, Final
<1> QED BY <1>1, <1>2, FinishGood

LEMMA ListResponseGood ==
    ASSUME GInv, NEW p \in Proxies, NEW num \in Nat, NEW sum \in Nat,
           ListResponse(p, num, sum)
    PROVE  GoodStep(p)
<1> DEFINE o == px[p]
           l == Loaded(o)
           r == [l EXCEPT !.fresh = TRUE, !.recvNum = @ + num, !.sumNum = sum]
           e == [r EXCEPT !.ltimer = FALSE, !.status = "Succeeded"]
<1>1. Delivers(p) /\ o.kind = "List"
  BY DEF ListResponse
<1>2. o \in ProxyState /\ Honest(o) /\ o.phase = "sent" /\ ~o.flag
  BY <1>1, DeliveredGood
<1>3. IF ListEnd(r) THEN Finish(p, e) ELSE Keep(p, r)
  BY DEF ListResponse
<1>4. /\ l \in ProxyState /\ l.phase = "sent" /\ l.kind = "List" /\ l.flag = o.flag
      /\ l.tx = o.tx /\ l.told = o.told /\ l.status = o.status /\ l.tasks = o.tasks
      /\ l.valid > 0
  BY <1>1, <1>2, LoadedFields, LoadedMore
<1> HIDE DEF l
<1>5. l.recvNum + num \in Nat
  BY <1>4 DEF ProxyState
<1>6. /\ r \in ProxyState /\ r.phase = "sent" /\ r.kind = "List" /\ r.flag = o.flag
      /\ r.tx = o.tx /\ r.told = o.told /\ r.status = o.status /\ r.tasks = o.tasks
      /\ r.valid > 0
  BY <1>4, <1>5 DEF ProxyState
<1> HIDE DEF r
<1>7. CASE ListEnd(r)
  <2>1. "Succeeded" \in Status
    BY DEF Status
  <2>2. /\ e \in ProxyState /\ e.phase = "sent" /\ e.kind = "List" /\ e.flag = o.flag
        /\ e.tx = o.tx /\ e.told = o.told /\ e.status = "Succeeded" /\ e.valid > 0
        /\ e.sumNum = r.sumNum /\ e.recvNum = r.recvNum
    BY <1>6, <2>1 DEF ProxyState
  <2> HIDE DEF e
  <2>3. Complete(e) /\ "Succeeded" \in Final
    BY <1>7, <2>2 DEF Complete, ListEnd, Final
  <2> QED BY <1>1, <1>3, <1>7, <2>2, <2>3, EndsGood
<1>8. CASE ~ListEnd(r)
  <2>1. px' = [px EXCEPT ![p] = r]
    BY <1>3, <1>8 DEF Keep
  <2>2. o.status # "Succeeded"
    BY <1>1, <1>2 DEF Honest
  <2> QED BY <1>1, <1>6, <2>1, <2>2, NotedGood
<1> QED BY <1>7, <1>8

LEMMA ConfigResponseGood ==
    ASSUME GInv, NEW p \in Proxies, NEW types \in SUBSET ConfigTypes,
           NEW ok \in BOOLEAN, NEW throws \in BOOLEAN,
           ConfigResponse(p, types, ok, throws)
    PROVE  GoodStep(p)
<1> DEFINE o   == px[p]
           l   == Loaded(o)
           got == o.recvTypes \cup types
           end == got = Requested
           st  == IF end THEN "Succeeded" ELSE l.status
           lt  == l.ltimer /\ ~end
           r   == [l EXCEPT !.recvTypes = got, !.ltimer = lt, !.status = st]
           f   == [r EXCEPT !.ltimer = FALSE, !.status = "Failed"]
           t   == [r EXCEPT !.threw = TRUE]
<1>1. Delivers(p) /\ o.kind = "ConfigDownload"
  BY DEF ConfigResponse
<1>2. o \in ProxyState /\ Honest(o) /\ o.phase = "sent" /\ ~o.flag
  BY <1>1, DeliveredGood
<1>3. IF types = {} /\ ~ok THEN Finish(p, f)
      ELSE IF throws THEN Keep(p, t)
      ELSE IF end THEN Finish(p, r)
      ELSE Keep(p, r)
  BY DEF ConfigResponse
<1>4. /\ l \in ProxyState /\ l.phase = "sent" /\ l.kind = "ConfigDownload"
      /\ l.flag = o.flag /\ l.tx = o.tx /\ l.told = o.told /\ l.status = o.status
      /\ l.tasks = o.tasks /\ l.valid > 0
  BY <1>1, <1>2, LoadedFields, LoadedMore
<1>5. got \in SUBSET ConfigTypes /\ (Requested \subseteq o.recvTypes \/ end => Requested \subseteq got)
  BY <1>2 DEF ProxyState
<1>6. /\ st \in Status /\ (end => st = "Succeeded") /\ (~end => st = o.status)
      /\ lt \in BOOLEAN
  BY <1>4 DEF ProxyState, Status
<1> HIDE DEF l, got, end, st, lt
<1>7. /\ r \in ProxyState /\ r.phase = "sent" /\ r.kind = "ConfigDownload"
      /\ r.flag = o.flag /\ r.tx = o.tx /\ r.told = o.told /\ r.status = st
      /\ r.tasks = o.tasks /\ r.valid > 0 /\ r.recvTypes = got
  BY <1>4, <1>5, <1>6 DEF ProxyState
<1> HIDE DEF r
<1>8. r.status = "Succeeded" => Complete(r)
  BY <1>1, <1>2, <1>5, <1>6, <1>7 DEF Honest, Complete
<1>9. CASE types = {} /\ ~ok
  <2>1. "Failed" \in Status
    BY DEF Status
  <2>2. /\ f \in ProxyState /\ f.phase = "sent" /\ f.flag = o.flag /\ f.tx = o.tx
        /\ f.told = o.told /\ f.status = "Failed"
    BY <1>7, <2>1 DEF ProxyState
  <2>3. Finish(p, f)
    BY <1>3, <1>9
  <2> HIDE DEF f
  <2>4. "Failed" \in Final /\ "Failed" # "Succeeded"
    BY DEF Final
  <2> QED BY <1>1, <2>2, <2>3, <2>4, EndsGood
<1>10. \/ r.status \in Final
       \/ r.status = o.status /\ r.tasks = o.tasks
  BY <1>6, <1>7 DEF Final
<1>11. CASE Keep(p, t)
  <2>1. px' = [px EXCEPT ![p] = t]
    BY <1>11 DEF Keep
  <2>2. /\ t \in ProxyState /\ t.phase = "sent" /\ t.kind = "ConfigDownload"
        /\ t.flag = o.flag /\ t.tx = o.tx /\ t.told = o.told /\ t.status = r.status
        /\ t.tasks = r.tasks /\ t.valid = r.valid /\ t.recvTypes = r.recvTypes
    BY <1>7 DEF ProxyState
  <2> HIDE DEF t
  <2>3. t.status = "Succeeded" => Complete(t)
    BY <1>7, <1>8, <2>2 DEF Complete
  <2> QED BY <1>1, <1>10, <2>1, <2>2, <2>3, NotedGood
<1>12. CASE end /\ Finish(p, r)
  <2>1. r.status \in Final
    BY <1>6, <1>7, <1>12 DEF Final
  <2> QED BY <1>1, <1>7, <1>8, <1>12, <2>1, EndsGood
<1>13. CASE Keep(p, r)
  <2>1. px' = [px EXCEPT ![p] = r]
    BY <1>13 DEF Keep
  <2> QED BY <1>1, <1>7, <1>8, <1>10, <2>1, NotedGood
<1> QED BY <1>3, <1>9, <1>11, <1>12, <1>13

LEMMA ResponseGood == ASSUME GInv, NEW p \in Proxies, Response(p) PROVE GoodStep(p)
<1>1. 0..MaxItems \subseteq Nat
  BY ProxyAssumption
<1> QED BY <1>1, PlainResponseGood, ListResponseGood, ConfigResponseGood DEF Response

LEMMA RunTaskGood == ASSUME GInv, NEW p \in Proxies, RunTask(p) PROVE GoodStep(p)
<1> DEFINE o == px[p]
           r == [o EXCEPT !.tasks = @ - 1]
<1>1. /\ o \in ProxyState /\ Honest(o) /\ (InSequence => Shares(p) \/ Settled(o))
      /\ o.tasks > 0 /\ o.phase = "sent"
  BY GoodFacts, BusyIsSent DEF RunTask
<1>2. o.tasks - 1 \in Nat /\ o.tasks # 0
  BY <1>1 DEF ProxyState
<1>3. Finish(p, r)
  BY DEF RunTask
<1>4. /\ r \in ProxyState /\ r.phase = "sent" /\ r.kind = o.kind /\ r.status = o.status
      /\ r.told = o.told /\ r.flag = o.flag /\ r.tx = o.tx /\ r.ltimer = o.ltimer
      /\ r.valid = o.valid /\ r.recvNum = o.recvNum /\ r.sumNum = o.sumNum
      /\ r.recvTypes = o.recvTypes
  BY <1>1, <1>2 DEF ProxyState
<1> HIDE DEF r
<1>5. /\ r.told = "Succeeded" => r.flag /\ Complete(r)
      /\ ~r.flag /\ r.status = "Succeeded" => Complete(r)
  BY <1>1, <1>4 DEF Honest, Complete
<1>6. ASSUME InSequence, ~Shares(p)
      PROVE  /\ r.tx \notin {"connecting", "calling"}
             /\ r.tx = "done" => r.status # "Init"
             /\ r.flag => ~r.ltimer /\ r.told \in Final /\ r.status = r.told
             /\ ~r.flag => r.status \in Final
  BY <1>1, <1>2, <1>4, <1>6 DEF Settled
<1> QED BY <1>3, <1>4, <1>5, <1>6, FinishGood

LEMMA TimerFiresGood == ASSUME GInv, NEW p \in Proxies, TimerFires(p) PROVE GoodStep(p)
<1> DEFINE o == px[p]
           r == [o EXCEPT !.timer = FALSE]
           e == [r EXCEPT !.status = "Timeout"]
<1>1. /\ o \in ProxyState /\ Honest(o) /\ (InSequence => Shares(p) \/ Settled(o))
      /\ o.timer /\ o.phase = "sent"
  BY GoodFacts, BusyIsSent DEF TimerFires
<1>2. IF r.status = "Replied" THEN Finish(p, e) ELSE Keep(p, r)
  BY DEF TimerFires
<1>3. /\ r \in ProxyState /\ r.phase = "sent" /\ r.kind = o.kind /\ r.status = o.status
      /\ r.told = o.told /\ r.flag = o.flag /\ r.tx = o.tx /\ r.tasks = o.tasks
      /\ r.timer = FALSE /\ r.ltimer = o.ltimer
      /\ r.valid = o.valid /\ r.recvNum = o.recvNum /\ r.sumNum = o.sumNum
      /\ r.recvTypes = o.recvTypes
  BY <1>1 DEF ProxyState
<1> HIDE DEF r
<1>4. CASE r.status = "Replied"
  <2>1. "Timeout" \in Status
    BY DEF Status
  <2>2. /\ e \in ProxyState /\ e.phase = "sent" /\ e.kind = o.kind
        /\ e.status = "Timeout" /\ e.told = o.told /\ e.flag = o.flag /\ e.tx = o.tx
        /\ e.valid = o.valid /\ e.recvNum = o.recvNum /\ e.sumNum = o.sumNum
        /\ e.recvTypes = o.recvTypes
    BY <1>3, <2>1 DEF ProxyState
  <2> HIDE DEF e
  <2>3. e.told = "Succeeded" => e.flag /\ Complete(e)
    BY <1>1, <2>2 DEF Honest, Complete
  <2>4. InSequence /\ ~Shares(p) => ~e.flag /\ e.tx \notin {"connecting", "calling"}
    BY <1>1, <1>3, <1>4, <2>2 DEF Settled, Final
  <2>5. "Timeout" \in Final /\ "Timeout" # "Init" /\ "Timeout" # "Succeeded"
    BY DEF Final
  <2> QED BY <1>2, <1>4, <2>2, <2>3, <2>4, <2>5, FinishGood
<1>5. CASE r.status # "Replied"
  BY <1>2, <1>3, <1>5, KeepGood
<1> QED BY <1>4, <1>5

LEMMA DerivedTimerGood ==
    ASSUME GInv, NEW p \in Proxies, DerivedTimer(p) PROVE GoodStep(p)
<1> DEFINE o == px[p]
<1>1. /\ o \in ProxyState /\ RecordOK(o) /\ Honest(o)
      /\ InSequence => Shares(p) \/ Settled(o)
      /\ o.ltimer /\ o.phase = "sent"
  BY GoodFacts, BusyIsSent
     DEF DerivedTimer, ListTimerTick, ListTimerExpires, ConfigTimerFires, TimerOrphaned
<1>2. CASE ListTimerTick(p)
  <2> DEFINE r == [o EXCEPT !.fresh = FALSE]
  <2>1. Keep(p, r)
    BY <1>2 DEF ListTimerTick
  <2>2. /\ r \in ProxyState /\ r.phase = "sent" /\ r.kind = o.kind /\ r.status = o.status
        /\ r.told = o.told /\ r.flag = o.flag /\ r.tx = o.tx /\ r.tasks = o.tasks
        /\ r.timer = o.timer /\ r.ltimer = o.ltimer
        /\ r.valid = o.valid /\ r.recvNum = o.recvNum /\ r.sumNum = o.sumNum
        /\ r.recvTypes = o.recvTypes
    BY <1>1 DEF ProxyState
  <2> HIDE DEF r
  <2> QED BY <2>1, <2>2, KeepGood
<1>3. CASE TimerOrphaned(p)
  <2> DEFINE r == [o EXCEPT !.ltimer = FALSE]
  <2>1. Keep(p, r)
    BY <1>3 DEF TimerOrphaned
  <2>2. /\ r \in ProxyState /\ r.phase = "sent" /\ r.kind = o.kind /\ r.status = o.status
        /\ r.told = o.told /\ r.flag = o.flag /\ r.tx = o.tx /\ r.tasks = o.tasks
        /\ r.timer = o.timer /\ r.ltimer = FALSE
        /\ r.valid = o.valid /\ r.recvNum = o.recvNum /\ r.sumNum = o.sumNum
        /\ r.recvTypes = o.recvTypes
    BY <1>1 DEF ProxyState
  <2> HIDE DEF r
  <2> QED BY <2>1, <2>2, KeepGood
<1>4. ASSUME InSequence, ~Shares(p) PROVE ~o.flag /\ o.tx = "done" /\ o.status # "Init"
  <2>1. ~o.flag /\ o.tx \notin {"connecting", "calling"}
    BY <1>1, <1>4 DEF Settled
  <2>2. o.tx = "done"
    BY <1>1, <2>1 DEF RecordOK, ProxyState, TxStates
  <2> QED BY <1>1, <1>4, <2>1, <2>2 DEF Settled
<1>5. CASE ListTimerExpires(p)
  <2> DEFINE r == [o EXCEPT !.ltimer = FALSE, !.status = "Timeout"]
  <2>1. Finish(p, r)
    BY <1>5 DEF ListTimerExpires
  <2>2. "Timeout" \in Status
    BY DEF Status
  <2>3. /\ r \in ProxyState /\ r.phase = "sent" /\ r.kind = o.kind
        /\ r.status = "Timeout" /\ r.told = o.told /\ r.flag = o.flag /\ r.tx = o.tx
        /\ r.valid = o.valid /\ r.recvNum = o.recvNum /\ r.sumNum = o.sumNum
        /\ r.recvTypes = o.recvTypes
    BY <1>1, <2>2 DEF ProxyState
  <2> HIDE DEF r
  <2>4. r.told = "Succeeded" => r.flag /\ Complete(r)
    BY <1>1, <2>3 DEF Honest, Complete
  <2>5. "Timeout" \in Final /\ "Timeout" # "Init" /\ "Timeout" # "Succeeded"
    BY DEF Final
  <2> QED BY <1>4, <2>1, <2>3, <2>4, <2>5, FinishGood
<1>6. CASE ConfigTimerFires(p)
  <2> DEFINE st == IF o.status = "Replied" THEN "Timeout" ELSE o.status
             r  == [o EXCEPT !.ltimer = FALSE, !.status = st]
  <2>1. Finish(p, r)
    BY <1>6 DEF ConfigTimerFires
  <2>2. /\ st \in Status /\ (st = "Succeeded" => o.status = "Succeeded")
        /\ o.status # "Init" => st \in Final
    BY <1>1 DEF ProxyState, Status, Final
  <2> HIDE DEF st
  <2>3. /\ r \in ProxyState /\ r.phase = "sent" /\ r.kind = o.kind
        /\ r.status = st /\ r.told = o.told /\ r.flag = o.flag /\ r.tx = o.tx
        /\ r.valid = o.valid /\ r.recvNum = o.recvNum /\ r.sumNum = o.sumNum
        /\ r.recvTypes = o.recvTypes
    BY <1>1, <2>2 DEF ProxyState
  <2> HIDE DEF r
  <2>4. /\ r.told = "Succeeded" => r.flag /\ Complete(r)
        /\ ~r.flag /\ r.status = "Succeeded" => Complete(r)
    BY <1>1, <2>2, <2>3 DEF Honest, Complete
  <2>5. "Init" \notin Final
    BY DEF Final
  <2> QED BY <1>4, <2>1, <2>2, <2>3, <2>4, <2>5, FinishGood
<1> QED BY <1>2, <1>3, <1>5, <1>6 DEF DerivedTimer

(* Nothing unsends a request or gives a request that is sent another SN. *)
SentKept ==
    \A q \in Proxies : /\ px[q].phase = "sent" => px'[q].phase = "sent"
                       /\ px'[q].phase = "sent" => px'[q].sn = px[q].sn

LEMMA HandlerKeepsSent ==
    ASSUME IInv, NEW p \in Proxies, Handler(p)
    PROVE  SentKept
<1>1. px \in [Proxies -> ProxyState]
  BY DEF IInv, TypeOK
<1>2. PICK r \in ProxyState :
        /\ r.phase = "sent" /\ r.sn = px[p].sn
        /\ Finish(p, r) \/ Keep(p, r)
  BY DEF Handler
<1>3. PICK x \in ProxyState :
        px' = [px EXCEPT ![p] = x] /\ x.phase = "sent" /\ x.sn = px[p].sn
  <2>1. CASE Keep(p, r)
    BY <1>2, <2>1 DEF Keep
  <2>2. CASE Finish(p, r)
    <3>1. /\ Completed(r) \in ProxyState
          /\ Completed(r).phase = "sent" /\ Completed(r).sn = px[p].sn
      BY <1>2, CompletedFields
    <3>2. px' = [px EXCEPT ![p] = Completed(r)]
      BY <2>2 DEF Finish
    <3> QED BY <3>1, <3>2
  <2> QED BY <1>2, <2>1, <2>2
<1> QED BY <1>1, <1>3 DEF SentKept

LEMMA AppKeepsSent ==
    ASSUME IInv, NEW p \in Proxies, App(p)
    PROVE  SentKept
<1>1. px \in [Proxies -> ProxyState] /\ px[p] \in ProxyState
  BY DEF IInv, TypeOK
<1>2. CASE SendPayloadFails(p)
  BY <1>2, SendPayloadFailsHandler, HandlerKeepsSent
<1>3. CASE Send(p)
  <2> DEFINE x == [px[p] EXCEPT !.phase = "sent", !.tx = "connecting"]
  <2>1. px' = [px EXCEPT ![p] = x]
    BY <1>3 DEF Send
  <2>2. x.phase = "sent" /\ x.sn = px[p].sn
    BY <1>1 DEF ProxyState
  <2> HIDE DEF x
  <2> QED BY <1>1, <2>1, <2>2 DEF SentKept
<1>4. ASSUME NEW x, px' = [px EXCEPT ![p] = x], x.phase = "made", px[p].phase = "none"
      PROVE  SentKept
  BY <1>1, <1>4 DEF SentKept
<1>5. CASE \E k \in Kinds : NewRequest(p, k)
  <2>1. PICK k \in Kinds : NewRequest(p, k)
    BY <1>5
  <2> DEFINE x == [px[p] EXCEPT !.phase = "made", !.kind = k, !.sn = nextSn]
  <2>2. px' = [px EXCEPT ![p] = x] /\ px[p].phase = "none"
    BY <2>1 DEF NewRequest
  <2>3. x.phase = "made"
    BY <1>1 DEF ProxyState
  <2> HIDE DEF x
  <2> QED BY <1>4, <2>2, <2>3
<1>6. CASE \E s \in SNs : NewAnswer(p, s)
  <2>1. PICK s \in SNs : NewAnswer(p, s)
    BY <1>6
  <2> DEFINE x == [px[p] EXCEPT !.phase = "made", !.sn = s]
  <2>2. px' = [px EXCEPT ![p] = x] /\ px[p].phase = "none"
    BY <2>1 DEF NewAnswer
  <2>3. x.phase = "made"
    BY <1>1 DEF ProxyState
  <2> HIDE DEF x
  <2> QED BY <1>4, <2>2, <2>3
<1> QED BY <1>2, <1>3, <1>5, <1>6 DEF App

(* A step of p keeps every proxy good: those it does not touch keep sharing  *)
(* their SN if they did.                                                     *)
LEMMA StepGood ==
    ASSUME GInv, IInv', SentKept, NEW p \in Proxies, GoodStep(p)
    PROVE  \A q \in Proxies : Good(q, px[q])'
<1> SUFFICES ASSUME NEW q \in Proxies PROVE Good(q, px[q])'
  OBVIOUS
<1>1. PICK r \in ProxyState : px' = [px EXCEPT ![p] = r] /\ Good(p, r)
  BY DEF GoodStep
<1>2. px \in [Proxies -> ProxyState] /\ TypeOK /\ TypeOK'
  BY DEF GInv, IInv, TypeOK
<1>3. Good(q, px'[q])
  <2>1. CASE q = p
    BY <1>1, <1>2, <2>1
  <2>2. CASE q # p
    BY <1>1, <1>2, <2>2 DEF GInv
  <2> QED BY <2>1, <2>2
<1>4. CASE px'[q].phase # "sent"
  <2>1. RecordOK(px'[q])
    BY DEF IInv
  <2>2. Settled(px'[q])
    BY <1>4, <2>1 DEF RecordOK, Settled
  <2> QED BY <1>3, <2>2 DEF Good
<1>5. CASE px'[q].phase = "sent"
  <2>1. \A o \in Proxies : px[o].phase = "sent" =>
            px'[o].phase = "sent" /\ px'[o].sn = px[o].sn
    BY DEF SentKept
  <2>2. px'[q].sn = px[q].sn
    BY <1>5 DEF SentKept
  <2>3. Shares(q) => Shares(q)'
    BY <1>2, <2>1, <2>2, SharesStable
  <2> QED BY <1>3, <2>3 DEF Good
<1> QED BY <1>4, <1>5

LEMMA NextGood == GInv /\ [Next]_vars => GInv'
<1> SUFFICES ASSUME GInv, [Next]_vars PROVE GInv'
  OBVIOUS
<1>1. IInv /\ IInv'
  BY NextInv DEF GInv
<1>2. CASE UNCHANGED vars
  <2>1. px' = px
    BY <1>2 DEF vars
  <2>2. \A p \in Proxies : Shares(p)' <=> Shares(p)
    BY <2>1 DEF Shares
  <2> QED BY <1>1, <2>1, <2>2 DEF GInv, Good
<1>3. ASSUME NEW p \in Proxies, App(p)
      PROVE  GInv'
  BY <1>1, <1>3, AppGood, AppKeepsSent, StepGood DEF GInv
<1>4. ASSUME NEW p \in Proxies,
             \/ Session(p) \/ FinalReply(p) \/ ProvisionalReply(p) \/ Response(p)
             \/ RunTask(p) \/ TimerFires(p) \/ DerivedTimer(p)
      PROVE  GInv'
  <2>1. Handler(p)
    BY <1>1, <1>4, SessionHandler, ReplyHandler, ResponseHandler, RunTaskHandler,
       TimerFiresHandler, DerivedTimerHandler
  <2>2. GoodStep(p)
    BY <1>4, SessionGood, ReplyGood, ResponseGood, RunTaskGood, TimerFiresGood,
       DerivedTimerGood
  <2> QED BY <1>1, <2>1, <2>2, HandlerKeepsSent, StepGood DEF GInv
<1> QED BY <1>2, <1>3, <1>4 DEF Next

LEMMA InitGood == Init => GInv
<1> SUFFICES ASSUME Init PROVE GInv
  OBVIOUS
<1>1. \A p \in Proxies : px[p] = NewProxy
  BY DEF Init
<1>2. /\ NewProxy.phase = "none" /\ NewProxy.flag = FALSE /\ NewProxy.tx = "idle"
      /\ NewProxy.tasks = 0 /\ NewProxy.status = "Init" /\ NewProxy.told = "Init"
  BY DEF NewProxy
<1>3. Honest(NewProxy) /\ Settled(NewProxy)
  BY <1>2 DEF Honest, Settled
<1> QED BY <1>1, <1>3, InitInv DEF GInv, Good

LEMMA GoodInvariance == Spec => []GInv
BY InitGood, NextGood, PTL DEF Spec

(* Succeeded is reported only for a request whose answer has come, a whole   *)
(* list and every requested type included.                                   *)
THEOREM SuccessCorrect == Spec => []SuccessIsComplete
<1>1. ASSUME GInv, NEW p \in Proxies, px[p].told = "Succeeded"
      PROVE  CASE px[p].kind = "NoResponse"     -> px[p].tx = "done"
               [] px[p].kind = "OneResponse"    -> px[p].valid > 0
               [] px[p].kind = "List"           -> px[p].valid > 0 /\ px[p].sumNum <= px[p].recvNum
               [] px[p].kind = "ConfigDownload" -> px[p].valid > 0 /\ Requested \subseteq px[p].recvTypes
  <2>1. Complete(px[p]) /\ px[p].kind \in Kinds
    BY <1>1, GoodFacts DEF Honest, ProxyState
  <2>2. CASE px[p].kind = "NoResponse"
    BY <2>1, <2>2 DEF Complete
  <2>3. CASE px[p].kind = "OneResponse"
    BY <2>1, <2>3 DEF Complete
  <2>4. CASE px[p].kind = "List"
    BY <2>1, <2>4 DEF Complete
  <2>5. CASE px[p].kind = "ConfigDownload"
    BY <2>1, <2>5 DEF Complete
  <2> QED BY <2>1, <2>2, <2>3, <2>4, <2>5 DEF Kinds
<1>2. GInv => SuccessIsComplete
  BY <1>1 DEF SuccessIsComplete
<1> QED BY <1>2, GoodInvariance, PTL

(* If no response overtakes the reply and no 1xx comes, the outcome of a     *)
(* request with an SN of its own is a final one and stays what was told.     *)
THEOREM OutcomeCorrect == ASSUME InSequence PROVE Spec => []OutcomeIsFinal
<1>1. ASSUME GInv, NEW p \in Proxies, px[p].flag, ~Shares(p)
      PROVE  px[p].told \in Final /\ px[p].status = px[p].told
  BY <1>1, GoodFacts DEF Settled
<1>2. GInv => OutcomeIsFinal
  BY <1>1 DEF OutcomeIsFinal
<1> QED BY <1>2, GoodInvariance, PTL

-------------------------------------------------------------------------------
\* Own SNs: with no more requests than numbers, no two of them share one

(* No answers are built on numbers of the peer, and get_new_sn() never wraps *)
(* onto a number that is in use.                                             *)
EnoughSNs == Answers = {} /\ IsFiniteSet(Requests) /\ Cardinality(Requests) <= MaxSN

Made == {p \in Proxies : px[p].phase # "none"}

(* The requests that exist have the first numbers, and the next is free.     *)
OwnSNs ==
    /\ Cardinality(Made) < MaxSN => nextSn = Cardinality(Made) + 1
    /\ \A p \in Made : px[p].sn \in 1..Cardinality(Made)
    /\ \A p, q \in Made : p # q => px[p].sn # px[q].sn

LEMMA MadeFinite ==
    ASSUME EnoughSNs
    PROVE  /\ IsFiniteSet(Proxies) /\ Cardinality(Proxies) <= MaxSN
           /\ IsFiniteSet(Made) /\ Cardinality(Made) \in Nat
<1>1. Proxies = Requests
  BY DEF EnoughSNs, Proxies
<1>2. Made \subseteq Proxies
  BY DEF Made
<1> QED BY <1>1, <1>2, FS_Subset, FS_CardinalityType DEF EnoughSNs

LEMMA InitOwnSNs == EnoughSNs /\ Init => OwnSNs
<1> SUFFICES ASSUME EnoughSNs, Init PROVE OwnSNs
  OBVIOUS
<1>1. \A p \in Proxies : px[p].phase = "none"
  BY DEF Init, NewProxy
<1>2. Made = {}
  BY <1>1 DEF Made
<1>3. Cardinality(Made) = 0
  BY <1>2, FS_EmptySet
<1>4. nextSn = 1
  BY DEF Init
<1> QED BY <1>2, <1>3, <1>4 DEF OwnSNs

(* A new request takes the next number. *)
LEMMA NewRequestOwnSNs ==
    ASSUME EnoughSNs, IInv, OwnSNs, NEW p \in Proxies, NEW k \in Kinds, NewRequest(p, k)
    PROVE  OwnSNs'
<1> DEFINE n == Cardinality(Made)
<1>1. px \in [Proxies -> ProxyState] /\ px[p] \in ProxyState /\ MaxSN \in Nat
  BY ProxyAssumption DEF IInv, TypeOK
<1>2. /\ px[p].phase = "none"
      /\ px' = [px EXCEPT ![p].phase = "made", ![p].kind = k, ![p].sn = nextSn]
      /\ nextSn' = IF nextSn = MaxSN THEN 1 ELSE nextSn + 1
  BY DEF NewRequest
<1>3. /\ px'[p].phase = "made" /\ px'[p].sn = nextSn
      /\ \A q \in Proxies \ {p} : px'[q] = px[q]
  BY <1>1, <1>2 DEF ProxyState
<1>4. Made' = Made \cup {p} /\ p \notin Made
  BY <1>2, <1>3 DEF Made
<1>5. n \in Nat /\ Cardinality(Made') = n + 1
  BY <1>4, MadeFinite, FS_AddElement
<1>6. n < MaxSN
  <2>1. Made' \subseteq Proxies
    BY <1>4 DEF Made
  <2>2. Cardinality(Made') <= Cardinality(Proxies) /\ Cardinality(Proxies) \in Nat
    BY <2>1, MadeFinite, FS_Subset, FS_CardinalityType
  <2> QED BY <1>1, <1>5, <2>2, MadeFinite
<1> DEFINE n1 == Cardinality(Made')
<1>7. n1 = n + 1 /\ nextSn = n + 1
  BY <1>5, <1>6 DEF OwnSNs
<1>8. n1 < MaxSN => nextSn' = n1 + 1
  BY <1>1, <1>2, <1>5, <1>7
<1>9. \A q \in Made : px'[q] = px[q] /\ px[q].sn \in 1..n
  BY <1>3, <1>4 DEF OwnSNs, Made
<1>10. \A q \in Made' : px'[q].sn \in 1..n1
  BY <1>3, <1>4, <1>5, <1>7, <1>9
<1>11. ASSUME NEW a \in Made', NEW b \in Made', a # b PROVE px'[a].sn # px'[b].sn
  <2>1. \A q \in Made : px'[q].sn # nextSn
    BY <1>5, <1>7, <1>9
  <2>2. CASE a \in Made /\ b \in Made
    BY <1>9, <1>11, <2>2 DEF OwnSNs
  <2>3. CASE a = p \/ b = p
    BY <1>3, <1>4, <1>11, <2>1, <2>3
  <2> QED BY <1>4, <2>2, <2>3
<1> QED BY <1>8, <1>10, <1>11 DEF OwnSNs

(* Every other step leaves the numbers. *)
LEMMA KeptOwnSNs ==
    ASSUME OwnSNs, nextSn' = nextSn,
           \A q \in Proxies : /\ px'[q].phase = "none" <=> px[q].phase = "none"
                              /\ px'[q].sn = px[q].sn
    PROVE  OwnSNs'
<1>1. Made' = Made
  BY DEF Made
<1>2. \A q \in Made : px'[q].sn = px[q].sn
  BY DEF Made
<1> QED BY <1>1, <1>2 DEF OwnSNs

LEMMA HandlerOwnSNs ==
    ASSUME IInv, OwnSNs, NEW p \in Proxies, Handler(p)
    PROVE  OwnSNs'
<1>1. px \in [Proxies -> ProxyState]
  BY DEF IInv, TypeOK
<1>2. PICK r \in ProxyState :
        /\ px[p].phase # "none" /\ r.phase = "sent" /\ r.sn = px[p].sn
        /\ Finish(p, r) \/ Keep(p, r)
        /\ nextSn' = nextSn
  BY DEF Handler
<1>3. PICK x \in ProxyState :
        px' = [px EXCEPT ![p] = x] /\ x.phase = "sent" /\ x.sn = px[p].sn
  <2>1. CASE Keep(p, r)
    BY <1>2, <2>1 DEF Keep
  <2>2. CASE Finish(p, r)
    <3>1. /\ Completed(r) \in ProxyState
          /\ Completed(r).phase = "sent" /\ Completed(r).sn = px[p].sn
      BY <1>2, CompletedFields
    <3>2. px' = [px EXCEPT ![p] = Completed(r)]
      BY <2>2 DEF Finish
    <3> QED BY <3>1, <3>2
  <2> QED BY <1>2, <2>1, <2>2
<1>4. \A q \in Proxies : /\ px'[q].phase = "none" <=> px[q].phase = "none"
                         /\ px'[q].sn = px[q].sn
  BY <1>1, <1>2, <1>3
<1> QED BY <1>2, <1>4, KeptOwnSNs

LEMMA NextOwnSNs == EnoughSNs /\ IInv /\ OwnSNs /\ [Next]_vars => OwnSNs'
<1> SUFFICES ASSUME EnoughSNs, IInv, OwnSNs, [Next]_vars PROVE OwnSNs'
  OBVIOUS
<1>1. CASE UNCHANGED vars
  BY <1>1, KeptOwnSNs DEF vars
<1>2. ASSUME NEW p \in Proxies, App(p) PROVE OwnSNs'
  <2>1. p \notin Answers
    BY DEF EnoughSNs
  <2>2. CASE \E k \in Kinds : NewRequest(p, k)
    BY <2>2, NewRequestOwnSNs
  <2>3. CASE Send(p)
    <3>1. px \in [Proxies -> ProxyState]
      BY DEF IInv, TypeOK
    <3>2. /\ px[p].phase = "made" /\ nextSn' = nextSn
          /\ px' = [px EXCEPT ![p].phase = "sent", ![p].tx = "connecting"]
      BY <2>3 DEF Send
    <3>3. /\ px'[p].phase = "sent" /\ px'[p].sn = px[p].sn
          /\ \A q \in Proxies \ {p} : px'[q] = px[q]
      BY <3>1, <3>2 DEF ProxyState
    <3>4. \A q \in Proxies : /\ px'[q].phase = "none" <=> px[q].phase = "none"
                             /\ px'[q].sn = px[q].sn
      BY <3>2, <3>3
    <3> QED BY <3>2, <3>4, KeptOwnSNs
  <2>4. CASE SendPayloadFails(p)
    BY <2>4, SendPayloadFailsHandler, HandlerOwnSNs
  <2> QED BY <1>2, <2>1, <2>2, <2>3, <2>4 DEF App
<1>3. ASSUME NEW p \in Proxies,
             \/ Session(p) \/ FinalReply(p) \/ ProvisionalReply(p) \/ Response(p)
             \/ RunTask(p) \/ TimerFires(p) \/ DerivedTimer(p)
      PROVE  OwnSNs'
  BY <1>3, SessionHandler, ReplyHandler, ResponseHandler, RunTaskHandler,
     TimerFiresHandler, DerivedTimerHandler, HandlerOwnSNs
<1> QED BY <1>1, <1>2, <1>3 DEF Next

(* What the argument about the promise needs of it. *)
Apart == \A p \in Proxies : px[p].phase = "sent" => ~Shares(p)

LEMMA NobodyShares ==
    ASSUME IInv, OwnSNs
    PROVE  Apart
BY DEF OwnSNs, Made, Shares, Apart

-------------------------------------------------------------------------------
\* The promise

(* p goes from one phase to another with an outcome, the others stay. *)
PromiseStep(p) ==
    \/ Phase(p)' = Phase(p) /\ px'[p].told = px[p].told
    \/ Phase(p) = "idle" /\ Phase(p)' = "open" /\ px'[p].told = px[p].told
    \/ /\ Phase(p) \in {"idle", "open"} /\ Phase(p)' = "settled"
       /\ px'[p].told \in Final

(* Such a step is one of RequestPromise. *)
LEMMA StepKeepsPromise ==
    ASSUME NEW p \in Proxies, PromiseStep(p),
           \A q \in Proxies \ {p} : px'[q] = px[q]
    PROVE  [Promise!Next]_(Promise!pvars)
<1> DEFINE state == [q \in Proxies |-> Phase(q)]
           outcome == [q \in Proxies |-> px[q].told]
<1>1. \A q \in Proxies \ {p} : Phase(q)' = Phase(q) /\ px'[q].told = px[q].told
  BY DEF Phase
<1>2. CASE Phase(p)' = Phase(p) /\ px'[p].told = px[p].told
  <2>1. state' = state /\ outcome' = outcome
    BY <1>1, <1>2
  <2> QED BY <2>1 DEF Promise!pvars
<1>3. CASE Phase(p) = "idle" /\ Phase(p)' = "open" /\ px'[p].told = px[p].told
  <2>1. state' = [state EXCEPT ![p] = "open"] /\ outcome' = outcome /\ state[p] = "idle"
    BY <1>1, <1>3
  <2>2. Promise!Open(p)
    BY <2>1 DEF Promise!Open
  <2> QED BY <2>2 DEF Promise!Next
<1>4. CASE /\ Phase(p) \in {"idle", "open"} /\ Phase(p)' = "settled"
           /\ px'[p].told \in Final
  <2>1. PICK o \in Final : px'[p].told = o
    BY <1>4
  <2>2. /\ state' = [state EXCEPT ![p] = "settled"] /\ state[p] \in {"idle", "open"}
        /\ outcome' = [outcome EXCEPT ![p] = o]
    BY <1>1, <1>4, <2>1
  <2>3. Promise!Settle(p, o)
    BY <2>2 DEF Promise!Settle
  <2>4. Promise!Next
    BY <2>3 DEF Promise!Next
  <2> QED BY <2>4
<1> QED BY <1>2, <1>3, <1>4 DEF PromiseStep

(* A handler settles an open request, with a final outcome, or leaves it. *)
LEMMA HandlerPromise ==
    ASSUME InSequence, IInv, GInv', NEW p \in Proxies, Handler(p), ~Shares(p)'
    PROVE  PromiseStep(p) /\ \A q \in Proxies \ {p} : px'[q] = px[q]
<1>1. px \in [Proxies -> ProxyState]
  BY DEF IInv, TypeOK
<1>2. PICK r \in ProxyState :
        /\ px[p].phase # "none" /\ r.phase = "sent"
        /\ r.flag = px[p].flag /\ r.told = px[p].told
        /\ Finish(p, r) \/ (Keep(p, r) /\ px[p].phase = "sent")
  BY DEF Handler
<1>3. CASE Keep(p, r) /\ px[p].phase = "sent"
  <2>1. px' = [px EXCEPT ![p] = r]
    BY <1>3 DEF Keep
  <2>2. px'[p] = r /\ \A q \in Proxies \ {p} : px'[q] = px[q]
    BY <1>1, <2>1
  <2> QED BY <1>2, <1>3, <2>2 DEF PromiseStep, Phase
<1>4. CASE Finish(p, r)
  <2> DEFINE c == Completed(r)
  <2>1. c.flag /\ c.told = IF r.flag THEN r.told ELSE r.status
    BY CompletedFields, CompletedMore
  <2>2. px' = [px EXCEPT ![p] = c]
    BY <1>4 DEF Finish
  <2> HIDE DEF c
  <2>3. px'[p] = c /\ \A q \in Proxies \ {p} : px'[q] = px[q]
    BY <1>1, <2>2
  <2>4. c.told \in Final
    <3>1. Good(p, px[p])'
      BY DEF GInv
    <3>2. Settled(px'[p])
      BY <3>1 DEF Good
    <3> QED BY <2>1, <2>3, <3>2 DEF Settled
  <2>5. px[p].flag => c.told = px[p].told
    BY <1>2, <2>1
  <2> QED BY <2>1, <2>3, <2>4, <2>5 DEF PromiseStep, Phase
<1> QED BY <1>2, <1>3, <1>4

(* Constructing and sending a request opens it at most. *)
LEMMA AppPromise ==
    ASSUME InSequence, IInv, GInv', NEW p \in Proxies, App(p),
           px'[p].phase = "sent" => ~Shares(p)'
    PROVE  PromiseStep(p) /\ \A q \in Proxies \ {p} : px'[q] = px[q]
<1>1. px \in [Proxies -> ProxyState] /\ px[p] \in ProxyState /\ RecordOK(px[p])
  BY DEF IInv, TypeOK
<1>2. CASE SendPayloadFails(p)
  <2>1. Handler(p)
    BY <1>2, SendPayloadFailsHandler
  <2>2. px'[p].phase = "sent"
    <3>1. px' = [px EXCEPT ![p] = Completed([px[p] EXCEPT !.phase = "sent", !.status = "Failed"])]
      BY <1>2 DEF SendPayloadFails, Finish
    <3>2. Completed([px[p] EXCEPT !.phase = "sent", !.status = "Failed"]).phase = "sent"
      <4> DEFINE r == [px[p] EXCEPT !.phase = "sent", !.status = "Failed"]
      <4>1. r \in ProxyState /\ r.phase = "sent"
        BY <1>1 DEF ProxyState, Phases, Status
      <4> QED BY <4>1, CompletedFields
    <3> QED BY <1>1, <3>1, <3>2
  <2> QED BY <2>1, <2>2, HandlerPromise
<1>3. ASSUME NEW x \in ProxyState, px' = [px EXCEPT ![p] = x],
             px[p].phase # "sent", x.flag = px[p].flag, x.told = px[p].told
      PROVE  PromiseStep(p) /\ \A q \in Proxies \ {p} : px'[q] = px[q]
  <2>1. ~px[p].flag
    BY <1>1, <1>3 DEF RecordOK
  <2>2. px'[p] = x /\ \A q \in Proxies \ {p} : px'[q] = px[q]
    BY <1>1, <1>3
  <2> QED BY <1>3, <2>1, <2>2 DEF PromiseStep, Phase
<1>4. CASE Send(p)
  <2> DEFINE x == [px[p] EXCEPT !.phase = "sent", !.tx = "connecting"]
  <2>1. px' = [px EXCEPT ![p] = x] /\ px[p].phase # "sent"
    BY <1>4 DEF Send
  <2>2. x \in ProxyState /\ x.flag = px[p].flag /\ x.told = px[p].told
    BY <1>1 DEF ProxyState, Phases, TxStates
  <2> HIDE DEF x
  <2> QED BY <1>3, <2>1, <2>2
<1>5. CASE \E k \in Kinds : NewRequest(p, k)
  <2>1. PICK k \in Kinds : NewRequest(p, k)
    BY <1>5
  <2> DEFINE x == [px[p] EXCEPT !.phase = "made", !.kind = k, !.sn = nextSn]
  <2>2. px' = [px EXCEPT ![p] = x] /\ px[p].phase # "sent"
    BY <2>1 DEF NewRequest
  <2>3. nextSn \in SNs
    BY DEF IInv, TypeOK
  <2>4. x \in ProxyState /\ x.flag = px[p].flag /\ x.told = px[p].told
    BY <1>1, <2>3 DEF ProxyState, Phases
  <2> HIDE DEF x
  <2> QED BY <1>3, <2>2, <2>4
<1>6. CASE \E s \in SNs : NewAnswer(p, s)
  <2>1. PICK s \in SNs : NewAnswer(p, s)
    BY <1>6
  <2> DEFINE x == [px[p] EXCEPT !.phase = "made", !.sn = s]
  <2>2. px' = [px EXCEPT ![p] = x] /\ px[p].phase # "sent"
    BY <2>1 DEF NewAnswer
  <2>3. x \in ProxyState /\ x.flag = px[p].flag /\ x.told = px[p].told
    BY <1>1 DEF ProxyState, Phases
  <2> HIDE DEF x
  <2> QED BY <1>3, <2>2, <2>3
<1> QED BY <1>2, <1>3, <1>4, <1>5, <1>6 DEF App

(* Every step of a platform maps to a step of RequestPromise or to none. *)
LEMMA NextPromise ==
    ASSUME InSequence, GInv, GInv', Apart', [Next]_vars
    PROVE  [Promise!Next]_(Promise!pvars)
<1>1. IInv /\ IInv'
  BY DEF GInv
<1>2. \A p \in Proxies : px'[p].phase = "sent" => ~Shares(p)'
  BY DEF Apart
<1>3. CASE UNCHANGED vars
  BY <1>3 DEF vars, Promise!pvars, Phase
<1>4. ASSUME NEW p \in Proxies, App(p) PROVE [Promise!Next]_(Promise!pvars)
  BY <1>1, <1>2, <1>4, AppPromise, StepKeepsPromise
<1>5. ASSUME NEW p \in Proxies,
             \/ Session(p) \/ FinalReply(p) \/ ProvisionalReply(p) \/ Response(p)
             \/ RunTask(p) \/ TimerFires(p) \/ DerivedTimer(p)
      PROVE  [Promise!Next]_(Promise!pvars)
  <2>1. Handler(p)
    BY <1>1, <1>5, SessionHandler, ReplyHandler, ResponseHandler, RunTaskHandler,
       TimerFiresHandler, DerivedTimerHandler
  <2>2. px'[p].phase = "sent"
    <3>1. PICK r \in ProxyState : r.phase = "sent" /\ (Finish(p, r) \/ Keep(p, r))
      BY <2>1 DEF Handler
    <3>2. px \in [Proxies -> ProxyState]
      BY <1>1 DEF IInv, TypeOK
    <3>3. CASE Keep(p, r)
      BY <3>1, <3>2, <3>3 DEF Keep
    <3>4. CASE Finish(p, r)
      BY <3>1, <3>2, <3>4, CompletedFields DEF Finish
    <3> QED BY <3>1, <3>3, <3>4
  <2> QED BY <1>1, <1>2, <2>1, <2>2, HandlerPromise, StepKeepsPromise
<1> QED BY <1>3, <1>4, <1>5 DEF Next

(* In sequence and with numbers of its own, RequestProxy implements what     *)
(* send() promises: a request is opened once, its callback reports one final *)
(* outcome, and that is never revised.  (That an open request is settled     *)
(* sooner or later is the other half of KeepsPromise.)                       *)
THEOREM PromiseIsKept == ASSUME InSequence, EnoughSNs PROVE Spec => Promise!Safety
<1>1. Init => Promise!Init
  <2> SUFFICES ASSUME Init PROVE Promise!Init
    OBVIOUS
  <2>1. \A p \in Proxies : Phase(p) = "idle" /\ px[p].told = "Init"
    BY DEF Init, NewProxy, Phase
  <2> QED BY <2>1 DEF Promise!Init
<1>2. Init => OwnSNs
  BY InitOwnSNs
<1>3. GInv /\ OwnSNs /\ [Next]_vars => OwnSNs'
  BY NextOwnSNs DEF GInv
<1>4. GInv /\ OwnSNs => Apart
  BY NobodyShares DEF GInv
<1>5. GInv /\ GInv' /\ Apart' /\ [Next]_vars => [Promise!Next]_(Promise!pvars)
  BY NextPromise
<1> QED BY <1>1, <1>2, <1>3, <1>4, <1>5, GoodInvariance, PTL DEF Spec, Promise!Safety
=============================================================================

-------------------------- MODULE InviteSessionProofs --------------------------
(***************************************************************************)
(* Theorems about InviteSession: types, and the three safety invariants    *)
(* and the action property of its run, for every combination of faults but *)
(* an application that hangs up before its answer has run (with that one,  *)
(* sessions that are over stay in the map: see OverLeavesMap).             *)
(*                                                                         *)
(* The properties speak of both ends; what connects the ends are the       *)
(* messages on their way and the handlers under way.  IInv therefore says  *)
(* what both ends must look like while an INVITE, a 200 or an ACK is on    *)
(* its way or in the hands of a thread.                                    *)
(***************************************************************************)
EXTENDS InviteSession, TLAPS

Caller == end["caller"]
Callee == end["callee"]

----------------------------------------------------------------------------
(* The inductive invariant *)

\* What each thread may be about to do: only the replies make the caller live,
\* only an ACK the callee.
PhasesOK ==
    /\ \A e \in Ends, t \in {"user", "peer"} : at[e][t] \in {"idle", "bye", "cancel"}
    /\ invite = "new" => Idle("caller")
    /\ \A t \in {"task", "timer", "ACK"} : at["caller"][t] = "idle"
    /\ at["caller"]["reply"] \in {"idle", "trying", "ok", "ack", "failed"}
    /\ at["caller"]["reply"] \in {"ok", "ack", "failed"} => invite = "done"
    /\ at["callee"]["reply"] = "idle"
    /\ at["callee"]["task"] \in {"idle", "failed"}
    /\ at["callee"]["timer"] \in {"idle", "bye", "cancel"}
    /\ at["callee"]["ACK"] \in {"idle", "ack"}

\* Nothing has happened at the callee.
Fresh == /\ ~Callee.made /\ ~Callee.mapped /\ Callee.status = "invite"
         /\ Idle("callee")
         /\ answer = "none" /\ answered = "none"

\* The INVITE is sent once, and comes to a callee that knows nothing of it.
InviteOnce ==
    /\ net["callee"]["INVITE"] <= 1
    /\ net["callee"]["INVITE"] > 0 => Fresh
    /\ invite \in {"new", "unsent", "connecting"} => net["callee"]["INVITE"] = 0 /\ Fresh

\* A caller that lives is in the map, one that is over only while its replies
\* are handled; and only a failure of sending keeps a transaction.
CallerInMap ==
    /\ invite = "new" => Caller.status = "invite"
    /\ invite \in {"new", "unsent"} => ~Caller.mapped
    /\ Caller.status \in Live /\ invite \notin {"new", "unsent"} =>
          Caller.mapped \/ "caller" \in raced
    /\ Caller.mapped /\ Caller.status \in Ended => at["caller"]["reply"] # "idle"
    /\ invite = "done" /\ Caller.tx /\ Caller.mapped => at["caller"]["reply"] = "failed"

\* Nothing happens to the callee before its answer has run; from then on it is
\* in the map while it lives, and not when it is over and no ACK is handled.
CalleeInMap ==
    /\ Callee.made => Callee.dialog
    /\ Callee.mapped => Callee.made
    /\ ackTimer => answer = "run"
    /\ Callee.made /\ answer \in Answers \cup {"none"} =>
          Callee.status = "invite" /\ ~Callee.mapped /\ Idle("callee")
    /\ Callee.made /\ Callee.status \in Live /\ (answer = "entered" \/ answered = "200") =>
          Callee.mapped \/ "callee" \in raced
    /\ Callee.mapped /\ Callee.status \in Ended => at["callee"]["ACK"] = "ack"

\* A 200 comes from a callee that has answered.
OkAnswered ==
    \/ net["caller"]["200"] > 0
    \/ at["caller"]["reply"] \in {"ok", "ack"}
    \/ Caller.status = "ack"
    => answered = "200"

\* An ACK comes from a caller that has taken the 200.
Acknowledged ==
    net["callee"]["ACK"] > 0 \/ at["callee"]["ACK"] = "ack" \/ Callee.status = "ack" =>
        /\ invite = "done" /\ Caller.dialog
        /\ \/ at["caller"]["reply"] = "ack"
           \/ at["caller"]["reply"] = "idle" /\ Caller.status \in {"ack", "bye", "cancel"}

IInv == /\ TypeOK /\ PhasesOK
        /\ InviteOnce /\ CallerInMap /\ CalleeInMap
        /\ OkAnswered /\ Acknowledged

\* The faults for which the theorems are stated.
NoEarlyBye == "earlybye" \notin Faults

----------------------------------------------------------------------------
(* What the operators of the model change *)

LEMMA EndsFacts == /\ Ends = {"caller", "callee"}
                   /\ Peer("caller") = "callee" /\ Peer("callee") = "caller"
BY DEF Ends, Peer

\* One thread of one end goes on.
LEMMA GotoFacts ==
    ASSUME TypeOK, NEW e \in Ends, NEW t \in Threads, NEW p \in Phases, Goto(e, t, p)
    PROVE  /\ at' \in [Ends -> [Threads -> Phases]]
           /\ at'[e][t] = p
           /\ \A x \in Ends, u \in Threads : x # e \/ u # t => at'[x][u] = at[x][u]
BY DEF TypeOK, Goto

\* One more message for the peer.
LEMMA SendsFacts ==
    ASSUME TypeOK, NEW e \in Ends, NEW m \in Messages, Sends(e, m)
    PROVE  /\ net' \in [Ends -> [Messages -> Nat]]
           /\ net'[Peer(e)][m] = net[Peer(e)][m] + 1
           /\ \A x \in Ends, n \in Messages : x # Peer(e) \/ n # m => net'[x][n] = net[x][n]
BY EndsFacts DEF TypeOK, Sends

\* One message less for an end.
LEMMA ReceivesFacts ==
    ASSUME TypeOK, NEW e \in Ends, NEW m \in Messages, Receives(e, m)
    PROVE  /\ net' \in [Ends -> [Messages -> Nat]]
           /\ net[e][m] > 0 /\ net'[e][m] = net[e][m] - 1
           /\ \A x \in Ends, n \in Messages : x # e \/ n # m => net'[x][n] = net[x][n]
BY DEF TypeOK, Receives

\* One message less for an end, its answer more for the peer.
LEMMA ExchangesFacts ==
    ASSUME TypeOK, NEW e \in Ends, NEW m \in Messages, NEW r \in Messages, Exchanges(e, m, r)
    PROVE  /\ net' \in [Ends -> [Messages -> Nat]]
           /\ net[e][m] > 0 /\ net'[e][m] = net[e][m] - 1
           /\ net'[Peer(e)][r] = net[Peer(e)][r] + 1
           /\ \A x \in Ends, n \in Messages :
                (x # e \/ n # m) /\ (x # Peer(e) \/ n # r) => net'[x][n] = net[x][n]
BY EndsFacts DEF TypeOK, Exchanges

\* The messages that carry the invariant.
LEMMA Names == /\ Messages = {"INVITE", "ACK", "BYE", "CANCEL", "100", "200", "4xx"}
               /\ Threads = {"user", "reply", "task", "timer", "ACK", "peer"}
               /\ Live = {"invite", "trying", "ack"} /\ Ended = {"bye", "cancel", "failed"}
               /\ Phases = {"invite", "trying", "ack", "bye", "cancel", "failed", "idle", "ok"}
BY DEF Messages, Requests, Replies, Threads, Live, Ended, Phases

\* to_bye() adds a BYE or a CANCEL to the messages, or nothing.
LEMMA SendsEndFacts ==
    ASSUME TypeOK, NEW e \in Ends, SendsEnd(e)
    PROVE  /\ net' \in [Ends -> [Messages -> Nat]] /\ unsent' \subseteq Ends
           /\ \A x \in Ends, n \in Messages \ {"BYE", "CANCEL"} : net'[x][n] = net[x][n]
<1>1. unsent' \subseteq Ends
  BY DEF TypeOK, SendsEnd, SendsNothing
<1>2. CASE Sends(e, "CANCEL")
  <2>1. "CANCEL" \in Messages
    BY Names
  <2> QED BY <1>1, <1>2, <2>1, SendsFacts
<1>3. CASE Sends(e, "BYE")
  <2>1. "BYE" \in Messages
    BY Names
  <2> QED BY <1>1, <1>3, <2>1, SendsFacts
<1>4. CASE UNCHANGED net
  BY <1>1, <1>4 DEF TypeOK
<1> QED BY <1>2, <1>3, <1>4 DEF SendsEnd, SendsNothing

\* What the invariant says of types, at one end.
LEMMA Facts ==
    ASSUME TypeOK
    PROVE  /\ Caller \in EndState /\ Callee \in EndState
           /\ Caller = end["caller"] /\ Callee = end["callee"]
           /\ Caller' = end'["caller"] /\ Callee' = end'["callee"]
           /\ "caller" \in Ends /\ "callee" \in Ends
           /\ \A e \in Ends, m \in Messages : net[e][m] \in Nat
BY EndsFacts DEF TypeOK, Caller, Callee

----------------------------------------------------------------------------
(* The invariant holds at first, and every step keeps it *)

LEMMA InitIInv == Init => IInv
<1> SUFFICES ASSUME Init PROVE IInv
  OBVIOUS
<1>1. /\ Caller = [made |-> TRUE, status |-> "invite", mapped |-> FALSE, tx |-> FALSE, dialog |-> FALSE]
      /\ Callee = [made |-> FALSE, status |-> "invite", mapped |-> FALSE, tx |-> FALSE, dialog |-> FALSE]
  BY DEF Init, Caller, Callee, Ends
<1>2. \A e \in Ends, t \in Threads : at[e][t] = "idle"
  BY DEF Init
<1>3. \A e \in Ends, m \in Messages : net[e][m] = 0
  BY DEF Init
<1>4. TypeOK
  <2>1. end \in [Ends -> EndState]
    BY Names DEF Init, EndState
  <2>2. at \in [Ends -> [Threads -> Phases]]
    BY Names DEF Init
  <2>3. net \in [Ends -> [Messages -> Nat]]
    BY DEF Init
  <2> QED BY <2>1, <2>2, <2>3 DEF Init, TypeOK, InviteStates
<1>5. PhasesOK
  BY <1>2, EndsFacts, Names DEF PhasesOK, Idle, Init
<1>6. InviteOnce
  BY <1>1, <1>2, <1>3, EndsFacts, Names DEF InviteOnce, Fresh, Idle, Init
<1>7. CallerInMap
  BY <1>1, Names DEF CallerInMap, Init
<1>8. CalleeInMap
  BY <1>1, Names DEF CalleeInMap, Init
<1>9. OkAnswered /\ Acknowledged
  BY <1>1, <1>2, <1>3, EndsFacts, Names DEF OkAnswered, Acknowledged
<1> QED BY <1>4, <1>5, <1>6, <1>7, <1>8, <1>9 DEF IInv

\* A step that changes neither end, and at most lets a thread begin to end a
\* session and messages go; an answer of libsip included.
LEMMA EnderKeeps ==
    ASSUME IInv, TypeOK', UNCHANGED <<end, invite, answer, raced>>,
           ackTimer' => ackTimer,
           answered' = answered \/ (answered = "none" /\ Callee.made /\ answered' = "4xx"),
           \A x \in Ends, n \in {"INVITE", "ACK", "200"} : net'[x][n] <= net[x][n],
           NEW e \in Ends, NEW t \in {"user", "peer", "timer"},
           \A x \in Ends, u \in Threads : at'[x][u] = at[x][u] \/ (x = e /\ u = t),
           at'[e][t] \in {"bye", "cancel"} \/ at'[e][t] = at[e][t],
           at'[e][t] # at[e][t] => IF e = "caller" THEN t # "timer" /\ invite # "new"
                                   ELSE Callee.made /\ answer \notin Answers \cup {"none"}
    PROVE  IInv'
<1> USE Facts, EndsFacts, Names
<1>1. Caller' = Caller /\ Callee' = Callee
  BY DEF Caller, Callee
<1>2. /\ net'["callee"]["INVITE"] <= net["callee"]["INVITE"]
      /\ net'["callee"]["ACK"] <= net["callee"]["ACK"]
      /\ net'["caller"]["200"] <= net["caller"]["200"]
      /\ net["callee"]["INVITE"] \in Nat /\ net'["callee"]["INVITE"] \in Nat
      /\ net["callee"]["ACK"] \in Nat /\ net'["callee"]["ACK"] \in Nat
      /\ net["caller"]["200"] \in Nat /\ net'["caller"]["200"] \in Nat
  BY DEF IInv, TypeOK
<1>3. /\ \A u \in {"reply", "task", "ACK"}, x \in Ends : at'[x][u] = at[x][u]
      /\ at'["caller"]["timer"] = at["caller"]["timer"]
  OBVIOUS
<1>4. PhasesOK'
  <2>1. invite = "new" => \A u \in Threads : at'["caller"][u] = at["caller"][u]
    OBVIOUS
  <2> QED BY <1>3, <2>1 DEF IInv, PhasesOK, Idle
<1>5. Callee.made /\ answer \in Answers \cup {"none"} => \A u \in Threads : at'["callee"][u] = at["callee"][u]
  OBVIOUS
<1>6. Fresh => Fresh'
  BY <1>1 DEF Fresh, Idle
<1>7. InviteOnce'
  BY <1>2, <1>6 DEF IInv, InviteOnce
<1>8. CallerInMap'
  BY <1>1, <1>3 DEF IInv, CallerInMap
<1>9. CalleeInMap'
  BY <1>1, <1>3, <1>5 DEF IInv, CalleeInMap, Idle
<1>10. OkAnswered'
  BY <1>1, <1>2, <1>3 DEF IInv, OkAnswered
<1>11. Acknowledged'
  BY <1>1, <1>2, <1>3 DEF IInv, Acknowledged
<1> QED BY <1>4, <1>7, <1>8, <1>9, <1>10, <1>11 DEF IInv

LEMMA ToInviteRequestKeeps ==
    ASSUME IInv, ToInviteRequest \/ ToInviteRequestWithoutSdp
    PROVE  IInv'
<1> USE Facts, EndsFacts, Names
<1>1. TypeOK /\ Caller \in EndState /\ Callee \in EndState
  BY DEF IInv
<1>2. /\ invite = "new" /\ invite' \in {"connecting", "unsent"}
      /\ UNCHANGED <<serverVars, at, net, observers>>
  BY DEF ToInviteRequest, ToInviteRequestWithoutSdp
<1>3. /\ end' \in [Ends -> EndState] /\ Callee' = Callee
      /\ Caller'.status = Caller.status /\ Caller'.dialog = Caller.dialog
      /\ Caller'.mapped = IF invite' = "connecting" THEN TRUE ELSE Caller.mapped
  <2>1. CASE ToInviteRequest
    BY <2>1, <1>1 DEF ToInviteRequest, EndState, Caller, Callee, TypeOK
  <2>2. CASE ToInviteRequestWithoutSdp
    BY <2>2, <1>1 DEF ToInviteRequestWithoutSdp, EndState, Caller, Callee, TypeOK
  <2> QED BY <2>1, <2>2
<1>4. TypeOK'
  BY <1>2, <1>3 DEF IInv, TypeOK, serverVars, observers, InviteStates
<1>5. PhasesOK' /\ InviteOnce'
  BY <1>2, <1>3 DEF IInv, PhasesOK, InviteOnce, Fresh, Idle, serverVars
<1>6. CallerInMap'
  BY <1>2, <1>3 DEF IInv, CallerInMap
<1>7. CalleeInMap'
  BY <1>2, <1>3 DEF IInv, CalleeInMap, Idle, serverVars, observers
<1>8. OkAnswered' /\ Acknowledged'
  BY <1>2, <1>3 DEF IInv, OkAnswered, Acknowledged, serverVars
<1> QED BY <1>4, <1>5, <1>6, <1>7, <1>8 DEF IInv

LEMMA InviteSentKeeps == ASSUME IInv, InviteSent PROVE IInv'
<1> USE Facts, EndsFacts, Names
<1>1. TypeOK /\ Caller' = Caller /\ Callee' = Callee
  BY DEF IInv, InviteSent, Caller, Callee
<1>2. /\ invite = "connecting" /\ invite' = "calling"
      /\ UNCHANGED <<end, serverVars, at, observers>> /\ Sends("caller", "INVITE")
  BY DEF InviteSent
<1>3. /\ net' \in [Ends -> [Messages -> Nat]]
      /\ net'["callee"]["INVITE"] = net["callee"]["INVITE"] + 1
      /\ net'["callee"]["ACK"] = net["callee"]["ACK"]
      /\ net'["caller"]["200"] = net["caller"]["200"]
  BY <1>1, <1>2, SendsFacts
<1>4. TypeOK'
  BY <1>2, <1>3 DEF IInv, TypeOK, serverVars, observers, InviteStates
<1>5. PhasesOK'
  BY <1>2 DEF IInv, PhasesOK, Idle
<1>6. InviteOnce'
  BY <1>1, <1>2, <1>3 DEF IInv, InviteOnce, Fresh, Idle, serverVars
<1>7. CallerInMap'
  BY <1>1, <1>2 DEF IInv, CallerInMap, observers
<1>8. CalleeInMap'
  BY <1>1, <1>2 DEF IInv, CalleeInMap, Idle, serverVars, observers
<1>9. OkAnswered' /\ Acknowledged'
  BY <1>1, <1>2, <1>3 DEF IInv, OkAnswered, Acknowledged, serverVars
<1> QED BY <1>4, <1>5, <1>6, <1>7, <1>8, <1>9 DEF IInv

LEMMA InviteNotSentKeeps == ASSUME IInv, InviteNotSent PROVE IInv'
<1> USE Facts, EndsFacts, Names
<1>1. TypeOK /\ Caller' = Caller /\ Callee' = Callee
  BY DEF IInv, InviteNotSent, Caller, Callee
<1>2. /\ invite = "connecting" /\ invite' = "done"
      /\ UNCHANGED <<end, serverVars, net, observers>> /\ Goto("caller", "reply", "failed")
  BY DEF InviteNotSent
<1>3. /\ at' \in [Ends -> [Threads -> Phases]] /\ at'["caller"]["reply"] = "failed"
      /\ \A x \in Ends, u \in Threads : x # "caller" \/ u # "reply" => at'[x][u] = at[x][u]
  BY <1>1, <1>2, GotoFacts
<1>4. TypeOK'
  BY <1>2, <1>3 DEF IInv, TypeOK, serverVars, observers, InviteStates
<1>5. PhasesOK'
  BY <1>2, <1>3 DEF IInv, PhasesOK, Idle
<1>6. InviteOnce'
  BY <1>1, <1>2, <1>3 DEF IInv, InviteOnce, Fresh, Idle, serverVars
<1>7. CallerInMap'
  BY <1>1, <1>2, <1>3 DEF IInv, CallerInMap, observers
<1>8. CalleeInMap'
  BY <1>1, <1>2, <1>3 DEF IInv, CalleeInMap, Idle, serverVars, observers
<1>9. OkAnswered' /\ Acknowledged'
  BY <1>1, <1>2, <1>3 DEF IInv, OkAnswered, Acknowledged, serverVars
<1> QED BY <1>4, <1>5, <1>6, <1>7, <1>8, <1>9 DEF IInv

\* A reply goes to its thread if the caller is in the map.
LEMMA TakeReplyFacts ==
    ASSUME TypeOK, NEW p \in Phases, TakeReply(p)
    PROVE  /\ at' \in [Ends -> [Threads -> Phases]]
           /\ \A x \in Ends, u \in Threads : x # "caller" \/ u # "reply" => at'[x][u] = at[x][u]
           /\ at["caller"]["reply"] = "idle"
           /\ at'["caller"]["reply"] = IF Caller.mapped THEN p ELSE "idle"
           /\ invite = "calling" /\ UNCHANGED <<serverVars, observers>>
<1>1. "caller" \in Ends /\ "reply" \in Threads
  BY EndsFacts, Names
<1>2. CASE Caller.mapped
  BY <1>1, <1>2, GotoFacts DEF TakeReply, Caller
<1>3. CASE ~Caller.mapped
  BY <1>1, <1>3 DEF TakeReply, Caller, TypeOK
<1> QED BY <1>2, <1>3

LEMMA TryingReplyKeeps == ASSUME IInv, TryingReply PROVE IInv'
<1> USE Facts, EndsFacts, Names
<1>1. TypeOK /\ Caller' = Caller /\ Callee' = Callee
  BY DEF IInv, TryingReply, Caller, Callee
<1>2. /\ TakeReply("trying") /\ Receives("caller", "100")
      /\ UNCHANGED <<end, invite, serverVars, observers>> /\ invite = "calling"
  BY DEF TryingReply, TakeReply
<1>3. /\ at' \in [Ends -> [Threads -> Phases]]
      /\ \A x \in Ends, u \in Threads : x # "caller" \/ u # "reply" => at'[x][u] = at[x][u]
      /\ at["caller"]["reply"] = "idle"
      /\ at'["caller"]["reply"] = IF Caller.mapped THEN "trying" ELSE "idle"
  BY <1>1, <1>2, TakeReplyFacts
<1>4. /\ net' \in [Ends -> [Messages -> Nat]]
      /\ net'["callee"]["INVITE"] = net["callee"]["INVITE"]
      /\ net'["callee"]["ACK"] = net["callee"]["ACK"]
      /\ net'["caller"]["200"] = net["caller"]["200"]
  BY <1>1, <1>2, ReceivesFacts
<1>5. TypeOK'
  BY <1>2, <1>3, <1>4 DEF IInv, TypeOK, serverVars, observers
<1>6. PhasesOK'
  BY <1>2, <1>3 DEF IInv, PhasesOK, Idle
<1>7. InviteOnce'
  BY <1>1, <1>2, <1>3, <1>4 DEF IInv, InviteOnce, Fresh, Idle, serverVars
<1>8. CallerInMap'
  BY <1>1, <1>2, <1>3 DEF IInv, CallerInMap, observers
<1>9. CalleeInMap'
  BY <1>1, <1>2, <1>3 DEF IInv, CalleeInMap, Idle, serverVars, observers
<1>10. OkAnswered' /\ Acknowledged'
  BY <1>1, <1>2, <1>3, <1>4 DEF IInv, OkAnswered, Acknowledged, serverVars
<1> QED BY <1>5, <1>6, <1>7, <1>8, <1>9, <1>10 DEF IInv

\* A final reply, or 408.
LEMMA FinalReplyKeeps ==
    ASSUME IInv, OkReply \/ ErrorReply \/ InviteTimeout
    PROVE  IInv'
<1> USE Facts, EndsFacts, Names
<1>1. TypeOK /\ Caller \in EndState
  BY DEF IInv
<1>2. PICK p \in {"ok", "failed"} : TakeFinalReply(p) /\ (p = "ok" => net["caller"]["200"] > 0)
  BY DEF OkReply, ErrorReply, InviteTimeout, Receives
<1>3. /\ at' \in [Ends -> [Threads -> Phases]]
      /\ \A x \in Ends, u \in Threads : x # "caller" \/ u # "reply" => at'[x][u] = at[x][u]
      /\ at["caller"]["reply"] = "idle"
      /\ at'["caller"]["reply"] = IF Caller.mapped THEN p ELSE "idle"
      /\ invite = "calling" /\ invite' = "done" /\ UNCHANGED <<serverVars, observers>>
  BY <1>1, <1>2, TakeReplyFacts DEF TakeFinalReply
<1>4. /\ end' \in [Ends -> EndState] /\ Callee' = Callee
      /\ Caller'.status = Caller.status /\ Caller'.dialog = Caller.dialog
      /\ Caller'.mapped = Caller.mapped /\ (Caller.mapped => ~Caller'.tx)
  BY <1>1, <1>2 DEF TakeFinalReply, EndState, Caller, Callee, TypeOK
<1>5. /\ net' \in [Ends -> [Messages -> Nat]]
      /\ net'["callee"]["INVITE"] = net["callee"]["INVITE"]
      /\ net'["callee"]["ACK"] = net["callee"]["ACK"]
      /\ net'["caller"]["200"] <= net["caller"]["200"]
  <2>1. CASE \E m \in Replies : Receives("caller", m)
    BY <1>1, <2>1, ReceivesFacts DEF Replies
  <2>2. CASE UNCHANGED net
    BY <1>1, <2>2 DEF TypeOK
  <2> QED BY <2>1, <2>2 DEF OkReply, ErrorReply, InviteTimeout, Replies
<1>6. TypeOK'
  BY <1>3, <1>4, <1>5 DEF IInv, TypeOK, serverVars, observers, InviteStates
<1>7. PhasesOK'
  BY <1>3 DEF IInv, PhasesOK, Idle
<1>8. InviteOnce'
  BY <1>3, <1>4, <1>5 DEF IInv, InviteOnce, Fresh, Idle, serverVars
<1>9. CallerInMap'
  BY <1>3, <1>4 DEF IInv, CallerInMap, observers
<1>10. CalleeInMap'
  BY <1>3, <1>4 DEF IInv, CalleeInMap, Idle, serverVars, observers
<1>11. net["caller"]["200"] \in Nat /\ net'["caller"]["200"] \in Nat
  BY <1>1, <1>5
<1>12. OkAnswered'
  BY <1>2, <1>3, <1>4, <1>5, <1>11 DEF IInv, OkAnswered, serverVars
<1>13. Acknowledged'
  BY <1>3, <1>4, <1>5 DEF IInv, Acknowledged, serverVars
<1> QED BY <1>6, <1>7, <1>8, <1>9, <1>10, <1>12, <1>13 DEF IInv

\* What on_invite_reply() does with a 2xx.
LEMMA OkKeeps == ASSUME IInv, SendAck \/ OkOfNoUse PROVE IInv'
<1> USE Facts, EndsFacts, Names
<1>1. TypeOK /\ Caller \in EndState
  BY DEF IInv
<1>2. /\ at["caller"]["reply"] = "ok" /\ UNCHANGED <<invite, serverVars, refused, raced>>
      /\ end' = [end EXCEPT !["caller"].dialog = TRUE]
      /\ unsent' \subseteq Ends
  BY <1>1 DEF SendAck, OkOfNoUse, SendsNothing, observers, TypeOK
<1>3. PICK p \in {"ack", "failed"} : Goto("caller", "reply", p) /\ (p = "ack" <=> Sends("caller", "ACK"))
  <2>1. Sends("caller", "ACK") => net'["callee"]["ACK"] = net["callee"]["ACK"] + 1
    BY <1>1, SendsFacts
  <2>2. OkOfNoUse => net'["callee"]["ACK"] = net["callee"]["ACK"]
    <3>1. Sends("caller", "BYE") => net'["callee"]["ACK"] = net["callee"]["ACK"]
      BY <1>1, SendsFacts
    <3> QED BY <3>1 DEF OkOfNoUse, SendsNothing
  <2>3. net["callee"]["ACK"] \in Nat
    BY <1>1
  <2> QED BY <2>1, <2>2, <2>3 DEF SendAck, OkOfNoUse
<1>4. /\ at' \in [Ends -> [Threads -> Phases]] /\ at'["caller"]["reply"] = p
      /\ \A x \in Ends, u \in Threads : x # "caller" \/ u # "reply" => at'[x][u] = at[x][u]
  BY <1>1, <1>3, GotoFacts
<1>5. /\ end' \in [Ends -> EndState] /\ Callee' = Callee
      /\ Caller'.status = Caller.status /\ Caller'.dialog
      /\ Caller'.mapped = Caller.mapped /\ Caller'.tx = Caller.tx
  BY <1>1, <1>2 DEF EndState, Caller, Callee, TypeOK
<1>6. /\ net' \in [Ends -> [Messages -> Nat]]
      /\ net'["callee"]["INVITE"] = net["callee"]["INVITE"]
      /\ p = "failed" => net'["callee"]["ACK"] = net["callee"]["ACK"]
      /\ net'["caller"]["200"] = net["caller"]["200"]
  <2>1. CASE Sends("caller", "ACK")
    BY <1>1, <1>3, <2>1, SendsFacts
  <2>2. CASE Sends("caller", "BYE")
    BY <1>1, <2>2, SendsFacts
  <2>3. CASE UNCHANGED net
    BY <1>1, <2>3 DEF TypeOK
  <2> QED BY <2>1, <2>2, <2>3 DEF SendAck, OkOfNoUse, SendsNothing
<1>7. TypeOK'
  BY <1>2, <1>4, <1>5, <1>6 DEF IInv, TypeOK, serverVars, observers
<1>8. PhasesOK'
  BY <1>2, <1>4 DEF IInv, PhasesOK, Idle
<1>9. InviteOnce'
  BY <1>2, <1>4, <1>5, <1>6 DEF IInv, InviteOnce, Fresh, Idle, serverVars
<1>10. CallerInMap'
  BY <1>2, <1>4, <1>5 DEF IInv, CallerInMap
<1>11. CalleeInMap'
  BY <1>2, <1>4, <1>5 DEF IInv, CalleeInMap, Idle, serverVars
<1>12. OkAnswered'
  BY <1>2, <1>4, <1>5, <1>6 DEF IInv, OkAnswered, serverVars
<1>13. Acknowledged'
  <2>1. CASE p = "ack"
    BY <1>2, <1>4, <1>5, <2>1 DEF IInv, Acknowledged, PhasesOK
  <2>2. CASE p = "failed"
    BY <1>2, <1>4, <1>5, <1>6, <2>2 DEF IInv, Acknowledged
  <2> QED BY <2>1, <2>2
<1> QED BY <1>7, <1>8, <1>9, <1>10, <1>11, <1>12, <1>13 DEF IInv

LEMMA InviteRefusedKeeps == ASSUME IInv, InviteRefused PROVE IInv'
<1> USE Facts, EndsFacts, Names
<1>1. TypeOK /\ Caller' = Caller /\ Callee' = Callee
  BY DEF IInv, InviteRefused, Caller, Callee
<1>2. /\ Exchanges("callee", "INVITE", "4xx") /\ answered' = "4xx"
      /\ UNCHANGED <<end, invite, answer, ackTimer, at, observers>>
  BY DEF InviteRefused
<1>3. /\ net' \in [Ends -> [Messages -> Nat]]
      /\ net["callee"]["INVITE"] > 0
      /\ net'["callee"]["INVITE"] = net["callee"]["INVITE"] - 1
      /\ net'["callee"]["ACK"] = net["callee"]["ACK"]
      /\ net'["caller"]["200"] = net["caller"]["200"]
  BY <1>1, <1>2, ExchangesFacts
<1>4. /\ Fresh /\ net["callee"]["INVITE"] = 1
      /\ invite \notin {"new", "unsent", "connecting"}
  <2>1. net["callee"]["INVITE"] \in Nat
    BY <1>1
  <2> QED BY <1>3, <2>1 DEF IInv, InviteOnce
<1>5. TypeOK'
  BY <1>2, <1>3 DEF IInv, TypeOK, observers
<1>6. PhasesOK'
  BY <1>2 DEF IInv, PhasesOK, Idle
<1>7. InviteOnce'
  BY <1>2, <1>3, <1>4 DEF InviteOnce
<1>8. CallerInMap'
  BY <1>1, <1>2 DEF IInv, CallerInMap, observers
<1>9. CalleeInMap'
  BY <1>1, <1>2, <1>4 DEF IInv, CalleeInMap, Fresh
<1>10. OkAnswered' /\ Acknowledged'
  BY <1>1, <1>2, <1>3, <1>4 DEF IInv, OkAnswered, Acknowledged, Fresh
<1> QED BY <1>5, <1>6, <1>7, <1>8, <1>9, <1>10 DEF IInv

LEMMA InviteAcceptedKeeps == ASSUME IInv, InviteAccepted PROVE IInv'
<1> USE Facts, EndsFacts, Names
<1>1. TypeOK /\ Callee \in EndState
  BY DEF IInv
<1>2. /\ Exchanges("callee", "INVITE", "100")
      /\ end' = [end EXCEPT !["callee"].made = TRUE, !["callee"].dialog = TRUE]
      /\ UNCHANGED <<invite, serverVars, at, observers>>
  BY DEF InviteAccepted
<1>3. /\ end' \in [Ends -> EndState] /\ Caller' = Caller
      /\ Callee'.made /\ Callee'.dialog
      /\ Callee'.status = Callee.status /\ Callee'.mapped = Callee.mapped
  BY <1>1, <1>2 DEF EndState, Caller, Callee, TypeOK
<1>4. /\ net' \in [Ends -> [Messages -> Nat]]
      /\ net["callee"]["INVITE"] > 0
      /\ net'["callee"]["INVITE"] = net["callee"]["INVITE"] - 1
      /\ net'["callee"]["ACK"] = net["callee"]["ACK"]
      /\ net'["caller"]["200"] = net["caller"]["200"]
  BY <1>1, <1>2, ExchangesFacts
<1>5. /\ Fresh /\ net["callee"]["INVITE"] = 1
      /\ invite \notin {"new", "unsent", "connecting"}
  <2>1. net["callee"]["INVITE"] \in Nat
    BY <1>1
  <2> QED BY <1>4, <2>1 DEF IInv, InviteOnce
<1>6. TypeOK'
  BY <1>2, <1>3, <1>4 DEF IInv, TypeOK, serverVars, observers
<1>7. PhasesOK'
  BY <1>2 DEF IInv, PhasesOK, Idle
<1>8. InviteOnce'
  BY <1>2, <1>4, <1>5 DEF InviteOnce
<1>9. CallerInMap'
  BY <1>2, <1>3 DEF IInv, CallerInMap, observers
<1>10. CalleeInMap'
  BY <1>2, <1>3, <1>5 DEF IInv, CalleeInMap, Fresh, Idle, serverVars
<1>11. OkAnswered' /\ Acknowledged'
  BY <1>2, <1>3, <1>4, <1>5 DEF IInv, OkAnswered, Acknowledged, serverVars
<1> QED BY <1>6, <1>7, <1>8, <1>9, <1>10, <1>11 DEF IInv

\* An answer that is queued, or comes to nothing.
LEMMA AnswerQueuedKeeps ==
    ASSUME IInv, AnswerExpired \/ (\E a \in Answers : GiveAnswer(a))
    PROVE  IInv'
<1> USE Facts, EndsFacts, Names
<1>1. TypeOK /\ Caller' = Caller /\ Callee' = Callee
  BY DEF IInv, AnswerExpired, GiveAnswer, Caller, Callee
<1>2. /\ UNCHANGED <<end, invite, answered, ackTimer, at, net, observers>>
      /\ answer' \in Answers \cup {"run"} /\ ~Fresh /\ answer # "run"
      /\ Callee.made => answer = "none" /\ answer' \in Answers
  BY DEF AnswerExpired, GiveAnswer, Callee, Fresh, Answers
<1>3. TypeOK'
  BY <1>2 DEF IInv, TypeOK, observers
<1>4. PhasesOK' /\ InviteOnce'
  BY <1>2 DEF IInv, PhasesOK, Idle, InviteOnce
<1>5. CallerInMap'
  BY <1>1, <1>2 DEF IInv, CallerInMap, observers
<1>6. CalleeInMap'
  BY <1>1, <1>2 DEF IInv, CalleeInMap, Idle, observers, Answers
<1>7. OkAnswered' /\ Acknowledged'
  BY <1>1, <1>2 DEF IInv, OkAnswered, Acknowledged
<1> QED BY <1>3, <1>4, <1>5, <1>6, <1>7 DEF IInv

LEMMA AnswerOkKeeps == ASSUME IInv, AnswerOk PROVE IInv'
<1> USE Facts, EndsFacts, Names
<1>1. TypeOK /\ Callee \in EndState
  BY DEF IInv
<1>2. /\ answer = "ok" /\ Callee.made /\ answer' = "entered"
      /\ end' = [end EXCEPT !["callee"].mapped = TRUE]
      /\ UNCHANGED <<invite, answered, ackTimer, at, net, observers>>
  BY DEF AnswerOk, Callee
<1>3. /\ end' \in [Ends -> EndState] /\ Caller' = Caller
      /\ Callee'.made = Callee.made /\ Callee'.dialog = Callee.dialog
      /\ Callee'.status = Callee.status /\ Callee'.mapped
  BY <1>1, <1>2 DEF EndState, Caller, Callee, TypeOK
<1>4. Callee.status = "invite" /\ ~Fresh
  BY <1>2 DEF IInv, CalleeInMap, Answers, Fresh
<1>5. TypeOK'
  BY <1>2, <1>3 DEF IInv, TypeOK, observers
<1>6. PhasesOK' /\ InviteOnce'
  BY <1>2, <1>4 DEF IInv, PhasesOK, Idle, InviteOnce
<1>7. CallerInMap'
  BY <1>2, <1>3 DEF IInv, CallerInMap, observers
<1>8. CalleeInMap'
  BY <1>2, <1>3, <1>4 DEF IInv, CalleeInMap, Answers
<1>9. OkAnswered' /\ Acknowledged'
  BY <1>2, <1>3 DEF IInv, OkAnswered, Acknowledged
<1> QED BY <1>5, <1>6, <1>7, <1>8, <1>9 DEF IInv

\* The one final reply of a server transaction.
LEMMA ReplyFacts ==
    ASSUME TypeOK, NEW code \in {"200", "4xx"}, Reply(code)
    PROVE  /\ net' \in [Ends -> [Messages -> Nat]] /\ answered' \in {"200", "4xx"}
           /\ net'["callee"]["INVITE"] = net["callee"]["INVITE"]
           /\ net'["callee"]["ACK"] = net["callee"]["ACK"]
           /\ net'["caller"]["200"] # net["caller"]["200"] => answered' = "200"
           /\ answered = "200" => answered' = "200"
           /\ answered' = "200" => answered = "200" \/ code = "200"
<1> USE Facts, EndsFacts, Names
<1>1. CASE answered = "none"
  <2>1. Sends("callee", code) /\ answered' = code
    BY <1>1 DEF Reply
  <2> QED BY <1>1, <2>1, SendsFacts
<1>2. CASE answered # "none"
  BY <1>2 DEF Reply, TypeOK
<1> QED BY <1>1, <1>2

LEMMA ReplyOkKeeps == ASSUME IInv, ReplyOk PROVE IInv'
<1> USE Facts, EndsFacts, Names
<1>1. TypeOK /\ Caller' = Caller /\ Callee' = Callee
  BY DEF IInv, ReplyOk, Caller, Callee
<1>2. /\ answer = "entered" /\ answer' = "run" /\ ackTimer' = TRUE /\ Reply("200")
      /\ UNCHANGED <<end, invite, at, observers>> /\ ~Fresh
  BY DEF ReplyOk, Fresh
<1>3. /\ net' \in [Ends -> [Messages -> Nat]] /\ answered' \in {"200", "4xx"}
      /\ net'["callee"]["INVITE"] = net["callee"]["INVITE"]
      /\ net'["callee"]["ACK"] = net["callee"]["ACK"]
      /\ net'["caller"]["200"] # net["caller"]["200"] => answered' = "200"
      /\ answered = "200" => answered' = "200"
  BY <1>1, <1>2, ReplyFacts
<1>4. TypeOK'
  BY <1>2, <1>3 DEF IInv, TypeOK, observers
<1>5. PhasesOK' /\ InviteOnce'
  BY <1>2, <1>3 DEF IInv, PhasesOK, Idle, InviteOnce
<1>6. CallerInMap'
  BY <1>1, <1>2 DEF IInv, CallerInMap, observers
<1>7. CalleeInMap'
  BY <1>1, <1>2 DEF IInv, CalleeInMap, Answers, observers
<1>8. OkAnswered' /\ Acknowledged'
  BY <1>1, <1>2, <1>3 DEF IInv, OkAnswered, Acknowledged
<1> QED BY <1>4, <1>5, <1>6, <1>7, <1>8 DEF IInv

LEMMA AnswerErrorKeeps == ASSUME IInv, AnswerError PROVE IInv'
<1> USE Facts, EndsFacts, Names
<1>1. TypeOK /\ Caller' = Caller /\ Callee' = Callee
  BY DEF IInv, AnswerError, Caller, Callee
<1>2. /\ answer = "error" /\ Callee.made /\ answer' = "run" /\ Reply("4xx")
      /\ Goto("callee", "task", "failed")
      /\ UNCHANGED <<end, invite, ackTimer, observers>> /\ ~Fresh
  BY DEF AnswerError, Fresh, Callee
<1>3. /\ net' \in [Ends -> [Messages -> Nat]] /\ answered' \in {"200", "4xx"}
      /\ net'["callee"]["INVITE"] = net["callee"]["INVITE"]
      /\ net'["callee"]["ACK"] = net["callee"]["ACK"]
      /\ net'["caller"]["200"] # net["caller"]["200"] => answered' = "200"
      /\ answered' = "200" <=> answered = "200"
  BY <1>1, <1>2, ReplyFacts
<1>4. /\ at' \in [Ends -> [Threads -> Phases]] /\ at'["callee"]["task"] = "failed"
      /\ \A x \in Ends, u \in Threads : x # "callee" \/ u # "task" => at'[x][u] = at[x][u]
  BY <1>1, <1>2, GotoFacts
<1>5. TypeOK'
  BY <1>2, <1>3, <1>4 DEF IInv, TypeOK, observers
<1>6. PhasesOK' /\ InviteOnce'
  BY <1>2, <1>3, <1>4 DEF IInv, PhasesOK, Idle, InviteOnce
<1>7. CallerInMap'
  BY <1>1, <1>2, <1>4 DEF IInv, CallerInMap, observers
<1>8. CalleeInMap'
  BY <1>1, <1>2, <1>3, <1>4 DEF IInv, CalleeInMap, Answers, observers
<1>9. OkAnswered' /\ Acknowledged'
  BY <1>1, <1>2, <1>3, <1>4 DEF IInv, OkAnswered, Acknowledged
<1> QED BY <1>5, <1>6, <1>7, <1>8, <1>9 DEF IInv

LEMMA CalleeDestroyedKeeps == ASSUME IInv, CalleeDestroyed PROVE IInv'
<1> USE Facts, EndsFacts, Names
<1>1. TypeOK /\ Callee \in EndState
  BY DEF IInv
<1>2. /\ Callee.made /\ ~Callee.mapped /\ ~Fresh /\ UNCHANGED <<invite, serverVars, at, refused, raced>>
      /\ SendsEnd("callee") \/ UNCHANGED <<net, unsent>>
      /\ end' = [end EXCEPT !["callee"].made = FALSE,
                            !["callee"].status = IF @ \in Live THEN "bye" ELSE @]
  BY DEF CalleeDestroyed, Callee, Fresh
<1>3. /\ end' \in [Ends -> EndState] /\ Caller' = Caller
      /\ ~Callee'.made /\ Callee'.dialog = Callee.dialog
      /\ Callee'.status \in Ended /\ Callee'.mapped = Callee.mapped
  BY <1>1, <1>2 DEF EndState, Caller, Callee, TypeOK
<1>4. /\ net' \in [Ends -> [Messages -> Nat]] /\ unsent' \subseteq Ends
      /\ net'["callee"]["INVITE"] = net["callee"]["INVITE"]
      /\ net'["callee"]["ACK"] = net["callee"]["ACK"]
      /\ net'["caller"]["200"] = net["caller"]["200"]
  <2>1. CASE SendsEnd("callee")
    BY <1>1, <2>1, SendsEndFacts
  <2>2. CASE UNCHANGED <<net, unsent>>
    BY <1>1, <2>2 DEF TypeOK
  <2> QED BY <1>2, <2>1, <2>2
<1>5. TypeOK'
  BY <1>2, <1>3, <1>4 DEF IInv, TypeOK, serverVars
<1>6. PhasesOK' /\ InviteOnce'
  BY <1>2, <1>4 DEF IInv, PhasesOK, Idle, InviteOnce
<1>7. CallerInMap'
  BY <1>2, <1>3 DEF IInv, CallerInMap
<1>8. CalleeInMap'
  BY <1>2, <1>3 DEF IInv, CalleeInMap, serverVars
<1>9. OkAnswered' /\ Acknowledged'
  BY <1>2, <1>3, <1>4 DEF IInv, OkAnswered, Acknowledged, serverVars
<1> QED BY <1>5, <1>6, <1>7, <1>8, <1>9 DEF IInv

\* An ACK is looked up in the map.
LEMMA RecvAckKeeps == ASSUME IInv, RecvAck PROVE IInv'
<1> USE Facts, EndsFacts, Names
<1>1. TypeOK /\ Caller' = Caller /\ Callee' = Callee
  BY DEF IInv, RecvAck, Caller, Callee
<1>2. /\ Receives("callee", "ACK") /\ UNCHANGED <<end, invite, serverVars, observers>>
      /\ IF Callee.mapped THEN Goto("callee", "ACK", "ack") ELSE UNCHANGED at
  BY DEF RecvAck, Callee
<1>3. /\ net' \in [Ends -> [Messages -> Nat]]
      /\ net["callee"]["ACK"] > 0
      /\ net'["callee"]["INVITE"] = net["callee"]["INVITE"]
      /\ net'["caller"]["200"] = net["caller"]["200"]
  BY <1>1, <1>2, ReceivesFacts
<1>4. /\ at' \in [Ends -> [Threads -> Phases]] /\ at'["callee"]["ACK"] \in {at["callee"]["ACK"], "ack"}
      /\ at' # at => Callee.mapped
      /\ \A x \in Ends, u \in Threads : x # "callee" \/ u # "ACK" => at'[x][u] = at[x][u]
  <2>1. CASE Callee.mapped
    BY <1>1, <1>2, <2>1, GotoFacts
  <2>2. CASE ~Callee.mapped
    BY <1>1, <1>2, <2>2 DEF TypeOK
  <2> QED BY <2>1, <2>2
<1>5. TypeOK'
  BY <1>2, <1>3, <1>4 DEF IInv, TypeOK, serverVars, observers
<1>6. PhasesOK'
  BY <1>2, <1>4 DEF IInv, PhasesOK, Idle
<1>7. InviteOnce'
  <2>1. Fresh => Fresh'
    BY <1>1, <1>2, <1>4 DEF Fresh, Idle, serverVars
  <2> QED BY <1>2, <1>3, <2>1 DEF IInv, InviteOnce
<1>8. CallerInMap'
  BY <1>1, <1>2, <1>4 DEF IInv, CallerInMap, observers
<1>9. CalleeInMap'
  BY <1>1, <1>2, <1>4 DEF IInv, CalleeInMap, Idle, serverVars, observers
<1>10. OkAnswered' /\ Acknowledged'
  BY <1>1, <1>2, <1>3, <1>4 DEF IInv, OkAnswered, Acknowledged, serverVars
<1> QED BY <1>5, <1>6, <1>7, <1>8, <1>9, <1>10 DEF IInv

\* set_status(): a live status leaves the entry alone, one that ends the session
\* removes it unless another thread is about to set a live one.
LEMMA SetStatusFacts ==
    ASSUME TypeOK, NEW e \in Ends, NEW t \in Threads, SetStatus(e, t)
    PROVE  /\ end' \in [Ends -> EndState]
           /\ refused' \subseteq Ends /\ unsent' \subseteq Ends /\ raced' \subseteq Ends
           /\ \A x \in raced : x # e \/ at[e][t] \in Live => x \in raced'
           /\ \A x \in Ends : x # e => end'[x] = end[x]
           /\ at[e][t] \in Live \cup Ended /\ end'[e].status = at[e][t]
           /\ end'[e].made = end[e].made /\ end'[e].tx = end[e].tx /\ end'[e].dialog = end[e].dialog
           /\ end'[e].mapped => end[e].mapped
           /\ at[e][t] \in Live => /\ end'[e].mapped = end[e].mapped
                                   /\ end[e].status \in Ended => e \in raced'
           /\ at[e][t] \in Ended /\ end'[e].mapped => Reviving(e) # {}
           /\ at' \in [Ends -> [Threads -> Phases]] /\ at'[e][t] = "idle"
           /\ \A x \in Ends, u \in Threads : x # e \/ u # t => at'[x][u] = at[x][u]
           /\ UNCHANGED <<invite, serverVars, net>>
<1>1. PICK kept \in BOOLEAN :
        /\ at[e][t] \in Live => kept
        /\ kept => Reviving(e) # {}
        /\ end' = [end EXCEPT ![e].status = at[e][t], ![e].mapped = @ /\ kept]
  BY DEF SetStatus
<1>2. at[e][t] \in Live \cup Ended
  BY DEF SetStatus
<1>3. /\ end' \in [Ends -> EndState]
      /\ \A x \in Ends : x # e => end'[x] = end[x]
      /\ end'[e].status = at[e][t] /\ end'[e].mapped = (end[e].mapped /\ kept)
      /\ end'[e].made = end[e].made /\ end'[e].tx = end[e].tx /\ end'[e].dialog = end[e].dialog
  BY <1>1, <1>2 DEF TypeOK, EndState
<1>4. /\ refused' \subseteq Ends /\ unsent' \subseteq Ends /\ raced' \subseteq Ends
      /\ \A x \in raced : x # e \/ at[e][t] \in Live => x \in raced'
      /\ at[e][t] \in Live /\ end[e].status \in Ended => e \in raced'
  <2>1. Observe(e, at[e][t])
    BY DEF SetStatus
  <2> QED BY <2>1, Names DEF Observe, TypeOK, Live, Ended
<1>5. /\ at' \in [Ends -> [Threads -> Phases]] /\ at'[e][t] = "idle"
      /\ \A x \in Ends, u \in Threads : x # e \/ u # t => at'[x][u] = at[x][u]
  BY GotoFacts, Names DEF SetStatus
<1>6. end[e].mapped \in BOOLEAN
  BY DEF TypeOK, EndState
<1> QED BY <1>1, <1>2, <1>3, <1>4, <1>5, <1>6, Names DEF SetStatus

LEMMA CallerSetStatusKeeps ==
    ASSUME IInv, NEW t \in Threads, SetStatus("caller", t)
    PROVE  IInv'
<1> USE Facts, EndsFacts, Names
<1>1. TypeOK /\ Caller \in EndState
  BY DEF IInv
<1> DEFINE p == at["caller"][t]
<1>2. /\ end' \in [Ends -> EndState]
      /\ refused' \subseteq Ends /\ unsent' \subseteq Ends /\ raced' \subseteq Ends
      /\ \A x \in raced : x # "caller" \/ p \in Live => x \in raced'
      /\ Callee' = Callee
      /\ p \in Live \cup Ended /\ Caller'.status = p
      /\ Caller'.tx = Caller.tx /\ Caller'.dialog = Caller.dialog
      /\ Caller'.mapped => Caller.mapped
      /\ p \in Live => Caller'.mapped = Caller.mapped /\ (Caller.status \in Ended => "caller" \in raced')
      /\ p \in Ended /\ Caller'.mapped => Reviving("caller") # {}
      /\ at' \in [Ends -> [Threads -> Phases]] /\ at'["caller"][t] = "idle"
      /\ \A x \in Ends, u \in Threads : x # "caller" \/ u # t => at'[x][u] = at[x][u]
      /\ UNCHANGED <<invite, serverVars, net>>
  BY <1>1, SetStatusFacts
<1>range. p \in Live \cup Ended
  BY <1>2
<1>3. \/ t \in {"user", "peer"} /\ p \in {"bye", "cancel"}
      \/ t = "reply" /\ p \in {"trying", "ack", "failed"}
  <2>1. CASE t \in {"user", "peer"}
    <3>1. p \in {"idle", "bye", "cancel"}
      BY <2>1, "caller" \in Ends DEF IInv, PhasesOK
    <3> QED BY <1>range, <2>1, <3>1, Names
  <2>2. CASE t = "reply"
    BY <1>2, <2>2 DEF IInv, PhasesOK
  <2>3. CASE t \in {"task", "timer", "ACK"}
    BY <1>2, <2>3 DEF IInv, PhasesOK
  <2> QED BY <2>1, <2>2, <2>3
<1>4. Reviving("caller") # {} => at["caller"]["reply"] \in {"trying", "ok", "ack"}
  BY DEF IInv, PhasesOK, Reviving
<1>5. p \in Ended /\ Caller'.mapped => t # "reply" /\ at'["caller"]["reply"] \in {"trying", "ok", "ack"}
  BY <1>2, <1>3, <1>4
<1> HIDE DEF p
<1>6. TypeOK'
  BY <1>2 DEF IInv, TypeOK, serverVars
<1>7. PhasesOK'
  BY <1>2, <1>3 DEF IInv, PhasesOK, Idle
<1>8. InviteOnce'
  BY <1>2 DEF IInv, InviteOnce, Fresh, Idle, serverVars
<1>9. CallerInMap'
  <2>1. invite # "new"
    BY <1>2, <1>3 DEF IInv, PhasesOK, Idle, p
  <2>2. Caller'.status \in Live /\ invite' \notin {"new", "unsent"} =>
          Caller'.mapped \/ "caller" \in raced'
    <3>1. CASE Caller.status \in Ended
      BY <1>2, <3>1
    <3>2. CASE Caller.status \in Live
      BY <1>2, <3>2 DEF IInv, CallerInMap
    <3> QED BY <1>1, <3>1, <3>2 DEF EndState
  <2>3. Caller'.mapped /\ Caller'.status \in Ended => at'["caller"]["reply"] # "idle"
    BY <1>2, <1>5
  <2>4. invite' = "done" /\ Caller'.tx /\ Caller'.mapped => at'["caller"]["reply"] = "failed"
    <3>1. CASE t = "reply"
      BY <1>2, <1>3, <1>5, <3>1 DEF IInv, CallerInMap, p
    <3>2. CASE t # "reply"
      BY <1>2, <3>2 DEF IInv, CallerInMap
    <3> QED BY <3>1, <3>2
  <2> QED BY <1>2, <2>1, <2>2, <2>3, <2>4 DEF IInv, CallerInMap
<1>10. CalleeInMap'
  BY <1>2, <1>3 DEF IInv, CalleeInMap, Idle, serverVars
<1>11. OkAnswered' /\ Acknowledged'
  BY <1>2, <1>3 DEF IInv, OkAnswered, Acknowledged, serverVars, p
<1> QED BY <1>6, <1>7, <1>8, <1>9, <1>10, <1>11 DEF IInv

LEMMA CalleeSetStatusKeeps ==
    ASSUME IInv, NEW t \in Threads, SetStatus("callee", t)
    PROVE  IInv'
<1> USE Facts, EndsFacts, Names
<1>1. TypeOK /\ Callee \in EndState
  BY DEF IInv
<1> DEFINE p == at["callee"][t]
<1>2. /\ end' \in [Ends -> EndState]
      /\ refused' \subseteq Ends /\ unsent' \subseteq Ends /\ raced' \subseteq Ends
      /\ \A x \in raced : x # "callee" \/ p \in Live => x \in raced'
      /\ Caller' = Caller
      /\ p \in Live \cup Ended /\ Callee'.status = p
      /\ Callee'.made = Callee.made /\ Callee'.dialog = Callee.dialog
      /\ Callee'.mapped => Callee.mapped
      /\ p \in Live => Callee'.mapped = Callee.mapped /\ (Callee.status \in Ended => "callee" \in raced')
      /\ p \in Ended /\ Callee'.mapped => Reviving("callee") # {}
      /\ at' \in [Ends -> [Threads -> Phases]] /\ at'["callee"][t] = "idle"
      /\ \A x \in Ends, u \in Threads : x # "callee" \/ u # t => at'[x][u] = at[x][u]
      /\ UNCHANGED <<invite, serverVars, net>>
  BY <1>1, SetStatusFacts
<1>range. p \in Live \cup Ended
  BY <1>2
<1>3. \/ t = "ACK" /\ p = "ack"
      \/ t # "ACK" /\ p \in Ended
  <2>1. CASE t \in {"user", "peer"}
    <3>1. p \in {"idle", "bye", "cancel"}
      BY <2>1, "callee" \in Ends DEF IInv, PhasesOK
    <3> QED BY <1>range, <2>1, <3>1, Names
  <2>2. CASE t = "ACK"
    <3>1. p \in {"idle", "ack"}
      BY <2>2 DEF IInv, PhasesOK
    <3> QED BY <1>range, <2>2, <3>1
  <2>3. CASE t \in {"reply", "task", "timer"}
    <3>1. p \in {"idle", "failed", "bye", "cancel"}
      BY <2>3 DEF IInv, PhasesOK
    <3> QED BY <1>range, <2>3, <3>1
  <2> QED BY <2>1, <2>2, <2>3
<1>4. Reviving("callee") # {} => at["callee"]["ACK"] = "ack"
  BY DEF IInv, PhasesOK, Reviving
<1>5. ~Idle("callee") /\ ~Fresh
  BY <1>2 DEF Idle, Fresh
<1> HIDE DEF p
<1>6. TypeOK'
  BY <1>2 DEF IInv, TypeOK, serverVars
<1>7. PhasesOK'
  BY <1>2, <1>3 DEF IInv, PhasesOK, Idle
<1>8. InviteOnce'
  BY <1>2, <1>5 DEF IInv, InviteOnce
<1>9. CallerInMap'
  BY <1>2 DEF IInv, CallerInMap
<1>10. CalleeInMap'
  <2>1. Callee.made => answer \notin Answers \cup {"none"}
    BY <1>5 DEF IInv, CalleeInMap
  <2>2. Callee'.made /\ Callee'.status \in Live /\ (answer' = "entered" \/ answered' = "200") =>
          Callee'.mapped \/ "callee" \in raced'
    <3>1. CASE Callee.status \in Ended
      BY <1>2, <3>1
    <3>2. CASE Callee.status \in Live
      BY <1>2, <3>2 DEF IInv, CalleeInMap, serverVars
    <3> QED BY <1>1, <3>1, <3>2 DEF EndState
  <2>3. Callee'.mapped /\ Callee'.status \in Ended => at'["callee"]["ACK"] = "ack"
    BY <1>2, <1>3, <1>4
  <2> QED BY <1>2, <2>1, <2>2, <2>3 DEF IInv, CalleeInMap, serverVars
<1>11. OkAnswered' /\ Acknowledged'
  BY <1>2, <1>3 DEF IInv, OkAnswered, Acknowledged, serverVars, p
<1> QED BY <1>6, <1>7, <1>8, <1>9, <1>10, <1>11 DEF IInv

\* to_bye() lets its thread go on to an end, and adds a BYE or a CANCEL at most.
LEMMA ToByeFacts ==
    ASSUME TypeOK, NEW e \in Ends, NEW t \in Threads, ToBye(e, t)
    PROVE  /\ net' \in [Ends -> [Messages -> Nat]] /\ unsent' \subseteq Ends
           /\ \A x \in Ends, n \in Messages \ {"BYE", "CANCEL"} : net'[x][n] = net[x][n]
           /\ at' \in [Ends -> [Threads -> Phases]] /\ at'[e][t] \in {"bye", "cancel"}
           /\ \A x \in Ends, u \in Threads : x # e \/ u # t => at'[x][u] = at[x][u]
<1>1. SendsEnd(e)
  BY DEF ToBye
<1>2. PICK p \in {"bye", "cancel"} : Goto(e, t, p)
  BY DEF ToBye
<1>3. p \in Phases
  BY Names
<1>4. /\ at' \in [Ends -> [Threads -> Phases]] /\ at'[e][t] = p
      /\ \A x \in Ends, u \in Threads : x # e \/ u # t => at'[x][u] = at[x][u]
  BY <1>2, <1>3, GotoFacts
<1> QED BY <1>1, <1>4, SendsEndFacts

\* A thread that begins to end a session keeps the invariant.
LEMMA ToByeKeeps ==
    ASSUME IInv, NEW e \in Ends, NEW t \in {"user", "peer", "timer"}, ToBye(e, t),
           UNCHANGED <<end, invite, answer, answered, refused, raced>>,
           ackTimer' \in BOOLEAN, ackTimer' => ackTimer,
           IF e = "caller" THEN t # "timer" /\ invite # "new"
                           ELSE Callee.made /\ answer \notin Answers \cup {"none"}
    PROVE  IInv'
<1>1. TypeOK /\ t \in Threads
  BY Names DEF IInv
<1>2. /\ net' \in [Ends -> [Messages -> Nat]] /\ unsent' \subseteq Ends
      /\ \A x \in Ends, n \in Messages \ {"BYE", "CANCEL"} : net'[x][n] = net[x][n]
      /\ at' \in [Ends -> [Threads -> Phases]] /\ at'[e][t] \in {"bye", "cancel"}
      /\ \A x \in Ends, u \in Threads : x # e \/ u # t => at'[x][u] = at[x][u]
  BY <1>1, ToByeFacts
<1>3. TypeOK'
  BY <1>1, <1>2 DEF TypeOK
<1>4. \A x \in Ends, n \in {"INVITE", "ACK", "200"} : net'[x][n] <= net[x][n]
  BY <1>1, <1>2, Facts, Names
<1> QED BY <1>2, <1>3, <1>4, EnderKeeps

\* So does a step that lets no thread go on.
LEMMA QuietKeeps ==
    ASSUME IInv, UNCHANGED <<end, invite, answer, at, unsent, raced>>,
           ackTimer' \in BOOLEAN, ackTimer' => ackTimer, refused' \subseteq Ends,
           answered' = answered \/ (answered = "none" /\ Callee.made /\ answered' = "4xx"),
           net' \in [Ends -> [Messages -> Nat]],
           \A x \in Ends, n \in {"INVITE", "ACK", "200"} : net'[x][n] <= net[x][n]
    PROVE  IInv'
<1>1. TypeOK'
  BY DEF IInv, TypeOK
<1>2. "caller" \in Ends /\ \A x \in Ends, u \in Threads : at'[x][u] = at[x][u]
  BY EndsFacts
<1>3. at'["caller"]["user"] = at["caller"]["user"]
  OBVIOUS
<1> QED BY <1>1, <1>2, <1>3, EnderKeeps

\* A message that arrives is gone.
LEMMA Fewer ==
    ASSUME TypeOK, NEW e \in Ends, NEW m \in Messages, Receives(e, m)
    PROVE  /\ net' \in [Ends -> [Messages -> Nat]]
           /\ \A x \in Ends, n \in {"INVITE", "ACK", "200"} : net'[x][n] <= net[x][n]
<1>1. /\ net' \in [Ends -> [Messages -> Nat]] /\ net'[e][m] = net[e][m] - 1
      /\ \A x \in Ends, n \in Messages : x # e \/ n # m => net'[x][n] = net[x][n]
  BY ReceivesFacts
<1>2. \A x \in Ends, n \in Messages : net[x][n] \in Nat
  BY Facts
<1>3. \A x \in Ends, n \in Messages : net'[x][n] <= net[x][n]
  BY <1>1, <1>2
<1> QED BY <1>1, <1>3, Names

LEMMA LostKeeps == ASSUME IInv, LateReply \/ LoseAck PROVE IInv'
<1>1. PICK e \in Ends, m \in Messages : Receives(e, m)
  <2>1. CASE LateReply
    BY <2>1, EndsFacts, Names DEF LateReply, Messages
  <2>2. CASE LoseAck
    BY <2>2, EndsFacts, Names DEF LoseAck
  <2> QED BY <2>1, <2>2
<1>2. UNCHANGED <<end, invite, serverVars, at, observers>>
  BY DEF LateReply, LoseAck
<1>3. TypeOK
  BY DEF IInv
<1>4. /\ net' \in [Ends -> [Messages -> Nat]]
      /\ \A x \in Ends, n \in {"INVITE", "ACK", "200"} : net'[x][n] <= net[x][n]
  BY <1>1, <1>3, Fewer
<1> QED BY <1>2, <1>3, <1>4, QuietKeeps DEF serverVars, observers, TypeOK

\* A BYE or CANCEL for an end that is in the map lets a thread go on.
LEMMA RecvEndKeeps ==
    ASSUME IInv, NEW e \in Ends, NEW s \in {"bye", "cancel"}, RecvEnd(e, s),
           answered' = answered \/ (answered = "none" /\ Callee.made /\ answered' = "4xx"),
           net' \in [Ends -> [Messages -> Nat]],
           \A x \in Ends, n \in {"INVITE", "ACK", "200"} : net'[x][n] <= net[x][n]
    PROVE  IInv'
<1>1. /\ TypeOK /\ UNCHANGED <<end, invite, answer, ackTimer, unsent, raced>>
  BY DEF IInv, RecvEnd
<1>2. CASE end[e].mapped /\ end[e].dialog
  <2>1. Goto(e, "peer", s) /\ UNCHANGED refused
    BY <1>2 DEF RecvEnd
  <2>2. /\ at' \in [Ends -> [Threads -> Phases]] /\ at'[e]["peer"] = s
        /\ \A x \in Ends, u \in Threads : x # e \/ u # "peer" => at'[x][u] = at[x][u]
    <3>1. "peer" \in Threads /\ s \in Phases
      BY Names
    <3> QED BY <1>1, <2>1, <3>1, GotoFacts
  <2>3. TypeOK'
    BY <1>1, <2>1, <2>2 DEF TypeOK
  <2>4. IF e = "caller" THEN invite # "new"
                        ELSE Callee.made /\ answer \notin Answers \cup {"none"}
    <3>1. CASE e = "caller"
      BY <1>2, <3>1, Names DEF IInv, CallerInMap, Caller
    <3>2. CASE e = "callee"
      BY <1>2, <3>2 DEF IInv, CalleeInMap, Callee
    <3> QED BY <3>1, <3>2, EndsFacts
  <2> QED BY <1>1, <2>2, <2>3, <2>4, EnderKeeps
<1>3. CASE ~(end[e].mapped /\ end[e].dialog)
  <2>1. refused' \subseteq refused \cup {e} /\ UNCHANGED at
    BY <1>3 DEF RecvEnd
  <2>2. refused' \subseteq Ends
    BY <1>1, <2>1 DEF TypeOK
  <2> QED BY <1>1, <2>1, <2>2, QuietKeeps DEF TypeOK
<1> QED BY <1>2, <1>3

LEMMA RecvByeKeeps == ASSUME IInv, NEW e \in Ends, RecvBye(e) PROVE IInv'
<1>1. TypeOK /\ RecvEnd(e, "bye") /\ Receives(e, "BYE") /\ UNCHANGED answered
  BY DEF IInv, RecvBye
<1>2. /\ net' \in [Ends -> [Messages -> Nat]]
      /\ \A x \in Ends, n \in {"INVITE", "ACK", "200"} : net'[x][n] <= net[x][n]
  BY <1>1, Fewer, Names
<1> QED BY <1>1, <1>2, RecvEndKeeps

LEMMA RecvCancelKeeps == ASSUME IInv, RecvCancel PROVE IInv'
<1>1. TypeOK /\ RecvEnd("callee", "cancel")
  BY DEF IInv, RecvCancel
<1>2. CASE Receives("callee", "CANCEL") /\ UNCHANGED answered
  <2>1. /\ net' \in [Ends -> [Messages -> Nat]]
        /\ \A x \in Ends, n \in {"INVITE", "ACK", "200"} : net'[x][n] <= net[x][n]
    BY <1>1, <1>2, Fewer, EndsFacts, Names
  <2> QED BY <1>1, <1>2, <2>1, RecvEndKeeps, EndsFacts
<1>3. CASE /\ Callee.made /\ answered = "none" /\ answered' = "4xx"
           /\ Exchanges("callee", "CANCEL", "4xx")
  <2>1. /\ net' \in [Ends -> [Messages -> Nat]]
        /\ \A x \in Ends, n \in {"INVITE", "ACK", "200"} : net'[x][n] = net[x][n]
    BY <1>1, <1>3, ExchangesFacts, EndsFacts, Names
  <2>2. \A x \in Ends, n \in {"INVITE", "ACK", "200"} : net'[x][n] <= net[x][n]
    BY <1>1, <2>1, Facts, Names
  <2> QED BY <1>1, <1>3, <2>1, <2>2, RecvEndKeeps, EndsFacts
<1> QED BY <1>2, <1>3 DEF RecvCancel, Callee

LEMMA AckTimeoutKeeps == ASSUME IInv, AckTimeout PROVE IInv'
<1>1. /\ TypeOK /\ ackTimer /\ ackTimer' = FALSE
      /\ UNCHANGED <<end, invite, answer, answered, refused, raced>>
  BY DEF IInv, AckTimeout
<1>2. answer = "run"
  BY <1>1 DEF IInv, CalleeInMap
<1>3. CASE Callee.made /\ ToBye("callee", "timer")
  BY <1>1, <1>2, <1>3, ToByeKeeps, EndsFacts DEF Answers
<1>4. CASE UNCHANGED <<at, net, unsent>>
  <2>1. /\ net' \in [Ends -> [Messages -> Nat]] /\ refused' \subseteq Ends
        /\ \A x \in Ends, n \in {"INVITE", "ACK", "200"} : net'[x][n] = net[x][n]
    BY <1>1, <1>4 DEF TypeOK
  <2>2. \A x \in Ends, n \in {"INVITE", "ACK", "200"} : net'[x][n] <= net[x][n]
    BY <1>1, <2>1, Facts, Names
  <2> QED BY <1>1, <1>4, <2>1, <2>2, QuietKeeps
<1> QED BY <1>3, <1>4 DEF AckTimeout, Callee

LEMMA CallerByeKeeps == ASSUME IInv, CallerBye PROVE IInv'
<1>1. /\ TypeOK /\ invite # "new" /\ ToBye("caller", "user")
      /\ UNCHANGED <<end, invite, serverVars, refused, raced>>
  BY DEF IInv, CallerBye
<1> QED BY <1>1, ToByeKeeps, EndsFacts DEF serverVars, TypeOK

LEMMA CalleeByeKeeps == ASSUME IInv, CalleeBye, NoEarlyBye PROVE IInv'
<1>1. /\ TypeOK /\ Callee.made /\ answer = "run" /\ ToBye("callee", "user")
      /\ UNCHANGED <<end, invite, serverVars, refused, raced>>
  BY DEF IInv, CalleeBye, NoEarlyBye, Callee
<1> QED BY <1>1, ToByeKeeps, EndsFacts DEF serverVars, TypeOK, Answers

LEMMA TeardownKeeps == ASSUME IInv, NEW e \in Ends, RecvTeardown(e) PROVE IInv'
<1>1. /\ TypeOK /\ end[e].mapped /\ ToBye(e, "peer")
      /\ UNCHANGED <<end, invite, serverVars, refused, raced>>
  BY DEF IInv, RecvTeardown
<1>2. IF e = "caller" THEN invite # "new"
                      ELSE Callee.made /\ answer \notin Answers \cup {"none"}
  <2>1. CASE e = "caller"
    BY <1>1, <2>1 DEF IInv, CallerInMap, Caller
  <2>2. CASE e = "callee"
    BY <1>1, <2>2 DEF IInv, CalleeInMap, Callee
  <2> QED BY <2>1, <2>2, EndsFacts
<1> QED BY <1>1, <1>2, ToByeKeeps DEF serverVars, TypeOK

----------------------------------------------------------------------------
(* The theorems *)

LEMMA NextIInv == ASSUME NoEarlyBye, IInv, [Next]_vars PROVE IInv'
<1>1. CASE ToInviteRequest \/ ToInviteRequestWithoutSdp
  BY <1>1, ToInviteRequestKeeps
<1>2. CASE Connect
  BY <1>2, InviteSentKeeps, InviteNotSentKeeps DEF Connect
<1>3. CASE CallerReceives \/ InviteTimeout
  BY <1>3, TryingReplyKeeps, FinalReplyKeeps, LostKeeps, RecvByeKeeps, EndsFacts
  DEF CallerReceives
<1>4. CASE CallerBye \/ CalleeBye
  BY <1>4, CallerByeKeeps, CalleeByeKeeps, NoEarlyBye
<1>5. CASE CalleeReceives \/ LoseAck
  BY <1>5, InviteRefusedKeeps, InviteAcceptedKeeps, RecvByeKeeps, RecvCancelKeeps,
     RecvAckKeeps, LostKeeps, EndsFacts
  DEF CalleeReceives
<1>6. CASE (\E a \in Answers : GiveAnswer(a)) \/ RunAnswer
  BY <1>6, AnswerQueuedKeeps, AnswerOkKeeps, ReplyOkKeeps, AnswerErrorKeeps DEF RunAnswer
<1>7. CASE AckTimeout \/ CalleeDestroyed
  BY <1>7, AckTimeoutKeeps, CalleeDestroyedKeeps
<1>8. CASE \E e \in Ends : RecvTeardown(e)
  BY <1>8, TeardownKeeps
<1>9. CASE Continue
  <2>1. CASE SendAck \/ OkOfNoUse
    BY <2>1, OkKeeps
  <2>2. CASE \E e \in Ends, t \in Threads : SetStatus(e, t)
    BY <2>2, CallerSetStatusKeeps, CalleeSetStatusKeeps, EndsFacts
  <2> QED BY <1>9, <2>1, <2>2 DEF Continue
<1>10. CASE UNCHANGED vars
  <2>1. TypeOK /\ UNCHANGED <<end, invite, answer, answered, ackTimer, at, net, observers>>
    BY <1>10 DEF IInv, vars, observers
  <2>2. \A x \in Ends, n \in {"INVITE", "ACK", "200"} : net'[x][n] <= net[x][n]
    BY <2>1, Facts, Names
  <2> QED BY <2>1, <2>2, QuietKeeps DEF observers, TypeOK
<1> QED BY <1>1, <1>2, <1>3, <1>4, <1>5, <1>6, <1>7, <1>8, <1>9, <1>10 DEF Next

\* What the threads, the messages and the map say of the two ends holds in every
\* state unless an application hangs up before its answer has run.
THEOREM Invariance == ASSUME NoEarlyBye PROVE Spec => []IInv
<1>1. IInv /\ [Next]_vars => IInv'
  BY NextIInv, NoEarlyBye
<1> QED BY <1>1, InitIInv, PTL DEF Spec

\* Every variable of the two ends, of their threads and of the network keeps its
\* type.
THEOREM TypeCorrect == ASSUME NoEarlyBye PROVE Spec => []TypeOK
<1>1. IInv => TypeOK
  BY DEF IInv
<1> QED BY <1>1, Invariance, NoEarlyBye, PTL

\* An end that believes the session established can always end its peer: the
\* peer is over, or the map and the dialog lead a BYE to it, or a set_status()
\* has overtaken the end of it.
THEOREM EstablishedCanEnd == ASSUME NoEarlyBye PROVE Spec => []EstablishedReachesPeer
<1>1. IInv => EstablishedReachesPeer
  <2> SUFFICES ASSUME IInv, NEW e \in Ends, end[e].status = "ack"
               PROVE  \/ IsOver(Peer(e))
                      \/ end[Peer(e)].mapped /\ end[Peer(e)].dialog
                      \/ Peer(e) \in raced
    BY DEF EstablishedReachesPeer
  <2> USE Facts, EndsFacts, Names
  <2>1. TypeOK
    BY DEF IInv
  <2>2. CASE e = "caller"
    <3>1. answered = "200"
      BY <2>1, <2>2 DEF IInv, OkAnswered
    <3>2. CASE ~Callee.made \/ Callee.status \in Ended
      BY <2>1, <2>2, <3>2 DEF IsOver
    <3>3. CASE Callee.made /\ Callee.status \in Live
      BY <2>1, <2>2, <3>1, <3>3 DEF IInv, CalleeInMap
    <3> QED BY <2>1, <3>2, <3>3 DEF EndState
  <2>3. CASE e = "callee"
    <3>1. invite = "done" /\ Caller.dialog
      BY <2>1, <2>3 DEF IInv, Acknowledged
    <3>2. CASE Caller.status \in Ended
      BY <2>1, <2>3, <3>2 DEF IsOver
    <3>3. CASE Caller.status \in Live
      BY <2>1, <2>3, <3>1, <3>3 DEF IInv, CallerInMap
    <3> QED BY <2>1, <3>2, <3>3 DEF EndState
  <2> QED BY <2>2, <2>3
<1> QED BY <1>1, Invariance, NoEarlyBye, PTL

\* The caller is established only when the callee has answered 200, the callee
\* only when the caller has taken that 200.
THEOREM NeverHalfEstablished == ASSUME NoEarlyBye PROVE Spec => []EstablishedByBoth
<1>1. IInv => EstablishedByBoth
  BY DEF IInv, OkAnswered, Acknowledged, EstablishedByBoth, Caller, Callee
<1> QED BY <1>1, Invariance, NoEarlyBye, PTL

\* A caller in the map that lives has no CANCEL left for an INVITE whose final
\* reply has been handled.
THEOREM CancelsOnlyPending == ASSUME NoEarlyBye PROVE Spec => []NoStaleCancel
<1>1. IInv => NoStaleCancel
  BY DEF IInv, CallerInMap, NoStaleCancel, Caller
<1> QED BY <1>1, Invariance, NoEarlyBye, PTL

\* A step from a state in which no thread is about to revive an end that is over
\* lets no thread become one: the map keeps the replies and the ACK away.
LEMMA NoRevival ==
    ASSUME IInv, [Next]_vars, NEW e \in Ends, end[e].status \in Ended, Reviving(e) = {}
    PROVE  end'[e].status \in Ended /\ Reviving(e)' = {}
<1> USE Facts, EndsFacts, Names
<1>1. TypeOK /\ \A t \in Threads : at[e][t] \notin Live \cup {"ok"}
  BY DEF IInv, Reviving
<1>2. ASSUME end'[e].status \in Ended,
             \A t \in Threads : at'[e][t] = at[e][t] \/ at'[e][t] \in Ended \cup {"idle"}
      PROVE  end'[e].status \in Ended /\ Reviving(e)' = {}
  BY <1>1, <1>2 DEF Reviving
<1>3. \A x \in Ends, t \in Threads, p \in Ended \cup {"idle"} :
        Goto(x, t, p) => \A u \in Threads : at'[e][u] = at[e][u] \/ at'[e][u] \in Ended \cup {"idle"}
  <2> SUFFICES ASSUME NEW x \in Ends, NEW t \in Threads, NEW p \in Ended \cup {"idle"},
                      Goto(x, t, p), NEW u \in Threads
               PROVE  at'[e][u] = at[e][u] \/ at'[e][u] \in Ended \cup {"idle"}
    OBVIOUS
  <2>1. p \in Phases
    OBVIOUS
  <2>2. at'[x][t] = p /\ (e # x \/ u # t => at'[e][u] = at[e][u])
    BY <1>1, <2>1, GotoFacts
  <2> QED BY <2>2
\* threads that begin to end a session
<1>4. ASSUME NEW x \in Ends, NEW t \in Threads, ToBye(x, t), UNCHANGED end
      PROVE  end'[e].status \in Ended /\ Reviving(e)' = {}
  <2>1. PICK p \in {"bye", "cancel"} : Goto(x, t, p)
    BY <1>4 DEF ToBye
  <2> QED BY <1>2, <1>3, <1>4, <2>1
\* steps that leave the status and the threads alone
<1>5. ASSUME end'[e].status = end[e].status, UNCHANGED at
      PROVE  end'[e].status \in Ended /\ Reviving(e)' = {}
  BY <1>2, <1>5
<1>6. CASE ToInviteRequest \/ ToInviteRequestWithoutSdp
  <2>1. end'[e].status = end[e].status
    BY <1>1, <1>6 DEF ToInviteRequest, ToInviteRequestWithoutSdp, TypeOK, EndState
  <2> QED BY <1>5, <1>6, <2>1 DEF ToInviteRequest, ToInviteRequestWithoutSdp
<1>7. CASE InviteSent \/ LateReply \/ LoseAck \/ InviteRefused
  BY <1>5, <1>7 DEF InviteSent, LateReply, LoseAck, InviteRefused
<1>8. CASE InviteNotSent
  BY <1>2, <1>3, <1>8 DEF InviteNotSent
\* replies
<1>9. ASSUME NEW p \in Phases, TakeReply(p), end'[e].status = end[e].status
      PROVE  end'[e].status \in Ended /\ Reviving(e)' = {}
  <2>1. CASE e = "caller"
    <3>1. ~Caller.mapped
      BY <1>1, <1>9, <2>1 DEF IInv, CallerInMap, TakeReply
    <3> QED BY <1>5, <1>9, <3>1 DEF TakeReply, Caller
  <2>2. CASE e = "callee"
    <3>1. \A t \in Threads : at'[e][t] = at[e][t]
      BY <1>1, <1>9, <2>2, TakeReplyFacts
    <3> QED BY <1>2, <1>9, <3>1
  <2> QED BY <2>1, <2>2
<1>10. CASE TryingReply
  BY <1>9, <1>10 DEF TryingReply
<1>11. CASE OkReply \/ ErrorReply \/ InviteTimeout
  <2>1. PICK p \in {"ok", "failed"} : TakeFinalReply(p)
    BY <1>11 DEF OkReply, ErrorReply, InviteTimeout
  <2>2. TakeReply(p) /\ end'[e].status = end[e].status
    BY <1>1, <2>1 DEF TakeFinalReply, TypeOK, EndState
  <2> QED BY <1>9, <2>2
<1>12. CASE SendAck \/ OkOfNoUse
  <2>1. at["caller"]["reply"] = "ok"
    BY <1>12 DEF SendAck, OkOfNoUse
  <2>2. e = "callee"
    BY <1>1, <2>1
  <2>3. PICK p \in {"ack", "failed"} : Goto("caller", "reply", p)
    BY <1>12 DEF SendAck, OkOfNoUse
  <2>4. \A t \in Threads : at'[e][t] = at[e][t]
    BY <1>1, <2>2, <2>3, GotoFacts
  <2>5. end'[e].status = end[e].status
    BY <1>1, <1>12, <2>2 DEF SendAck, OkOfNoUse, TypeOK, EndState
  <2> QED BY <1>2, <2>4, <2>5
\* the callee
<1>13. CASE InviteAccepted \/ RunAnswer \/ (\E a \in Answers : GiveAnswer(a))
  <2>1. CASE AnswerError
    BY <1>2, <1>3, <2>1 DEF AnswerError
  <2>2. CASE ~AnswerError
    <3>1. UNCHANGED at
      BY <1>13, <2>2 DEF InviteAccepted, RunAnswer, AnswerExpired, AnswerOk, ReplyOk, GiveAnswer
    <3>2. end'[e].status = end[e].status
      BY <1>1, <1>13, <2>2
      DEF InviteAccepted, RunAnswer, AnswerExpired, AnswerOk, ReplyOk, GiveAnswer, TypeOK, EndState
    <3> QED BY <1>5, <3>1, <3>2
  <2> QED BY <2>1, <2>2
<1>14. CASE CalleeDestroyed
  <2>1. end'[e].status \in Ended /\ UNCHANGED at
    BY <1>1, <1>14 DEF CalleeDestroyed, TypeOK, EndState
  <2> QED BY <1>2, <2>1
<1>15. CASE CallerBye \/ CalleeBye \/ (\E x \in Ends : RecvTeardown(x)) \/ AckTimeout
  <2>1. UNCHANGED end /\ (UNCHANGED at \/ \E x \in Ends, t \in Threads : ToBye(x, t))
    BY <1>15 DEF CallerBye, CalleeBye, RecvTeardown, AckTimeout
  <2> QED BY <1>4, <1>5, <2>1
\* requests of the peer
<1>16. CASE (\E x \in Ends : RecvBye(x)) \/ RecvCancel
  <2>1. PICK x \in Ends, s \in {"bye", "cancel"} : RecvEnd(x, s)
    BY <1>16 DEF RecvBye, RecvCancel
  <2>2. UNCHANGED end /\ (UNCHANGED at \/ Goto(x, "peer", s))
    BY <2>1 DEF RecvEnd
  <2> QED BY <1>2, <1>3, <1>5, <2>2
<1>17. CASE RecvAck
  <2>1. /\ at["callee"]["ACK"] = "idle" /\ UNCHANGED end
        /\ IF Callee.mapped THEN Goto("callee", "ACK", "ack") ELSE UNCHANGED at
    BY <1>17 DEF RecvAck, Callee
  <2>2. CASE e = "callee"
    <3>1. ~Callee.mapped
      BY <2>1, <2>2 DEF IInv, CalleeInMap
    <3> QED BY <1>5, <2>1, <3>1
  <2>3. CASE e = "caller"
    <3>1. \A t \in Threads : at'[e][t] = at[e][t]
      BY <1>1, <2>1, <2>3, GotoFacts
    <3> QED BY <1>2, <2>1, <3>1
  <2> QED BY <2>2, <2>3
\* set_status()
<1>18. CASE \E x \in Ends, t \in Threads : SetStatus(x, t)
  <2>1. PICK x \in Ends, t \in Threads : SetStatus(x, t)
    BY <1>18
  <2>2. /\ \A y \in Ends : y # x => end'[y] = end[y]
        /\ at[x][t] \in Live \cup Ended /\ end'[x].status = at[x][t]
    BY <1>1, <2>1, SetStatusFacts
  <2>3. end'[e].status \in Ended
    BY <1>1, <2>2
  <2> QED BY <1>2, <1>3, <2>1, <2>3 DEF SetStatus
<1>19. CASE UNCHANGED vars
  BY <1>5, <1>19 DEF vars
<1> QED BY <1>6, <1>7, <1>8, <1>10, <1>11, <1>12, <1>13, <1>14, <1>15, <1>16, <1>17, <1>18, <1>19
       DEF Next, Connect, CallerReceives, CalleeReceives, Continue

\* An end that is over stays so, unless a thread had found it in the map before.
THEOREM OverForGood == ASSUME NoEarlyBye PROVE Spec => StaysOver
<1>1. IInv /\ [Next]_vars =>
        [\A e \in Ends : end[e].status \in Ended /\ Reviving(e) = {} =>
            end'[e].status \in Ended /\ Reviving(e)' = {}]_vars
  BY NoRevival
<1> QED BY <1>1, Invariance, NoEarlyBye, PTL DEF Spec, StaysOver
==============================================================================

--------------------------- MODULE QueryAnswerProofs ---------------------------
(***************************************************************************)
(* Theorems about QueryAnswer: types, that a query is answered once, in    *)
(* the order of the application but for `concurrency' messages, and that a *)
(* failure stops all chains; for any number of chains, messages and calls  *)
(* of the callback.                                                        *)
(*                                                                         *)
(* A chain holds a message between the queue and the network.  IInv says   *)
(* that these messages are different from one another and from those that  *)
(* were sent; Counts and Ending count them.                                *)
(***************************************************************************)
EXTENDS QueryAnswer, FiniteSetTheorems, TLAPS

\* Before the callback has been taken nothing of the answer exists.
NothingYet ==
    /\ timer = "armed" \/ taken => query.code = 200
    /\ ~taken => sent = <<>> /\ \A c \in Chains : chain[c].at = "idle"
    /\ taken => answer.by \in {"app", "timer"}

\* What chain c has in its hands.
Holds(c) == chain[c].at = "send"

\* The messages in the hands of the chains, and those that were sent.
Parts ==
    /\ next <= answer.parts + 1
    /\ \A c \in Chains : Holds(c) => chain[c].part \in 1..(next - 1)
    /\ \A c, d \in Chains : Holds(c) /\ Holds(d) /\ chain[c].part = chain[d].part => c = d
    /\ \A c \in Chains : Holds(c) => \A i \in DOMAIN sent : sent[i].part # chain[c].part

IInv == TypeOK /\ NothingYet /\ Parts /\ AnsweredOnce

----------------------------------------------------------------------------
(* Types *)

\* A message from the queue.
LEMMA TakeFacts ==
    ASSUME NEW a \in Answer, NEW n \in 1..(MaxParts + 1), n <= a.parts
    PROVE  n \in 0..MaxParts /\ n + 1 \in 1..(MaxParts + 1)
BY QueryAssumption DEF QueryAssumption, Answer

\* A chain goes on, perhaps for the first time after the loop that started it.
LEMMA GoesFacts ==
    ASSUME chain \in [Chains -> Chain], NEW c \in Chains,
           NEW to \in {"idle", "check", "take", "send", "wait", "over"}, NEW b \in BOOLEAN,
           \/ chain' = [chain EXCEPT ![c].at = to]
           \/ chain' = [chain EXCEPT ![c].at = to, ![c].first = b]
    PROVE  /\ chain' \in [Chains -> Chain]
           /\ chain'[c].at = to
           /\ \A d \in Chains : d # c => chain'[d] = chain[d]
<1>1. chain[c] \in Chain
  OBVIOUS
<1>2. CASE chain' = [chain EXCEPT ![c].at = to]
  BY <1>1, <1>2 DEF Chain
<1>3. CASE chain' = [chain EXCEPT ![c].at = to, ![c].first = b]
  BY <1>1, <1>3 DEF Chain
<1> QED BY <1>2, <1>3

\* A chain takes a message.
LEMMA TakesFacts ==
    ASSUME chain \in [Chains -> Chain], NEW c \in Chains, NEW p \in 0..MaxParts,
           chain' = [chain EXCEPT ![c].at = "send", ![c].part = p]
    PROVE  /\ chain' \in [Chains -> Chain]
           /\ chain'[c].at = "send" /\ chain'[c].part = p
           /\ \A d \in Chains : d # c => chain'[d] = chain[d]
<1>1. chain[c] \in Chain
  OBVIOUS
<1> QED BY <1>1 DEF Chain

LEMMA InitIInv == Init => IInv
<1> SUFFICES ASSUME Init PROVE IInv
  OBVIOUS
<1>1. \A c \in Chains : chain[c].at = "idle"
  BY DEF Init
<1>2. TypeOK
  <2>1. chain \in [Chains -> Chain]
    BY QueryAssumption DEF Init, Chain, QueryAssumption
  <2>2. query \in Query
    <3>1. query \in [kind : Handlers, sn : SNs, code : {0}] /\ Handlers \subseteq {"one", "multi"}
      BY QueryAssumption DEF Init, QueryAssumption
    <3>2. query.kind \in {"one", "multi"} /\ query.sn \in SNs /\ query.code = 0
          /\ query = [kind |-> query.kind, sn |-> query.sn, code |-> query.code]
      BY <3>1
    <3> QED BY <3>2 DEF Query
  <2>3. answer \in Answer
    <3>1. answer = [by |-> "nobody", parts |-> 0, width |-> 0, ignore |-> FALSE] /\ 0 \in 0..MaxParts
      BY QueryAssumption DEF Init, QueryAssumption
    <3> QED BY <3>1 DEF Answer
  <2>4. next \in 1..(MaxParts + 1) /\ calls \in 0..MaxCalls /\ begun \in Nat
    BY QueryAssumption DEF Init, QueryAssumption
  <2>5. sent \in Seq(Message) /\ stop \in Stops
    BY DEF Init, Stops
  <2>6. ownSn \in SNs /\ timer \in {"none", "armed"} /\ taken \in BOOLEAN /\ alive \in BOOLEAN
    BY DEF Init
  <2> QED BY <2>1, <2>2, <2>3, <2>4, <2>5, <2>6 DEF TypeOK
<1>3. NothingYet
  BY <1>1 DEF Init, NothingYet
<1>4. Parts
  BY <1>1 DEF Init, Parts, Holds
<1>5. AnsweredOnce
  BY DEF Init, AnsweredOnce
<1> QED BY <1>2, <1>3, <1>4, <1>5 DEF IInv

----------------------------------------------------------------------------
(* The steps *)

\* A chain goes on without a message: the queue and what was sent stay.
LEMMA GoesKeeps ==
    ASSUME IInv, NEW c \in Chains, taken,
           NEW to \in {"idle", "check", "take", "wait", "over"}, NEW b \in BOOLEAN,
           \/ chain' = [chain EXCEPT ![c].at = to]
           \/ chain' = [chain EXCEPT ![c].at = to, ![c].first = b],
           begun' \in Nat, stop' \in Stops,
           UNCHANGED <<query, ownSn, timer, taken, answer, next, sent, alive, calls>>
    PROVE  IInv'
<1>1. /\ chain' \in [Chains -> Chain]
      /\ chain'[c].at = to
      /\ \A d \in Chains : d # c => chain'[d] = chain[d]
  <2>1. chain \in [Chains -> Chain]
    BY DEF IInv, TypeOK
  <2> QED BY <2>1, GoesFacts
<1>2. TypeOK'
  BY <1>1 DEF IInv, TypeOK
<1>3. NothingYet'
  BY <1>1 DEF IInv, NothingYet
<1>4. \A d \in Chains : Holds(d)' => d # c /\ Holds(d) /\ chain'[d] = chain[d]
  BY <1>1 DEF Holds
<1>5. Parts'
  BY <1>4 DEF IInv, Parts
<1>6. AnsweredOnce'
  BY DEF IInv, AnsweredOnce
<1> QED BY <1>2, <1>3, <1>5, <1>6 DEF IInv

\* A chain that is not idle has been started by an answer.
LEMMA Started == ASSUME IInv, NEW c \in Chains, chain[c].at # "idle" PROVE taken
BY DEF IInv, NothingYet

LEMMA ProcessKeeps == ASSUME IInv, Process PROVE IInv'
<1>1. /\ query.code = 0
      /\ query' \in {[query EXCEPT !.code = 400], [query EXCEPT !.code = 404], [query EXCEPT !.code = 200]}
      /\ timer' \in {"none", "armed"} /\ (timer' = timer \/ query' = [query EXCEPT !.code = 200])
      /\ UNCHANGED <<ownSn, taken, answer, next, stop, begun, chain, sent, alive, calls>>
  BY DEF Process, IInv, TypeOK
<1>2. query \in Query
  BY DEF IInv, TypeOK
<1>3. /\ query' \in Query
      /\ query' = [query EXCEPT !.code = 200] => query'.code = 200
  BY <1>1, <1>2 DEF Query
<1>4. ~taken /\ timer = "none" /\ sent = <<>>
  BY <1>1 DEF IInv, NothingYet, TypeOK
<1>5. TypeOK'
  BY <1>1, <1>3 DEF IInv, TypeOK
<1>6. NothingYet'
  BY <1>1, <1>3, <1>4 DEF IInv, NothingYet
<1>7. Parts'
  BY <1>1 DEF IInv, Parts, Holds
<1>8. AnsweredOnce'
  BY <1>1, <1>4 DEF IInv, AnsweredOnce
<1> QED BY <1>5, <1>6, <1>7, <1>8 DEF IInv

\* The first call of the callback.
LEMMA TakesKeeps ==
    ASSUME IInv, ~taken, query.code = 200,
           NEW who \in {"app", "timer"}, NEW parts \in 0..MaxParts,
           NEW width \in Nat, NEW ignore \in BOOLEAN, Takes(who, parts, width, ignore),
           timer' = "none", calls' \in 0..MaxCalls, UNCHANGED <<query, ownSn, sent, alive>>
    PROVE  IInv'
<1>1. /\ taken' /\ taken' \in BOOLEAN /\ next' = 1 /\ begun' = 0 /\ stop' = "no"
      /\ answer' = [by |-> who, parts |-> parts, ignore |-> ignore,
                    width |-> IF width = 0 THEN 1 ELSE width]
      /\ chain' = [c \in Chains |-> [at |-> "idle", first |-> TRUE, part |-> 0]]
  BY DEF Takes
<1>2. answer' \in Answer /\ answer'.by = who /\ answer'.parts = parts
  BY <1>1 DEF Answer
<1>3. \A c \in Chains : chain'[c].at = "idle"
  BY <1>1
<1>4. sent' = <<>>
  BY DEF IInv, NothingYet
<1>5. TypeOK'
  <2>1. chain' \in [Chains -> Chain]
    BY <1>1, QueryAssumption DEF Chain, QueryAssumption
  <2>2. next' \in 1..(MaxParts + 1) /\ begun' \in Nat /\ stop' \in Stops
    BY <1>1, QueryAssumption DEF QueryAssumption, Stops
  <2> QED BY <1>1, <1>2, <2>1, <2>2 DEF IInv, TypeOK
<1>6. NothingYet'
  BY <1>1, <1>2 DEF NothingYet
<1>7. Parts'
  BY <1>1, <1>2, <1>3 DEF Parts, Holds
<1>8. AnsweredOnce'
  BY <1>4 DEF AnsweredOnce
<1> QED BY <1>5, <1>6, <1>7, <1>8 DEF IInv

\* A later call, or a step that changes nothing but the timer and the count.
LEMMA LaterKeeps ==
    ASSUME IInv, timer' \in {timer, "none"}, calls' \in 0..MaxCalls, alive' \in BOOLEAN,
           UNCHANGED <<query, ownSn, taken, answer, next, stop, begun, chain, sent>>
    PROVE  IInv'
<1>1. TypeOK'
  BY DEF IInv, TypeOK
<1>2. NothingYet'
  BY DEF IInv, NothingYet
<1>3. Parts' /\ AnsweredOnce'
  BY DEF IInv, Parts, Holds, AnsweredOnce
<1> QED BY <1>1, <1>2, <1>3 DEF IInv

LEMMA AppAnswersKeeps == ASSUME IInv, AppAnswers PROVE IInv'
<1>1. calls' \in 0..MaxCalls
  BY QueryAssumption DEF IInv, TypeOK, AppAnswers, QueryAssumption
<1>2. query.code = 200 /\ UNCHANGED <<query, ownSn, sent, alive>>
  BY DEF AppAnswers
<1>3. CASE First
  <2>1. PICK parts \in 0..MaxParts, width \in Widths, ignore \in BOOLEAN :
            Takes("app", parts, width, ignore)
    BY <1>3 DEF AppAnswers
  <2>2. width \in Nat
    BY QueryAssumption DEF Widths, QueryAssumption
  <2>3. timer' = "none" /\ ~taken
    BY <1>3 DEF AppAnswers, First
  <2> QED BY <1>1, <1>2, <2>1, <2>2, <2>3, TakesKeeps
<1>4. CASE ~First
  BY <1>1, <1>2, <1>4, LaterKeeps DEF AppAnswers, IInv, TypeOK
<1> QED BY <1>3, <1>4

LEMMA TimerAnswersKeeps == ASSUME IInv, TimerAnswers PROVE IInv'
<1>1. timer = "armed" /\ timer' = "none" /\ UNCHANGED <<query, ownSn, sent, alive, calls>>
  BY DEF TimerAnswers
<1>2. query.code = 200 /\ calls \in 0..MaxCalls /\ alive \in BOOLEAN
  BY <1>1 DEF IInv, NothingYet, TypeOK
<1> DEFINE who == "timer"
           one == 1
           ignore == TRUE
<1>3. CASE First
  <2>1. Takes(who, one, one, ignore) /\ ~taken
    BY <1>3 DEF TimerAnswers, First
  <2>2. one \in 0..MaxParts /\ one \in Nat
    BY QueryAssumption DEF QueryAssumption
  <2>3. who \in {"app", "timer"} /\ ignore \in BOOLEAN
    OBVIOUS
  <2>4. calls' \in 0..MaxCalls
    BY <1>1, <1>2
  <2> HIDE DEF who, one, ignore
  <2> QED BY <1>1, <1>2, <2>1, <2>2, <2>3, <2>4, TakesKeeps
<1>4. CASE ~First
  BY <1>1, <1>2, <1>4, LaterKeeps DEF TimerAnswers
<1> QED BY <1>3, <1>4

\* The front of the queue: a message no chain holds and none has sent.
LEMMA TakeKeeps == ASSUME IInv, NEW c \in Chains, Take(c) PROVE IInv'
<1>1. chain[c].at = "take" /\ UNCHANGED <<query, ownSn, timer, taken, answer, begun, sent, alive, calls>>
  BY DEF Take
<1>2. taken
  BY <1>1, Started
<1>3. CASE ~HasMore
  <2>1. chain' = [chain EXCEPT ![c].at = "over"] /\ next' = next /\ stop' \in Stops
    BY <1>3 DEF Take, Goes, Ends, Stops, IInv, TypeOK
  <2> QED BY <1>1, <1>2, <2>1, GoesKeeps DEF IInv, TypeOK
<1>4. CASE HasMore
  <2>1. /\ chain' = [chain EXCEPT ![c].at = "send", ![c].part = next]
        /\ next' = next + 1 /\ stop' = stop /\ next <= answer.parts
    BY <1>4 DEF Take, HasMore
  <2>2. answer \in Answer /\ next \in 1..(MaxParts + 1) /\ chain \in [Chains -> Chain]
    BY DEF IInv, TypeOK
  <2>3. next \in 0..MaxParts /\ next + 1 \in 1..(MaxParts + 1)
    BY <2>1, <2>2, TakeFacts
  <2>4. /\ chain' \in [Chains -> Chain] /\ chain'[c].at = "send" /\ chain'[c].part = next
        /\ \A d \in Chains : d # c => chain'[d] = chain[d]
    BY <2>1, <2>2, <2>3, TakesFacts
  <2>5. TypeOK'
    BY <1>1, <2>1, <2>3, <2>4 DEF IInv, TypeOK
  <2>6. NothingYet'
    BY <1>1, <1>2 DEF IInv, NothingYet
  <2>7. next \in Nat /\ answer.parts \in Nat
    BY <2>2, QueryAssumption DEF QueryAssumption, Answer
  <2>8. \A i \in DOMAIN sent : sent[i].part \in Nat /\ sent[i].part < next
    <3>1. \A i \in DOMAIN sent : sent[i].part \in Nat
      <4>1. sent \in Seq(Message)
        BY DEF IInv, TypeOK
      <4>2. \A i \in DOMAIN sent : sent[i] \in Message
        BY <4>1
      <4> QED BY <4>2 DEF Message
    <3> QED BY <3>1 DEF IInv, AnsweredOnce
  <2>9. Parts'
    <3>1. \A d \in Chains : Holds(d)' => d = c \/ (Holds(d) /\ chain'[d] = chain[d])
      BY <2>4 DEF Holds
    <3>2. next' <= answer'.parts + 1
      BY <1>1, <2>1, <2>7
    <3>3. \A d \in Chains : Holds(d)' => chain'[d].part \in 1..(next' - 1)
      BY <2>1, <2>2, <2>4, <2>7, <3>1 DEF IInv, Parts
    <3>4. \A d \in Chains : Holds(d) => chain[d].part # next
      BY <2>7 DEF IInv, Parts
    <3>5. \A d, e \in Chains : Holds(d)' /\ Holds(e)' /\ chain'[d].part = chain'[e].part => d = e
      BY <2>4, <3>1, <3>4 DEF IInv, Parts
    <3>6. \A d \in Chains : Holds(d)' => \A i \in DOMAIN sent : sent[i].part # chain'[d].part
      BY <2>4, <2>7, <2>8, <3>1 DEF IInv, Parts
    <3> QED BY <1>1, <3>2, <3>3, <3>5, <3>6 DEF Parts
  <2>10. AnsweredOnce'
    BY <1>1, <2>1, <2>7, <2>8 DEF IInv, AnsweredOnce
  <2> QED BY <2>5, <2>6, <2>9, <2>10 DEF IInv
<1> QED BY <1>3, <1>4

\* The message a chain holds is sent.
LEMMA SendKeeps == ASSUME IInv, NEW c \in Chains, Send(c) PROVE IInv'
<1>1. Holds(c) /\ UNCHANGED <<query, ownSn, timer, taken, answer, next, begun, alive, calls>>
  BY DEF Send, Holds
<1>2. taken
  BY <1>1, Started DEF Holds
<1>3. CASE ~alive
  <2>1. chain' = [chain EXCEPT ![c].at = "over"] /\ sent' = sent /\ stop' \in Stops
    BY <1>3 DEF Send, Goes, Ends, Stops, IInv, TypeOK
  <2> QED BY <1>1, <1>2, <2>1, GoesKeeps DEF IInv, TypeOK
<1>4. CASE alive
  <2> DEFINE m == [part |-> chain[c].part, sn |-> SentSn, by |-> answer.by, late |-> stop # "no"]
  <2>1. /\ sent' = Append(sent, m) /\ stop' = stop
        /\ chain' = [chain EXCEPT ![c].at = "wait"]
    BY <1>4 DEF Send, Goes
  <2>2. /\ chain \in [Chains -> Chain] /\ sent \in Seq(Message) /\ next \in 1..(MaxParts + 1)
        /\ query \in Query /\ ownSn \in SNs
    BY DEF IInv, TypeOK
  <2>3. chain[c].part \in 1..(next - 1) /\ chain[c].part \in 1..MaxParts
    BY <1>1, <2>2, QueryAssumption DEF IInv, Parts, QueryAssumption
  <2>4. m \in Message /\ m.part = chain[c].part /\ m.by = answer.by
    <3>1. SentSn \in SNs
      BY <2>2 DEF SentSn, Query
    <3>2. answer.by \in {"app", "timer"}
      BY <1>2 DEF IInv, NothingYet
    <3> QED BY <2>3, <3>1, <3>2 DEF Message
  <2> HIDE DEF m
  <2>5. /\ sent' \in Seq(Message) /\ DOMAIN sent' = 1..(Len(sent) + 1) /\ DOMAIN sent = 1..Len(sent)
        /\ Len(sent) \in Nat /\ sent'[Len(sent) + 1] = m
        /\ \A i \in 1..Len(sent) : sent'[i] = sent[i]
    BY <2>1, <2>2, <2>4
  <2>6. \A i \in DOMAIN sent' : (i \in DOMAIN sent /\ sent'[i] = sent[i]) \/ (i = Len(sent) + 1 /\ sent'[i] = m)
    BY <2>5
  <2>7. /\ chain' \in [Chains -> Chain] /\ chain'[c].at = "wait"
        /\ \A d \in Chains : d # c => chain'[d] = chain[d]
    <3>1. TRUE \in BOOLEAN
      OBVIOUS
    <3> QED BY <2>1, <2>2, <3>1, GoesFacts
  <2>8. \A d \in Chains : Holds(d)' => d # c /\ Holds(d) /\ chain'[d] = chain[d]
    BY <2>7 DEF Holds
  <2>9. TypeOK'
    BY <1>1, <2>1, <2>5, <2>7 DEF IInv, TypeOK
  <2>10. NothingYet'
    BY <1>1, <1>2 DEF IInv, NothingYet
  <2>11. Parts'
    <3>1. \A d \in Chains : Holds(d)' => \A i \in DOMAIN sent' : sent'[i].part # chain'[d].part
      BY <1>1, <2>4, <2>6, <2>8 DEF IInv, Parts
    <3> QED BY <1>1, <2>8, <3>1 DEF IInv, Parts
  <2>12. AnsweredOnce'
    <3>1. query'.code = 200 /\ taken'
      BY <1>1, <1>2 DEF IInv, NothingYet
    <3>2. \A i \in DOMAIN sent' : sent'[i].by = answer'.by /\ sent'[i].part < next'
      <4>1. chain[c].part < next
        BY <2>2, <2>3
      <4> QED BY <1>1, <2>4, <2>6, <4>1 DEF IInv, AnsweredOnce
    <3>3. \A i \in DOMAIN sent : sent[i].part # m.part
      BY <1>1, <2>4 DEF IInv, Parts
    <3>4. \A i, j \in DOMAIN sent' : sent'[i].part = sent'[j].part => i = j
      BY <2>6, <3>3 DEF IInv, AnsweredOnce
    <3> QED BY <3>1, <3>2, <3>4 DEF AnsweredOnce
  <2> QED BY <2>9, <2>10, <2>11, <2>12 DEF IInv
<1> QED BY <1>3, <1>4

LEMMA BeginKeeps == ASSUME IInv, NEW c \in Chains, Begin(c) PROVE IInv'
<1>1. /\ taken /\ begun' = c /\ chain' = [chain EXCEPT ![c].at = "check"]
      /\ UNCHANGED <<query, ownSn, timer, taken, answer, next, stop, sent, alive, calls>>
  BY DEF Begin, Goes
<1>2. begun' \in Nat /\ stop' \in Stops
  BY <1>1, QueryAssumption DEF QueryAssumption, IInv, TypeOK
<1> QED BY <1>1, <1>2, GoesKeeps

LEMMA CheckKeeps == ASSUME IInv, NEW c \in Chains, Check(c) PROVE IInv'
<1>1. /\ chain[c].at = "check" /\ chain' = [chain EXCEPT ![c].at = AfterCheck]
      /\ UNCHANGED <<query, ownSn, timer, taken, answer, next, stop, begun, sent, alive, calls>>
  BY DEF Check, Goes
<1>2. AfterCheck \in {"take", "over"} /\ taken
  BY <1>1, Started DEF AfterCheck
<1>3. begun' \in Nat /\ stop' \in Stops
  BY <1>1 DEF IInv, TypeOK
<1> QED BY <1>1, <1>2, <1>3, GoesKeeps

LEMMA CompletedKeeps ==
    ASSUME IInv, NEW c \in Chains, NEW how \in Outcomes, Completed(c, how) PROVE IInv'
<1>1. /\ chain[c].at = "wait"
      /\ UNCHANGED <<query, ownSn, timer, taken, answer, next, begun, sent, alive, calls>>
      /\ \/ chain' = [chain EXCEPT ![c].at = "check", ![c].first = FALSE] /\ stop' = stop
         \/ chain' = [chain EXCEPT ![c].at = "over", ![c].first = FALSE]
            /\ (stop' = stop \/ stop' = how)
  BY DEF Completed, Ends
<1>2. taken
  BY <1>1, Started
<1>3. begun' \in Nat /\ stop' \in Stops
  BY <1>1, QueryAssumption DEF IInv, TypeOK, Stops, QueryAssumption
<1> QED BY <1>1, <1>2, <1>3, GoesKeeps

LEMMA NextIInv == ASSUME IInv, [Next]_vars PROVE IInv'
<1>1. CASE Process \/ AppAnswers \/ TimerAnswers
  BY <1>1, ProcessKeeps, AppAnswersKeeps, TimerAnswersKeeps
<1>2. CASE Destroyed \/ UNCHANGED vars
  <2>1. /\ timer' = timer /\ calls' = calls /\ alive' \in BOOLEAN
        /\ UNCHANGED <<query, ownSn, taken, answer, next, stop, begun, chain, sent>>
    BY <1>2 DEF Destroyed, vars, IInv, TypeOK
  <2> QED BY <2>1, LaterKeeps DEF IInv, TypeOK
<1>3. CASE \E c \in Chains : Step(c)
  BY <1>3, BeginKeeps, CheckKeeps, TakeKeeps, SendKeeps, CompletedKeeps DEF Step
<1> QED BY <1>1, <1>2, <1>3 DEF Next

----------------------------------------------------------------------------
(* The theorems *)

\* Types, the state before the answer, the messages under way and AnsweredOnce
\* are together an inductive invariant.
THEOREM Invariance == Spec => []IInv
BY InitIInv, NextIInv, PTL DEF Spec

\* Every variable of the query, the queue and the chains keeps its type.
THEOREM TypeCorrect == Spec => []TypeOK
<1>1. IInv => TypeOK
  BY DEF IInv
<1> QED BY <1>1, Invariance, PTL

\* Application, timer and the chains together send each message of one answer
\* once at most.
THEOREM AnsweredOnceCorrect == Spec => []AnsweredOnce
<1>1. IInv => AnsweredOnce
  BY DEF IInv
<1> QED BY <1>1, Invariance, PTL

----------------------------------------------------------------------------
(* Counting *)

\* The chains with a message in their hands, and those that may come to one.
Held   == {c \in Chains : chain[c].at = "send"}
Active == {c \in Chains : chain[c].at \in {"take", "send"}}

\* What was sent after the flag that ends the chains was set.
Late == {i \in DOMAIN sent : sent[i].late}

\* Only the first `concurrency' chains are at work, and every message that has
\* left the queue was sent or is held, while there is a platform.
Counts ==
    /\ begun <= answer.width
    /\ \A c \in Chains : chain[c].at # "idle" => c <= begun
    /\ alive => next = Len(sent) + Cardinality(Held) + 1
    /\ InOrder

\* The flag is set by a chain that is over, so that there is room for it among
\* the messages that still go out.
Ending ==
    /\ query.kind = "one" => answer.width <= 1
    /\ taken => 1 <= answer.width
    /\ stop = "no" => Late = {}
    /\ stop # "no" => /\ \E c \in Chains : chain[c].at = "over"
                      /\ Cardinality(Late) + Cardinality(Active) < answer.width

\* Chain c goes from one place to another, the others stay.
Move(c, from, to) ==
    /\ chain[c].at = from /\ chain'[c].at = to
    /\ \A d \in Chains : d # c => chain'[d] = chain[d]

\* The message of chain c.
Msg(c) == [part |-> chain[c].part, sn |-> SentSn, by |-> answer.by, late |-> stop # "no"]

\* The steps of a chain, as far as counting is concerned.
Moves(c) ==
    \/ /\ Move(c, chain[c].at, "check") /\ begun' = c /\ c = begun + 1 /\ c <= answer.width
       /\ UNCHANGED <<next, sent, stop>>
    \/ /\ Move(c, "check", AfterCheck)
       /\ UNCHANGED <<next, begun, sent, stop>>
    \/ /\ Move(c, "take", "send") /\ next' = next + 1
       /\ UNCHANGED <<begun, sent, stop>>
    \/ /\ Move(c, "send", "wait") /\ alive /\ sent' = Append(sent, Msg(c))
       /\ UNCHANGED <<next, begun, stop>>
    \/ /\ Move(c, "wait", "check") /\ query.kind = "multi"
       /\ UNCHANGED <<next, begun, sent, stop>>
    \/ /\ \E from \in {"take", "send", "wait"} : Move(c, from, "over")
       /\ chain[c].at = "send" => ~alive
       /\ stop' # "no"
       /\ UNCHANGED <<next, begun, sent>>

LEMMA StepMoves ==
    ASSUME IInv, NEW c \in Chains, Step(c)
    PROVE  taken /\ Moves(c) /\ UNCHANGED <<query, answer, taken, alive>>
<1>1. chain \in [Chains -> Chain] /\ next \in 1..(MaxParts + 1) /\ answer \in Answer
  BY DEF IInv, TypeOK
<1>2. \A why : why # "no" /\ Ends(why) => stop' # "no"
  BY DEF Ends
<1>3. \A b \in BOOLEAN : \A to \in {"idle", "check", "take", "send", "wait", "over"} :
        \/ chain' = [chain EXCEPT ![c].at = to]
        \/ chain' = [chain EXCEPT ![c].at = to, ![c].first = b]
        => Move(c, chain[c].at, to)
  BY <1>1, GoesFacts DEF Move
<1>4. CASE Begin(c)
  <2>1. chain' = [chain EXCEPT ![c].at = "check"]
    BY <1>4 DEF Begin, Goes
  <2>2. Move(c, chain[c].at, "check")
    BY <2>1, <1>3
  <2> QED BY <1>4, <2>2 DEF Begin, Width, Moves
<1>5. CASE Check(c)
  <2>1. chain' = [chain EXCEPT ![c].at = AfterCheck] /\ chain[c].at = "check"
    BY <1>5 DEF Check, Goes
  <2>2. AfterCheck \in {"take", "over"} /\ taken
    BY <2>1, Started DEF AfterCheck
  <2>3. Move(c, "check", AfterCheck)
    BY <2>1, <2>2, <1>3
  <2> QED BY <1>5, <2>2, <2>3 DEF Check, Moves
<1>6. CASE Take(c)
  <2>1. chain[c].at = "take" /\ UNCHANGED <<query, answer, taken, begun, sent, alive>>
    BY <1>6 DEF Take
  <2>2. taken
    BY <2>1, Started
  <2>3. CASE HasMore
    <3>1. /\ chain' = [chain EXCEPT ![c].at = "send", ![c].part = next]
          /\ next' = next + 1 /\ stop' = stop
      BY <1>6, <2>3 DEF Take
    <3>2. next \in 0..MaxParts
      BY <1>1, <2>3, TakeFacts DEF HasMore
    <3>3. Move(c, "take", "send")
      BY <1>1, <2>1, <3>1, <3>2, TakesFacts DEF Move
    <3> QED BY <2>1, <2>2, <3>1, <3>3 DEF Moves
  <2>4. CASE ~HasMore
    <3>1. chain' = [chain EXCEPT ![c].at = "over"] /\ stop' # "no" /\ next' = next
      BY <1>2, <1>6, <2>4 DEF Take, Goes
    <3>2. Move(c, "take", "over")
      BY <1>3, <2>1, <3>1
    <3> QED BY <2>1, <2>2, <3>1, <3>2 DEF Moves
  <2> QED BY <2>3, <2>4
<1>7. CASE Send(c)
  <2>1. chain[c].at = "send" /\ UNCHANGED <<query, answer, taken, next, begun, alive>>
    BY <1>7 DEF Send
  <2>2. taken
    BY <2>1, Started
  <2>3. CASE alive
    <3>1. /\ chain' = [chain EXCEPT ![c].at = "wait"]
          /\ sent' = Append(sent, Msg(c)) /\ stop' = stop
      BY <1>7, <2>3 DEF Send, Goes, Msg
    <3>2. Move(c, "send", "wait")
      BY <1>3, <2>1, <3>1
    <3> QED BY <2>1, <2>2, <2>3, <3>1, <3>2 DEF Moves
  <2>4. CASE ~alive
    <3>1. chain' = [chain EXCEPT ![c].at = "over"] /\ stop' # "no" /\ sent' = sent
      BY <1>2, <1>7, <2>4 DEF Send, Goes
    <3>2. Move(c, "send", "over")
      BY <1>3, <2>1, <3>1
    <3> QED BY <2>1, <2>2, <2>4, <3>1, <3>2 DEF Moves
  <2> QED BY <2>3, <2>4
<1>8. ASSUME NEW how \in Outcomes, Completed(c, how)
      PROVE  taken /\ Moves(c) /\ UNCHANGED <<query, answer, taken, alive>>
  <2>1. chain[c].at = "wait" /\ UNCHANGED <<query, answer, taken, next, begun, sent, alive>>
    BY <1>8 DEF Completed
  <2>2. taken
    BY <2>1, Started
  <2>3. how # "no"
    BY QueryAssumption DEF QueryAssumption, OutcomeNames
  <2>4. CASE GoesOn(how) /\ query.kind = "multi"
    <3>1. chain' = [chain EXCEPT ![c].at = "check", ![c].first = FALSE] /\ stop' = stop
      BY <1>8, <2>4 DEF Completed
    <3>2. Move(c, "wait", "check")
      BY <1>3, <2>1, <3>1
    <3> QED BY <2>1, <2>2, <2>4, <3>1, <3>2 DEF Moves
  <2>5. CASE ~(GoesOn(how) /\ query.kind = "multi")
    <3>1. chain' = [chain EXCEPT ![c].at = "over", ![c].first = FALSE] /\ stop' # "no"
      BY <1>2, <1>8, <2>3, <2>5 DEF Completed
    <3>2. Move(c, "wait", "over")
      BY <1>3, <2>1, <3>1
    <3> QED BY <2>1, <2>2, <3>1, <3>2 DEF Moves
  <2> QED BY <2>4, <2>5
<1> QED BY <1>4, <1>5, <1>6, <1>7, <1>8 DEF Step

\* Every other step changes nothing that is counted, or is the first call of
\* the callback.
Quiet ==
    /\ UNCHANGED <<answer, next, begun, chain, sent, taken, stop>>
    /\ query'.kind = query.kind /\ (alive' => alive)
Fresh ==
    /\ taken' /\ sent' = <<>> /\ next' = 1 /\ begun' = 0 /\ stop' = "no"
    /\ \A c \in Chains : chain'[c].at = "idle"
    /\ answer'.width \in Nat \ {0}
    /\ query'.kind = "one" => answer'.width = 1

LEMMA OtherSteps ==
    ASSUME IInv, [Next]_vars
    PROVE  Quiet \/ Fresh \/ \E c \in Chains : Step(c)
<1>1. CASE Process
  <2>1. query'.kind = query.kind
    BY <1>1 DEF Process, IInv, TypeOK, Query
  <2> QED BY <1>1, <2>1 DEF Process, Quiet
<1>2. ASSUME NEW who, NEW parts, NEW width \in Nat, NEW ignore, Takes(who, parts, width, ignore),
             ~taken, query.kind = "one" => width = 1, UNCHANGED <<query, sent>>
      PROVE  Fresh
  <2>1. /\ answer'.width \in Nat \ {0} /\ (width = 1 => answer'.width = 1)
        /\ \A c \in Chains : chain'[c].at = "idle"
    BY <1>2 DEF Takes
  <2>2. sent' = <<>>
    BY <1>2 DEF IInv, NothingYet
  <2> QED BY <1>2, <2>1, <2>2 DEF Takes, Fresh
<1>3. CASE AppAnswers
  <2>1. CASE First
    <3>1. PICK parts \in 0..MaxParts, width \in Widths, ignore \in BOOLEAN :
              /\ query.kind = "one" => width = 1
              /\ Takes("app", parts, width, ignore)
      BY <1>3, <2>1 DEF AppAnswers
    <3>2. width \in Nat
      BY QueryAssumption DEF Widths, QueryAssumption
    <3> QED BY <1>2, <1>3, <2>1, <3>1, <3>2 DEF AppAnswers, First
  <2>2. CASE ~First
    BY <1>3, <2>2 DEF AppAnswers, Quiet
  <2> QED BY <2>1, <2>2
<1>4. CASE TimerAnswers
  BY <1>2, <1>4 DEF TimerAnswers, First, Quiet
<1>5. CASE Destroyed \/ UNCHANGED vars
  BY <1>5 DEF Destroyed, vars, Quiet
<1> QED BY <1>1, <1>3, <1>4, <1>5 DEF Next

LEMMA InitCounts == Init => Counts /\ Ending
<1> SUFFICES ASSUME Init PROVE Counts /\ Ending
  OBVIOUS
<1>1. /\ \A c \in Chains : chain[c].at = "idle"
      /\ sent = <<>> /\ next = 1 /\ begun = 0 /\ stop = "no" /\ answer.width = 0 /\ ~taken
  BY DEF Init
<1>2. Held = {} /\ Late = {}
  BY <1>1 DEF Held, Late
<1>3. Cardinality(Held) = 0
  BY <1>2, FS_EmptySet
<1>4. Counts
  BY <1>1, <1>3 DEF Counts, InOrder
<1>5. Ending
  BY <1>1, <1>2 DEF Ending
<1> QED BY <1>4, <1>5

\* There is a chain for each unit of the width at most.
LEMMA WidthBounds ==
    ASSUME IInv, Counts, NEW S \in SUBSET Chains, \A c \in S : chain[c].at # "idle"
    PROVE  /\ IsFiniteSet(S) /\ Cardinality(S) \in Nat /\ Cardinality(S) <= answer.width
           /\ \A d \in Chains \ S : chain[d].at # "idle" => Cardinality(S) < answer.width
<1>1. answer.width \in Nat /\ begun \in Nat /\ begun <= answer.width
  BY DEF IInv, TypeOK, Counts, Answer
<1>2. IsFiniteSet(1..answer.width) /\ Cardinality(1..answer.width) = answer.width
  <2>1. /\ IsFiniteSet(1..answer.width)
        /\ Cardinality(1..answer.width) = IF 1 > answer.width THEN 0 ELSE answer.width - 1 + 1
    <3>1. 1 \in Int /\ answer.width \in Int
      BY <1>1
    <3> QED BY <3>1, FS_Interval
  <2> QED BY <1>1, <2>1
<1>3. \A c \in Chains : c \in Nat \ {0}
  BY QueryAssumption DEF QueryAssumption
<1>4. \A c \in Chains : chain[c].at # "idle" => c \in 1..answer.width
  BY <1>1, <1>3 DEF Counts
<1>5. S \in SUBSET (1..answer.width)
  BY <1>4
<1>6. IsFiniteSet(S) /\ Cardinality(S) <= answer.width
  BY <1>2, <1>5, FS_Subset
<1>7. Cardinality(S) \in Nat
  BY <1>6, FS_CardinalityType
<1>8. ASSUME NEW d \in Chains \ S, chain[d].at # "idle"
      PROVE  Cardinality(S) < answer.width
  <2>1. S \cup {d} \in SUBSET (1..answer.width)
    BY <1>4, <1>5, <1>8
  <2>2. Cardinality(S \cup {d}) <= answer.width
    BY <1>2, <2>1, FS_Subset
  <2>3. Cardinality(S \cup {d}) = Cardinality(S) + 1
    BY <1>6, <1>8, FS_AddElement
  <2> QED BY <1>1, <1>7, <2>2, <2>3
<1> QED BY <1>6, <1>7, <1>8

LEMMA CountsKept == ASSUME IInv, Counts, [Next]_vars PROVE Counts'
<1>1. CASE Quiet
  BY <1>1 DEF Quiet, Counts, Held, InOrder
<1>2. CASE Fresh
  <2>1. Held' = {}
    BY <1>2 DEF Fresh, Held
  <2>2. Cardinality(Held') = 0 /\ Len(sent') = 0 /\ DOMAIN sent' = {}
    BY <1>2, <2>1, FS_EmptySet DEF Fresh
  <2> QED BY <1>2, <2>2 DEF Fresh, Counts, InOrder
<1>3. ASSUME NEW c \in Chains, Step(c) PROVE Counts'
  <2>1. Moves(c) /\ UNCHANGED <<query, answer, taken, alive>>
    BY <1>3, StepMoves
  <2>2. /\ IsFiniteSet(Held) /\ Cardinality(Held) \in Nat /\ Cardinality(Held) <= answer.width
    <3>1. Held \in SUBSET Chains /\ \A d \in Held : chain[d].at # "idle"
      BY DEF Held
    <3> QED BY <3>1, WidthBounds
  <2>3. /\ begun \in Nat /\ c \in Nat /\ answer.width \in Nat /\ next \in Nat
        /\ sent \in Seq(Message) /\ Len(sent) \in Nat /\ DOMAIN sent = 1..Len(sent)
    BY QueryAssumption DEF IInv, TypeOK, Answer, QueryAssumption
  <2>4. CASE /\ Move(c, chain[c].at, "check") /\ begun' = c /\ c = begun + 1 /\ c <= answer.width
             /\ UNCHANGED <<next, sent, stop>>
    <3>1. chain[c].at = "idle"
      BY <2>3, <2>4 DEF Counts
    <3>2. Held' = Held
      BY <2>4, <3>1 DEF Held, Move
    <3>3. \A d \in Chains : chain'[d].at # "idle" => d <= begun'
      <4> SUFFICES ASSUME NEW d \in Chains, chain'[d].at # "idle" PROVE d <= begun'
        OBVIOUS
      <4>1. d = c \/ d <= begun
        BY <2>4 DEF Move, Counts
      <4>2. d \in Nat
        BY QueryAssumption DEF QueryAssumption
      <4> QED BY <2>3, <2>4, <4>1, <4>2
    <3> QED BY <2>1, <2>4, <3>2, <3>3 DEF Counts, InOrder
  <2>5. CASE /\ chain[c].at \in {"check", "wait"} /\ chain'[c].at \in {"check", "take", "over"}
             /\ Move(c, chain[c].at, chain'[c].at)
             /\ UNCHANGED <<next, begun, sent>>
    <3>1. Held' = Held
      BY <2>5 DEF Held, Move
    <3>2. \A d \in Chains : chain'[d].at # "idle" => chain[d].at # "idle"
      BY <2>5 DEF Move
    <3> QED BY <2>1, <2>5, <3>1, <3>2 DEF Counts, InOrder
  <2>6. CASE Move(c, "take", "send") /\ next' = next + 1 /\ UNCHANGED <<begun, sent, stop>>
    <3>1. Held' = Held \cup {c} /\ c \notin Held
      BY <2>6 DEF Held, Move
    <3>2. Cardinality(Held') = Cardinality(Held) + 1
      BY <2>2, <3>1, FS_AddElement
    <3>3. \A d \in Chains : chain'[d].at # "idle" => chain[d].at # "idle"
      BY <2>6 DEF Move
    <3>4. alive' => next' = Len(sent') + Cardinality(Held') + 1
      BY <2>1, <2>2, <2>3, <2>6, <3>2 DEF Counts
    <3> QED BY <2>1, <2>6, <3>3, <3>4 DEF Counts, InOrder
  <2>7. CASE /\ Move(c, "send", "wait") /\ alive /\ sent' = Append(sent, Msg(c))
             /\ UNCHANGED <<next, begun, stop>>
    <3>1. Held' = Held \ {c} /\ c \in Held
      BY <2>7 DEF Held, Move
    <3>2. Cardinality(Held') = Cardinality(Held) - 1
      BY <2>2, <3>1, FS_RemoveElement
    <3>3. \A d \in Chains : chain'[d].at # "idle" => chain[d].at # "idle"
      BY <2>7 DEF Move
    <3>4. /\ Len(sent') = Len(sent) + 1 /\ DOMAIN sent' = 1..(Len(sent) + 1)
          /\ \A i \in 1..Len(sent) : sent'[i] = sent[i]
          /\ sent'[Len(sent) + 1].part = chain[c].part
      BY <2>3, <2>7 DEF Msg
    <3>5. next' = Len(sent') + Cardinality(Held') + 1
      BY <2>2, <2>3, <2>7, <3>2, <3>4 DEF Counts
    <3>6. chain[c].part \in 1..(next - 1)
      BY <2>7 DEF IInv, Parts, Holds, Move
    <3>7. chain[c].part < Len(sent) + 1 + answer.width
      <4>1. next = Len(sent) + Cardinality(Held) + 1
        BY <2>7 DEF Counts
      <4> QED BY <2>2, <2>3, <3>6, <4>1
    <3>8. InOrder'
      <4> SUFFICES ASSUME NEW i \in 1..(Len(sent) + 1) PROVE sent'[i].part < i + answer.width
        BY <2>1, <3>4 DEF InOrder
      <4>1. CASE i = Len(sent) + 1
        BY <3>4, <3>7, <4>1
      <4>2. CASE i # Len(sent) + 1
        <5>1. i \in 1..Len(sent)
          BY <2>3, <4>2
        <5> QED BY <2>3, <3>4, <5>1 DEF Counts, InOrder
      <4> QED BY <4>1, <4>2
    <3> QED BY <2>1, <2>7, <3>3, <3>5, <3>8 DEF Counts
  <2>8. CASE Move(c, "send", "over") /\ ~alive /\ UNCHANGED <<next, begun, sent>>
    <3>1. \A d \in Chains : chain'[d].at # "idle" => chain[d].at # "idle"
      BY <2>8 DEF Move
    <3> QED BY <2>1, <2>8, <3>1 DEF Counts, InOrder
  <2>9. CASE Move(c, "take", "over") /\ UNCHANGED <<next, begun, sent>>
    <3>1. Held' = Held
      BY <2>9 DEF Held, Move
    <3>2. \A d \in Chains : chain'[d].at # "idle" => chain[d].at # "idle"
      BY <2>9 DEF Move
    <3> QED BY <2>1, <2>9, <3>1, <3>2 DEF Counts, InOrder
  <2>10. AfterCheck \in {"take", "over"}
    BY DEF AfterCheck
  <2>11. CASE Move(c, "check", AfterCheck) /\ UNCHANGED <<next, begun, sent, stop>>
    BY <2>5, <2>10, <2>11 DEF Move
  <2>12. CASE Move(c, "wait", "check") /\ UNCHANGED <<next, begun, sent, stop>>
    BY <2>5, <2>12 DEF Move
  <2>13. CASE Move(c, "wait", "over") /\ UNCHANGED <<next, begun, sent>>
    BY <2>5, <2>13 DEF Move
  <2>14. Move(c, "send", "over") => chain[c].at = "send"
    BY DEF Move
  <2> QED BY <2>1, <2>4, <2>6, <2>7, <2>8, <2>9, <2>11, <2>12, <2>13, <2>14 DEF Moves
<1> QED BY <1>1, <1>2, <1>3, OtherSteps

LEMMA EndingKept == ASSUME IInv, Counts, Ending, [Next]_vars PROVE Ending'
<1>1. CASE Quiet
  BY <1>1 DEF Quiet, Ending, Late, Active
<1>2. CASE Fresh
  <2>1. Late' = {}
    BY <1>2 DEF Fresh, Late
  <2>2. 1 <= answer'.width /\ (query'.kind = "one" => answer'.width <= 1)
    BY <1>2 DEF Fresh
  <2> QED BY <1>2, <2>1, <2>2 DEF Fresh, Ending
<1>3. ASSUME NEW c \in Chains, Step(c) PROVE Ending'
  <2>1. taken /\ Moves(c) /\ UNCHANGED <<query, answer, taken, alive>>
    BY <1>3, StepMoves
  <2>2. IsFiniteSet(Active) /\ Cardinality(Active) \in Nat
    <3>1. Active \in SUBSET Chains /\ \A d \in Active : chain[d].at # "idle"
      BY DEF Active
    <3> QED BY <3>1, WidthBounds
  <2>3. /\ answer.width \in Nat /\ sent \in Seq(Message) /\ Len(sent) \in Nat
        /\ DOMAIN sent = 1..Len(sent) /\ query.kind \in {"one", "multi"}
    BY DEF IInv, TypeOK, Answer, Query
  <2>4. IsFiniteSet(Late) /\ Cardinality(Late) \in Nat
    <3>1. IsFiniteSet(1..Len(sent))
      BY <2>3, FS_Interval
    <3>2. Late \in SUBSET (1..Len(sent))
      BY <2>3 DEF Late
    <3> QED BY <3>1, <3>2, FS_Subset, FS_CardinalityType
  \* a step that adds no message and leaves the active chains alone
  <2>5. ASSUME UNCHANGED <<sent, stop>>, Active' = Active, \A d \in Chains : chain[d].at = "over" => chain'[d].at = "over"
        PROVE  Ending'
    <3>1. Late' = Late
      BY <2>5 DEF Late
    <3> QED BY <2>1, <2>5, <3>1 DEF Ending
  <2>6. CASE /\ Move(c, chain[c].at, "check") /\ begun' = c /\ c = begun + 1 /\ c <= answer.width
             /\ UNCHANGED <<next, sent, stop>>
    <3>1. chain[c].at = "idle"
      <4>1. begun \in Nat
        BY DEF IInv, TypeOK
      <4> QED BY <2>6, <4>1 DEF Counts
    <3>2. Active' = Active
      BY <2>6, <3>1 DEF Active, Move
    <3> QED BY <2>5, <2>6, <3>1, <3>2 DEF Move
  \* one response: its only chain is not over
  <2>7. CASE Move(c, "check", AfterCheck) /\ UNCHANGED <<next, begun, sent, stop>>
    <3>1. CASE stop = "no"
      <4>1. Late' = Late /\ stop' = "no"
        BY <2>7, <3>1 DEF Late
      <4> QED BY <2>1, <3>1, <4>1 DEF Ending
    <3>2. CASE stop # "no" /\ query.kind = "multi"
      <4>1. AfterCheck = "over"
        BY <3>2 DEF AfterCheck
      <4>2. Active' = Active
        BY <2>7, <4>1 DEF Active, Move
      <4> QED BY <2>5, <2>7, <4>1, <4>2 DEF Move
    <3>3. CASE stop # "no" /\ query.kind = "one"
      <4>1. PICK d \in Chains : chain[d].at = "over"
        BY <3>3 DEF Ending
      <4>2. c # d /\ chain[c].at # "idle" /\ chain[d].at # "idle"
        BY <2>7, <4>1 DEF Move
      <4>3. {d} \in SUBSET Chains /\ \A x \in {d} : chain[x].at # "idle"
        BY <4>2
      <4>4. Cardinality({d}) < answer.width
        BY <4>2, <4>3, WidthBounds
      <4>5. Cardinality({d}) = 1
        BY FS_Singleton
      <4> QED BY <2>3, <3>3, <4>4, <4>5 DEF Ending
    <3> QED BY <2>3, <3>1, <3>2, <3>3
  <2>8. CASE Move(c, "take", "send") /\ next' = next + 1 /\ UNCHANGED <<begun, sent, stop>>
    <3>1. Active' = Active
      BY <2>8 DEF Active, Move
    <3> QED BY <2>5, <2>8, <3>1 DEF Move
  <2>9. CASE Move(c, "wait", "check") /\ query.kind = "multi" /\ UNCHANGED <<next, begun, sent, stop>>
    <3>1. Active' = Active
      BY <2>9 DEF Active, Move
    <3> QED BY <2>5, <2>9, <3>1 DEF Move
  <2>10. CASE /\ Move(c, "send", "wait") /\ alive /\ sent' = Append(sent, Msg(c))
              /\ UNCHANGED <<next, begun, stop>>
    <3>1. /\ DOMAIN sent' = 1..(Len(sent) + 1)
          /\ \A i \in 1..Len(sent) : sent'[i] = sent[i]
          /\ sent'[Len(sent) + 1].late <=> stop # "no"
      <4>1. /\ DOMAIN sent' = 1..(Len(sent) + 1)
            /\ \A i \in 1..Len(sent) : sent'[i] = sent[i]
            /\ sent'[Len(sent) + 1] = Msg(c)
        BY <2>3, <2>10
      <4>2. Msg(c).late <=> stop # "no"
        BY DEF Msg
      <4> QED BY <4>1, <4>2
    <3>2. CASE stop = "no"
      <4>1. Late = {}
        BY <3>2 DEF Ending
      <4>2. \A i \in 1..(Len(sent) + 1) : i \in 1..Len(sent) \/ i = Len(sent) + 1
        BY <2>3
      <4>3. Late' = {}
        BY <2>3, <3>1, <3>2, <4>1, <4>2 DEF Late
      <4> QED BY <2>1, <2>10, <3>2, <4>3 DEF Ending
    <3>3. CASE stop # "no"
      <4>1. Late' = Late \cup {Len(sent) + 1} /\ Len(sent) + 1 \notin Late
        <5>1. \A i \in 1..(Len(sent) + 1) : i \in 1..Len(sent) \/ i = Len(sent) + 1
          BY <2>3
        <5>2. Len(sent) + 1 \notin 1..Len(sent) /\ 1..Len(sent) \subseteq 1..(Len(sent) + 1)
          BY <2>3
        <5>3. Len(sent) + 1 \in 1..(Len(sent) + 1)
          BY <2>3
        <5> QED BY <2>3, <3>1, <3>3, <5>1, <5>2, <5>3 DEF Late
      <4>2. Active' = Active \ {c} /\ c \in Active
        BY <2>10 DEF Active, Move
      <4>3. Cardinality(Late') = Cardinality(Late) + 1
        BY <2>4, <4>1, FS_AddElement
      <4>4. Cardinality(Active') = Cardinality(Active) - 1
        BY <2>2, <4>2, FS_RemoveElement
      <4>5. Cardinality(Late') + Cardinality(Active') < answer'.width
        BY <2>1, <2>2, <2>4, <3>3, <4>3, <4>4 DEF Ending
      <4>6. \E d \in Chains : chain'[d].at = "over"
        BY <2>10, <3>3 DEF Ending, Move
      <4> QED BY <2>1, <2>10, <3>3, <4>5, <4>6 DEF Ending
    <3> QED BY <3>2, <3>3
  <2>11. CASE /\ \E from \in {"take", "send", "wait"} : Move(c, from, "over")
              /\ stop' # "no"
              /\ UNCHANGED <<next, begun, sent>>
    <3>1. /\ chain[c].at \in {"take", "send", "wait"} /\ chain'[c].at = "over"
          /\ \A d \in Chains : d # c => chain'[d] = chain[d]
      BY <2>11 DEF Move
    <3>2. Active' = Active \ {c}
      BY <3>1 DEF Active
    <3>3. Late' = Late
      BY <2>11 DEF Late
    <3>4. Cardinality(Active') \in Nat /\ Cardinality(Active') <= Cardinality(Active)
      <4>1. Active' \in SUBSET Active
        BY <3>2
      <4> QED BY <2>2, <4>1, FS_Subset, FS_CardinalityType
    <3>5. CASE stop = "no"
      <4>1. Active' \in SUBSET Chains /\ (\A d \in Active' : chain[d].at # "idle") /\ c \in Chains \ Active'
        BY <3>2 DEF Active
      <4>2. Cardinality(Active') < answer.width
        <5>1. chain[c].at # "idle"
          BY <3>1
        <5> QED BY <4>1, <5>1, WidthBounds
      <4>3. Cardinality(Late') = 0
        BY <3>3, <3>5, FS_EmptySet DEF Ending
      <4>4. Cardinality(Late') + Cardinality(Active') < answer'.width
        BY <2>1, <3>4, <4>2, <4>3
      <4> QED BY <2>1, <2>11, <3>1, <4>4 DEF Ending
    <3>6. CASE stop # "no"
      <4>1. Cardinality(Late') + Cardinality(Active') < answer'.width
        <5>1. Cardinality(Late) + Cardinality(Active) < answer.width
          BY <3>6 DEF Ending
        <5> QED BY <2>1, <2>2, <2>3, <2>4, <3>3, <3>4, <5>1
      <4> QED BY <2>1, <2>11, <3>1, <4>1 DEF Ending
    <3> QED BY <3>5, <3>6
  <2> QED BY <2>1, <2>6, <2>7, <2>8, <2>9, <2>10, <2>11 DEF Moves
<1> QED BY <1>1, <1>2, <1>3, OtherSteps

\* The chains hold what has left the queue, so that no message is sent more
\* than concurrency - 1 places early.
THEOREM InOrderCorrect == Spec => []InOrder
<1>1. IInv /\ Counts /\ [Next]_vars => Counts'
  BY CountsKept
<1>2. Spec => []Counts
  BY <1>1, InitCounts, Invariance, PTL DEF Spec
<1>3. Counts => InOrder
  BY DEF Counts
<1> QED BY <1>2, <1>3, PTL

\* Once a message has failed, each chain but the one that has seen it sends one
\* more message at most.
THEOREM StopsSoonCorrect == Spec => []StopsSoon
<1>1. IInv /\ Counts /\ Ending /\ [Next]_vars => Counts' /\ Ending'
  BY CountsKept, EndingKept
<1>2. Spec => [](IInv /\ Counts /\ Ending)
  BY <1>1, InitCounts, Invariance, PTL DEF Spec
<1>3. IInv /\ Counts /\ Ending => StopsSoon
  <2> SUFFICES ASSUME IInv, Counts, Ending, taken PROVE Cardinality(Late) < answer.width
    BY DEF StopsSoon, Late
  <2>1. answer.width \in Nat
    BY DEF IInv, TypeOK, Answer
  <2>2. CASE stop = "no"
    <3>1. Cardinality(Late) = 0
      BY <2>2, FS_EmptySet DEF Ending
    <3> QED BY <2>1, <3>1 DEF Ending
  <2>3. CASE stop # "no"
    <3>1. Active \in SUBSET Chains /\ \A d \in Active : chain[d].at # "idle"
      BY DEF Active
    <3>2. Cardinality(Active) \in Nat
      BY <3>1, WidthBounds
    <3>3. Cardinality(Late) \in Nat
      <4>1. sent \in Seq(Message)
        BY DEF IInv, TypeOK
      <4>2. Len(sent) \in Int /\ DOMAIN sent = 1..Len(sent) /\ 1 \in Int
        BY <4>1
      <4>3. IsFiniteSet(1..Len(sent)) /\ Late \in SUBSET (1..Len(sent))
        BY <4>2, FS_Interval DEF Late
      <4> QED BY <4>3, FS_Subset, FS_CardinalityType
    <3> QED BY <2>1, <2>3, <3>2, <3>3 DEF Ending
  <2> QED BY <2>2, <2>3
<1> QED BY <1>2, <1>3, PTL
=============================================================================

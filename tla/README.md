# TLA+ models of libgb28181

libgb28181 is a C++ library that speaks GB/T 28181, the SIP dialect of Chinese
video surveillance: a *super platform* queries and controls *subordinate
platforms* (or devices), which register with it, send keepalives, answer its
queries, and deliver media after an INVITE.  One library plays both roles.
This directory holds TLA+ models of its protocol logic, the TLC runs that check
them on small instances, and theorems about them that TLAPS proves.

Paths below are relative to the repository root.  `PROJECT.json` lists the
components, the runs, the lines each definition models (`map`), a mutation of
the code for each property (`mutants`), the places that are hard to test
(`hazards`), the disagreements found (`findings`) and the theorems.

Contents: 1 inventory, 2 the modules, 3 how the modules follow the code, 4 runs and
bounds, 5 fairness, 6 what is proved, 7 findings, 8 what is not modelled.

## 1. Inventory

The library sits on ZLToolKit (pollers, timers, sockets) and on libsip (SIP
transactions and dialogs).  Neither is part of the repository; they are
modelled from how the code uses them: a timer fires once per period on a poller
thread until its `shared_ptr` is reset; a delayed task runs once unless it is
cancelled (dropping its pointer does not cancel it); a client transaction
reports any number of 1xx replies and then one final reply, or 408.

| component | source | state | operations |
|---|---|---|---|
| request proxies | `src/request/Request*Impl.cpp` | status, `result_flag_`, timers, received items; `request_map_` of the platform | construct (choose SN), send, reply, response, timers, queued completion |
| INVITE sessions | `src/request/invite_request_impl.cpp` | status, dialog, client transaction, the map of sessions, timers | send/receive INVITE, ACK, BYE, CANCEL, INFO |
| super platform (the client of a registration) | `src/super_platform_impl.cpp` | status, `running_`, keepalive and refresh timers, failure counter | register, deregister, authenticate, keepalive, shutdown |
| subscriptions | `src/request/subscribe_request_impl.cpp` | status, dialog, expiry, delay tasks | SUBSCRIBE both ways, NOTIFY, refresh, retry |
| subordinate platform (the server of a registration) | `src/subordinate_platform_impl.cpp` | status, keepalive and register times, keepalive timer | REGISTER, logout, keepalive, Notify, shutdown |
| SIP server | `src/inner/sip_server.cpp` | maps of platforms, ssrc counter, run flag | add/remove/find platforms, new accounts, dispatch |
| query answers | `src/super_platform_impl.cpp` 470-666, `sip_event.h` | queue of answers, one-shot flag, 5 s timer | the application's reply callback, timeout, the chain of answers |
| platform helper | `src/platform_helper.cpp` | sessions, `request_map_`, SN counter, status callbacks | get_session, uac_send, on_response, on_recv_message |
| SIP session | `src/inner/sip_session.cpp` | receive buffer, keepalive ticker | framing of TCP streams, connect, send |
| SIP timers | `src/inner/timer_impl.cpp` | one-shot flag per timer | start, fire, stop |
| messages and types | `src/message/*.cpp`, `src/type_define_ext.cpp` | the members of a message | to and from XML: load, parse, per member readers and writers |
| PTZ command | `PTZCommand` of `type_define.h` | eight bytes | builder calls, hexadecimal text, readers |
| SDP, SIP helpers | `src/request/sdp.cpp`, `src/inner/sip_common.cpp` | none but the nonce counter | SDP and header conversion, digest authorization |

Interactions: `SipServer` dispatches each SIP request to the platform or to the
session object found by call id or by a raw pointer that a map validates; a
platform sends through `PlatformHelper`, which calls back with a session or a
reply; responses of the peer come as MESSAGEs and are routed by SN through
`request_map_`; every handler may start timers and queue tasks, and these hold
either a `shared_ptr` (keeping the object alive) or a `weak_ptr`.  Status
changes of a platform are broadcast to subscriptions and to the application on
another thread.

What is hard in each component, and what makes it correct:

* **Request proxies.**  Reply, responses, two timers (the derived class hides
  the base's `timer_`) and queued completions race for the end of a request;
  platforms share one map between their own SNs and the peer's.  Correct: the
  callback is called at most once and at last exactly once, `Succeeded` is only
  reported when all items have come, the map only routes open requests, and the
  outcome does not change after it has been told.
* **INVITE sessions.**  Messages cross (CANCEL and 200, BYE and ACK); the
  answer of the application is a task; a session is found only through a map
  that other handlers fill and empty.  Correct: the two ends agree on whether
  the session lives, an end that believes in it can end the other, nothing
  comes back after its end, nothing stays in the map.
* **Super platform.**  The registration lives on as a chain of transactions,
  delayed tasks and resolver callbacks, and several chains may run at once.
  Correct: while it is started, some chain always goes on; what it believes is
  what the superior knows; it logs out; a released object is silent.
* **Subscriptions.**  Refresh tasks are never cancelled, a reply may find
  another object at the old address, status broadcasts come late and out of
  order.  Correct: a running subscription of an online platform always has a
  next SUBSCRIBE, a stopped one learns nothing, a released one sends nothing.
* **Subordinate platform and server.**  No lock protects a platform object
  while sessions, timers and the application call it from several pollers; the
  application's decision on a new account is a check and a later insert.
  Correct: an online platform has a keepalive timer, a peer that is gone goes
  offline, peer and server agree at last.
* **Query answers.**  A timer races the application's answer; a window of
  answers is sent concurrently and one failure has to stop the rest.  Correct:
  each query has one answer or one error, no answer is skipped or sent twice.
* **Platform helper.**  A session error resets the session of the
  platform that owns it *now*.  Correct: no platform keeps a dead session.
* **SIP sessions.**  TCP cuts and joins the stream anywhere; the session has to
  find the start of each message, and to keep what follows it.  Correct: every
  message of the peer reaches libsip, whole and in order.  (It does so only when
  no start line is cut, section 7.)
* **Timers.**  Firing races stopping.  Correct: one of the two, once.
* **Messages.**  A member is written in one function and read in another, under
  names and in places that only agree by care; sender, dispatcher, reader and
  the one who answers each have a table of their own of which command is what.
  Correct: what is set arrives, every message has a handler, a request that
  succeeded was understood, nobody waits for an answer that nobody gives.
* **PTZ commands.**  Every call shares bytes with another.  Correct: whatever the
  calls, the device accepts the frame and reads the address and the arguments.

## 2. The modules

| # | modules | models |
|---|---|---|
| 1 | `RequestProxy`, `RequestPromise` (its abstract specification), `RequestProxyProofs` | a platform's requests and the map that routes their responses |
| 2 | `InviteSession`, `InviteSessionProofs` | both ends of an INVITE and the network, composed |
| 3 | `SuperPlatform`, `SuperPlatformProofs` | the client of a registration |
| 4 | `Subscription`, `SubscriptionProofs` | the outgoing side of a subscription |
| 5 | `PlatformServer`, `SipServerProofs` | the server of a registration, for one platform id |
| 6 | `QueryAnswer`, `QueryAnswerProofs` | how a platform answers a query: callback, timer, chains of messages |
| 7 | `XmlFields`, `ConfigTypes`, `Messages`, `Exchange`, `ExchangeProofs` | what the messages carry, and one exchange of them from application to application |
| 8 | `PtzCommand`, `PtzCommandProofs` | the bytes of a PTZ control |
| 9 | `SipSession`, `SipServerProofs` | a TCP connection: how messages are put together, and its end |

The order is that of what rests on what: a request and its outcome, the two
protocols with a session, the registration from both sides, then how a query is
answered, what the messages say, and how they come off a connection.  `Messages` EXTENDS `ConfigTypes` EXTENDS
`XmlFields`; `Exchange` EXTENDS `Messages`.  `RequestProxy` implements
`RequestPromise` by INSTANCE.  The others are connected by their environments:
a request of `QueryAnswer` or `Exchange` ends in one of the outcomes
`RequestProxy` allows, the superior of `SuperPlatform` and the peer of
`PlatformServer` are each an abstraction of the other module (a superior that
accepts, refuses, forgets or is silent; a peer that logs out, logs in, sends
keepalives and starts over).  No module declares a RECURSIVE operator, and every
assumption on a constant has a name.

## 3. How the modules follow the code

General rules.  One action is one handler as its thread runs it, with
everything it calls that changes state; where the code runs two handlers of one
object on different threads, or releases control (an `async`, a callback, a
session that has to connect), the handler is cut there: between what it reads
(a lookup, a status) and what it does with it, unless no other thread can tell
the difference; the module then says so.  Names of the code are
kept (`result_flag_` is `flag`, `request_map_` is `requestMap`, ...); the `map`
gives the lines.  `Faults` is in every module the set of what peer, network and
application may do besides the plain exchange, so that a run can say under
which of them a property holds.  Operators marked `mutant` are not part of the
model: each is a plausible bug, to show that a property notices it.
Observers (`told`, `calls`, `raced`, `excuse`, `refused`, `unsent`, `loggingOut`)
are only read by properties.

* `RequestProxy`: `px[p]` is a RequestProxyImpl, RequestListImpl or
  RequestConfigDownloadImpl.  `NewRequest`/`NewAnswer` are the constructors
  with get_new_sn() (it wraps at `MaxSN`), `Send`, `Session` and `FinalReply`
  follow uac_send() and on_reply(), the responses follow on_response() of the
  helper and of the three classes, `RunTask` is a queued on_completed(),
  `TimerFires` and `DerivedTimer` the two timers.  The model keeps the order in
  which on_completed() tests the flag, erases the entry and calls the callback.
* `RequestPromise`: a request is idle, open, settled with an outcome that stays.
  `KeepsPromise` is its specification under the mapping of `Phase` and `told`,
  `Safety` the part of it without fairness.
* `InviteSession`: `end["caller"]` and `end["callee"]` are two
  InviteRequestImpl objects, `net` counts the messages between them, which are
  not ordered; `answer` is the queued handle_reply(), `ackTimer` the 5 s task of
  the callee.  An end that is not in the map or has no dialog does not get its
  messages, as in onbye() and oncancel().  No lock lasts from the lookup of a
  session to its set_status(), and to_bye() is a public call, so `at[e][t]` says
  what thread `t` is about to do to end `e`: the application (or a destructor),
  the reply handler, the task, the timer, the ACK, the other requests of the
  peer.  on_invite_reply(), on_recv_ack(), on_recv_bye(), on_recv_cancel(),
  handle_reply() and to_bye() each take one step up to their set_status(), and
  `SetStatus` is another; on_invite_reply() with a 2xx is cut before the ACK as
  well, handle_reply() between the entry in the map and the 200.  set_status()
  itself assigns, then reads the status again before it removes the entry:
  `kept` is what a live status assigned in between does to that.  Two places are
  not cut, because no other thread can tell: to_bye() looks at the status and
  sends in one step (what could come in between only changes the status, which
  to_bye() does not read again), and on_invite_reply() finds the session and
  resets the transaction in one step (a to_bye() in between is one that came
  before the reply).  A BYE or CANCEL that cannot be sent (`SendsEnd`: no
  session, or libsip refuses) changes the status all the same, as the empty
  error callbacks do (lines 371 and 378).
* `SuperPlatform`: `tx`, `delayed`, `refresh`, `relogin`, `resolving` are the
  links of the chains; each reply handler of the code is an action.
* `Subscription`: `sent`, `accepted`, `tasks`, `events` are the SUBSCRIBEs, the
  replies, the delayed tasks and the broadcasts that are under way.  start() is
  cut between reading the platform's status and registering the callback,
  because a broadcast runs on another thread.
* `PlatformServer`: `plat` are the SubordinatePlatformImpl objects of one id,
  `registry` is the entry of `sub_platforms_`, `calls[t]` is the handler poller
  t is in.  set_status() is cut between the assignment of the status and that
  of the timer, and the application's decision between looking the platform up
  and inserting it; keepalives, the check of the timer and logins interleave
  with both.  A keepalive is a single write and stays one step.

* `QueryAnswer`: `Process`, `AppAnswers` and `TimerAnswers` are process(), the
  application's call of the callback and the query timer; they race for
  `ctx->flag`.  `chain[c]` is one of the `concurrency` calls of
  do_send_response(): reading the flag, taking the mutex, sending and completing
  are four steps, because the flag is read outside the mutex and the completion
  comes on the poller of the session.  `sent` records the messages in order.
* `XmlFields`: the class of a member decides how new_xml_element() and
  from_xml_element() treat its value; `ToXml`, `Load`, `FromXml` are
  parse_detail() and load_from_xml() over the tables of a type.  A value is
  "none", "set" or one of the few others that the two sides tell apart ("cleared":
  what a constructor had filled has been emptied, and is not written).
  `ConfigTypes` and `Messages` hold the tables: for each struct and each message
  its members, what the writer writes always or when set and what it insists on,
  what the reader reads, insists on and dereferences.  Where tag or place differ
  between writer and reader the tables differ.
* `Exchange`: `Send`, `Receive`, `Reply`, `AppAnswers` / `TimerAnswers` /
  `AlarmAnswers`, `TakeAnswer`, `GiveUp` follow one message: newRequestProxy_()
  (`Waits`), on_recv_message(), on_query(), on_control() and on_notify()
  (`Handler`), the reader, create_response() (`Own`), on_response() (`TakenAs`).
  Its constant `Filled` says which values an application may give the members of
  a format: any of their types, by its assumption; the run takes `Samples`.
* `PtzCommand`: one action per builder call of the class; `frame[i + 1]` is
  `bytes[i]`.  `Send` is ToHex() and, at the device, FromHex() with its checks.
* `SipSession`: `recv` is `_recv_buffers`, `kept` is `_message_buffer`, `parsed`
  what the http parser of libsip has taken in, `tasks` what is queued on the
  poller of the session.  `Search` and `Parse` are one round of the loop of
  handle_recv() each; nothing else runs on that poller until the loop ends
  (`handling`).  `Found` follows get_sip_message_type() with its positions and
  lengths, over texts of five characters.  A buffer that is copied past its end
  (line 417) brings bytes of foreign memory: the model takes these for bytes
  that are no start line, and the parser may then do anything.  `Write` stands
  for sip_send() and sip_send_reply(), of which it keeps that they reset the
  clock.

## 4. Runs and bounds

All runs go to the end of the state space.  Deadlock is not checked anywhere:
every model may stop for good (a request is settled, a session has ended, a
platform is shut down), and liveness properties say where it may not.

| run | question | bounds |
|---|---|---|
| `proxy_faults` | is a request answered once, completely, and at last, whatever the order? | one own request of any kind, one answer that may have its SN, MaxSN 2 (the wrap of the counter), 2 responses, 2 items, all faults |
| `proxy_in_order` | in sequence, is the outcome final, and is `RequestPromise` implemented? | two requests, own SNs, no early response, no 1xx, no throwing callback |
| `invite_session` | do both ends agree on establishment and end, and does a call settle? | one session, all faults but a callee that hangs up before its answer has run (404 thousand states) |
| `invite_leak` | finding 1 | only an early hang-up |
| `query_answer` | is a query answered once, in order, in full, and does a failure end it? | one query of either kind, up to 4 messages, 3 chains, 2 calls of the application |
| `query_sn` | finding 2 | one response, 2 SNs |
| `exchange` | do the two ends mean the same by a message? | every message and struct; all, the needed or no members set, and one of them changed |
| `ptz_command` | does a device read what was built? | 4 builder calls of any kind, arguments at the edges of 4, 8, 12 and 16 bits |
| `sip_session` | does every message come through, however the stream is cut? | 3 messages, one blank line, 2 buffers that wait |
| `super_platform` | does a platform always get (back) online, and does it log out and fall silent when it should? | 2 chains, 1 keepalive, 2 starts, AuthLimit 1, all faults |
| `platform_server` | does the server notice silence, and do peer and server agree? | 2 pollers, 2 objects, 1 undecided account, 1 event of the application, all faults |
| `subscription` | does a subscription live on while it should and only then? | 2 dialogs, 2 chains, 2 starts, all faults |

Why these are enough.  In `RequestProxy` proxies only meet in the map, and two
of them are enough for an entry to be displaced; with two items a list can be
incomplete, complete, and over-complete.  `InviteSession` has no bound: one
session has finitely many messages, and each end one thread of each kind at a
time, as libsip and the pollers run them (of the application it is assumed).
Its observers forget what concerns an end when it is over: the properties only
ask for excuses of ends that live.  In `SuperPlatform` and `Subscription` a
hazard needs an old link beside a new one, so two chains; the second start
shows what a first life leaves behind; AuthLimit is 5 in the code, and 1 takes
the counter to its limit and over it as well.  The invariants of `Subscription`
also hold with three dialogs.  In `PlatformServer` set_status() races need two
pollers, displaced objects need two objects, and the invariants also hold with
two undecided accounts (4.5 million states).  `MaxEvents` only bounds calls of
the application, camouflage and late keepalives: logins, logouts and silent
peers are not bounded, so liveness is checked over infinite behaviours that
keep changing.  In `QueryAnswer` three chains and four messages are the least
with which one chain fails while a second holds a message and a third has not
begun; the fourth element of `Chains` is one that must not start.  In `Exchange`
writer and reader treat each member by itself (but for the "needs"), so
changing one member at a time (`Samples`) shows each disagreement; the proofs
are about all values together.  In `PtzCommand` every
call shares bytes with at most two others, and four calls put any two around a
third.  In `SipSession` every way to cut the stream is tried; a message that is
lost matters to the next one and to one that follows undisturbed, so three; two
buffers show what is handled out of turn.  With one buffer and blank lines before
any message it holds as well.

Type invariants are not among the runs' properties: TLAPS proves them (section 6;
in `Exchange`, `FlowOK` and `MessageOK` say what the variables hold, in `SipSession`
`SessionInv` does).

Every property of a run that passes has a mutant: a definition of the model
replaced by the same code with a plausible bug, which TLC then finds.

The main properties in words:

* `NoLostWakeup`: an open request always has something that will end it.
  `SentCompletes`: and it ends.  `MapRoutesOpenRequests`, `SuccessIsComplete`,
  `CallbackOnce`, `OutcomeIsFinal`: see section 1.
* `EstablishedReachesPeer`, `EstablishedByBoth`: an end that is in `ack` can
  reach the other one, and the other one has agreed.  `NoStaleCancel`: once the
  final reply has been handled, a live caller in the map sends no CANCEL.
  `StaysOver`, `EndedTogether`, `CallerSettles`: the end of a session is final,
  common and bound to come.  All but `EstablishedByBoth` leave out a session that a
  thread which had found it sets to a live status after its end (`Reviving`,
  `raced`, not in the map: section 7); `StaysOver` says that only such a thread
  does.  `EndedTogether` also excuses a BYE or CANCEL that was not sent (`unsent`),
  and a peer that refused one which overtook the 200, and was established then
  (`refused`): it shows that nothing
  else leaves one end alone, and does not catch these.
* `AnsweredOnce`, `InOrder`, `StopsSoon`, `GetsAnswered`: a query has one answer,
  from one of the two who race for it, and no message of it goes out twice;
  chains overtake each other by less than their number; after a failure only
  what other chains hold in their hands is still sent; and without one all is.
* `ReadBack` names the members that do not arrive (`Lost`, `LostInAnswer`),
  `Unharmed` the three messages that make the reader dereference a null pointer,
  `Understood` and `AnswersAgree` the commands without a handler or a way back.
  `SuccessWasRead`, `SilenceIsAnswered`: success means the peer read the message,
  and the answer the timer gives in place of the application is a readable one.
* `CommandRead` is `FrameAccepted`, `AddressKept` and `ParamsRead`: the device
  accepts the frame, and finds the address and the arguments in it.
  `AxesApart`: see section 1.
* `LostOnlyWhenCut`: libsip has had exactly the messages whose start line came in
  one buffer, until a buffer is copied past its end, and that takes a cut
  start line or a blank line before one.  `GetsHandled`: what is complete is
  not left waiting for more to arrive.
* `KeepsTrying`, `SettledIsRegistered`, `ReleasedIsQuiet`, `GetsOnline`,
  `RegistersAgain`, `LogsOut`: the registration client goes on trying; when
  nothing is under way client and superior agree; the rest by name.  `LogsOut` is
  about a shutdown with no REGISTER in flight; when there is one, the superior may
  process it after the logout, and no property forbids that.
* `KeepsSubscribing` names its two excuses, which are behaviours of the code:
  an error other than 5xx ends the subscription (`refused`), and an online
  broadcast between the two halves of start() is lost (`missed`).
* `WatchedWhenOnline`: the keepalive timer follows the status, unless two
  set_status() of the object have overlapped (section 7).  `SilenceIsNoticed`, `PeerAndServerAgree`:
  what this is for.  The overlap itself goes uncaught: the first two make an exception
  of it and show that nothing else parts timer and status.  The third holds in
  spite of the race, because a peer that lives corrects every wrong status with
  its next REGISTER.

## 5. Fairness

Liveness is checked under `FairSpec` of each module.

* Weak fairness of what a poller has queued: tasks, timers, callbacks of a
  connection attempt, the second half of a handler (`Continue`).  Pollers run their queues
  in order and a timer that is armed fires.
* Weak fairness of the end of a transaction: libsip reports a final reply or
  408 for each (`FinalReply`, `InviteTimeout`; in `QueryAnswer` a step of a chain
  whose message is under way, which needs that RequestProxy completes).
* Strong fairness of success, where the network may fail for ever but does
  not: a peer that is asked again and again accepts at some time
  (`SuperPlatform`: `Process`, `Accept`; `Subscription`: `AcceptNew`,
  `AcceptRefresh`, `Succeeds`, and its refusal of a dialog that has ended;
  `PlatformServer`: what a peer sends arrives, a reply is heard, an application
  does not refuse for ever).  It is strong because a failure in between makes
  the step impossible for a while.
* Strong fairness of the keepalive timer in `PlatformServer`: its poller may
  be busy whenever the timer is due, but the queue of a poller gives it a turn.
* No fairness of faults, of the application's calls, of a peer that is off.
`Exchange` and `PtzCommand` claim no liveness.

## 6. What is proved

TLAPS proves these for every value of the constants (every number of proxies,
SNs, chains, messages, dialogs, pollers, objects, every address and argument of a
PTZ call, all values of the members of a message, and every set of faults) from the named
assumptions of the modules, which say no more than the types of the constants.

| module | theorems | inductive invariant |
|---|---|---|
| `RequestProxyProofs` | `TypeCorrect`, `CallbackOnceCorrect`, `MapCorrect`, `WakeupCorrect`, `SuccessCorrect`, `OutcomeCorrect`, `PromiseIsKept` | `TypeOK`; each record by itself (`calls` follows `flag`, nothing is under way before the request is sent); an entry of the map belongs to an open proxy with that SN; a proxy that is sent, open and alone on its SN has its entry and a wakeup (unless a callback has thrown).  On top of it `GInv`: `Succeeded` is told, or about to be told, only for a complete answer; in sequence, nothing happens before the final reply and nothing that changes the status is left after the callback |
| `InviteSessionProofs` | `TypeCorrect`, `EstablishedCanEnd`, `NeverHalfEstablished`, `CancelsOnlyPending`, `OverForGood` | `TypeOK`; each thread is only about to do what its handler does (`PhasesOK`); one INVITE at most, and to a callee that knows nothing of it (`InviteOnce`); how map, transaction, status and the threads at work on an end go together (`CallerInMap`, `CalleeInMap`); a 200 is under way or taken only when the callee has answered 200 (`OkAnswered`), an ACK only when the caller took the 200 (`Acknowledged`) |
| `QueryAnswerProofs` | `TypeCorrect`, `AnsweredOnceCorrect`, `InOrderCorrect`, `StopsSoonCorrect` | `TypeOK`, `AnsweredOnce`; nothing is sent or begun before the query is accepted and the callback called; the messages that were sent and those the chains hold are distinct |
| `PtzCommandProofs` | `TypeCorrect`, `CommandIsRead`, `AxesStayApart` | `TypeOK`; the first byte and the address bits of the frame; the arguments of the last call, which `Send` leaves where they are |
| `SuperPlatformProofs` | `TypeCorrect`, `KeepsTryingCorrect`, `SettledIsRegisteredCorrect`, `ReleasedIsQuietCorrect` | `TypeOK`, `KeepsTrying`; a running platform is held; while the superior has it logged out, something is under way that makes it register and that no accepted 2xx can end; a running platform that is not online has not settled |
| `SubscriptionProofs` | `TypeCorrect`, `KeepsSubscribingCorrect`, `StoppedLearnsNothingCorrect`, `ReleasedSendsNothingCorrect` | `TypeOK`, `KeepsSubscribing`, and that a running subscription has its callback registered, or start() will do it |
| `SipServerProofs`, first part | `TypeCorrect`, `WatchedWhenOnlineCorrect` | of `PlatformServer`: `TypeOK`, `WatchedWhenOnline`; a handler only works on an object that is made, and only these have timers; of an object that is not raced one handler at most is between the halves of set_status(), and it has assigned the status |
| `SipServerProofs`, second part | `SessionInvariance`, `LostOnlyWhenCutCorrect` | of `SipSession`: there are places in the stream where the buffers were cut, the last one where it has arrived, so that what waits is the stream between them; what the parser holds is the stream just before the first of them and begins one message; of the messages before that, those that are not cut, and no others, have been given or are queued to be given, in order; a buffer that waits has a task |
| `ExchangeProofs` | `ReadsWhatWasWritten`, `BreaksOnlyOnBlanks`, `CompleteIsUnderstood`, `SucceededWasRead`, `BothEndsAgree`, `SilenceGetsAnAnswer` | `FlowOK`: how far a message has come says who has answered and what the sender knows; `MessageOK`, `AnswerOK`: what was read is what the reader makes of what was written; `ReplyOK`: a 200 follows a message that was read, a keepalive, or a notification that was not looked at |

Each `Invariance` theorem has the three usual parts: it holds initially, every
step keeps it (one lemma per action or per group of actions of one shape, over
lemmas about the pieces the handlers are built from), and it implies the
properties.  None of the safety properties is inductive alone.
`KeepsSubscribing` for example is lost when an online broadcast finds no
callback, so the invariant has to say who registers it; `WatchedWhenOnline` is
lost when the second half of set_status() runs for a status another handler has
assigned, so the invariant has to say that this makes the object raced.
Action properties follow from the same invariant and a lemma on each step.

`SuccessCorrect` holds under every fault: no order of reply, responses and timers
makes an incomplete answer a success.  `OutcomeCorrect` assumes `InSequence` (no
early response, no 1xx), as its run does, and is about proxies with an SN of
their own; both exceptions are real (section 7).

The theorems about `InviteSession` hold under one more assumption, `NoEarlyBye`:
the callee's application does not hang up before its own answer has run.  That is
finding 1, and without it an end that is over enters the map.  They hold for every
interleaving of the threads of both ends.  The invariant is about what a thread
has found as much as about the ends, because a handler may act long after its
lookup: an ACK that has found its session, or a caller that has taken its 200,
bears witness to the 200 as the status `ack` does.  `EstablishedCanEnd` has the
exception `raced`; the invariant says that nothing else leaves a live end outside
the map.  `OverForGood` is the other side of it (`NoRevival`): an end that is over
is in the map only while such a thread is at work on it, so that no reply and no
ACK finds it afterwards.

`InOrder` and `StopsSoon` count: while the platform lives, every message taken
from the queue has been sent or is in the hands of a chain, and at most `width`
chains run (`Counts`), so that the place of a message is at most that of its
number plus the chains that may still hold earlier ones.  Once the flag is set a
chain is over, and each message that is sent late takes another chain past the
flag for the last time (`Ending`).

`PromiseIsKept` is the refinement without its liveness: under the mapping of
`Phase` and `told`, the first states of `RequestProxy` are first states of
`RequestPromise`, and every step is a step of it or leaves it alone.  It needs
what `OutcomeCorrect` needs (`InSequence`) and `EnoughSNs`: no answers on numbers
of the peer, and no more requests than SNs, so that no two share one
(`OwnSNs`).  Both hold in the run `proxy_in_order`.

`ExchangeProofs` argues in two stages.  Its lemmas about a format know nothing of
the messages: if no element is read as another member and both sides know a
member under one name (`Straight`, `Carries`), then what is read is what was
written (`RoundTrip`), a reader breaks on blanks and on what it dereferences
unchecked (`BrokenBy`), and it accepts what is set (`AcceptedWhenSet`).  `Sound`
says this of a whole format, and that whatever its reader insists on is
carried.  Then each of the tables of `ConfigTypes` and `Messages` is shown to be
`Sound`, but for the members in `Lost` and `LostInAnswer`.  For answers a platform
makes by itself, `Fits` says that what both sides insist on is among the members
create_response() sets; for notifications, `Heard` says that the writer demands
what the reader needs, because on_notify() replies 200 without asking.
Only the last part is about steps, and there the tables do not appear any more.

`LostOnlyWhenCut` is proved for every number of messages, every choice of
keepalives, and every way TCP cuts and joins the stream.  `SessionInv` does not
name the cuts: it says that there is a sequence `b` of places that explains what
the session holds (`Faithful(b)`), unless a buffer was copied past its end or the
session is gone.  `OnRecv` adds a place, a buffer that is taken or put back moves
the first one.  The proof needs three things.  The stream is well formed
(`WellFormed`: its messages are in order, do not overlap, and every character is
part of one or blank), which is an induction over their number.  The
library's induction theorems cannot be used here, because they have an operator
as parameter; `NatInd` states induction for sets of numbers and is derived from
the least number of a set (`NatMin`), which the library's `WFMin` gives.  Then what
get_sip_message_type() finds: a start line that is in a buffer is found in its
own line, though the lines after the first are taken too long (`StartInFinds`),
and what is found at the beginning of a buffer does begin a message
(`FoundFirst`).  And that what is passed over is lost for a reason: a buffer in
which nothing is found holds no message that is not cut (`PassedOver`).

The two parts of `SipServerProofs` have no variable in common, so each theorem
is about one specification; the definitions of `SipSession` that a specification
usually calls Init, Next and Spec are `SessionInit`, `SessionNext` and
`SessionSpec` there, because both modules are extended.

Only model-checked:

* the liveness properties (`SentCompletes`, `EndedTogether`, `CallerSettles`,
  `GetsAnswered`, `GetsOnline`, `RegistersAgain`, `LogsOut`, `PeerAndServerAgree`,
  `SilenceIsNoticed`, `GetsActive`, `GetsHandled`, and that half of `KeepsPromise`):
  liveness under fairness and ENABLED are outside what the prover does.

## 7. Findings

The runs that expect a violation each show one disagreement between the code and
its comments.  `PROJECT.json` quotes both.

1. `invite_leak`: a callee that hangs up before its queued answer runs leaves an
   entry in the map of sessions that nothing removes.
2. `query_sn`: the answer to a query with one response goes out under a new SN,
   so that the asker does not find its request.

The models contain these as well, as what the code does; the properties are
stated so that they hold beside them, and each shows where one would expect
otherwise:

* A start line that TCP cuts is lost: the buffer is copied into a local variable
  and not into `_message_buffer` (`sip_session.cpp:353-356`), which is therefore
  never set.  The message is lost with it, and the next one as well if its start
  comes in the same buffer as the end of the lost one: get_buffer() then appends
  as many bytes as the whole buffer has, from its middle (line 417), and a
  message that is not complete in it is completed with them.  A blank line
  before a message, which SIP allows, has the same effect.
* A session that has ended may be established again.  on_invite_reply() and
  on_recv_ack() find it in the map (`invite_request_impl.cpp:287`, `:591`) and call
  set_status(ack) (`:328`, `:594`) with no lock that lasts from one to the other,
  and set_status() refuses nothing.  to_bye() of the application between the two
  sends BYE or CANCEL, ends the session and takes it out of the map; then it
  becomes `ack`, is in no map, and a BYE of the peer is answered 481.  With a 1xx
  (`:294`) it comes back as `trying`: every later reply is ignored, and the next
  to_bye(), or the destructor, sends a CANCEL for a transaction that may be over.
  It takes no fault: under `Faults = {}` TLC finds a session in `ack` outside the
  map, and `EstablishedReachesPeer` fails without its exception `raced`.
* Two set_status() of one object on different pollers may interleave: a REGISTER
  sets online and a new timer, and `keepalive_timer_.reset()` of the other comes
  last (`subordinate_platform_impl.cpp:187`).  The platform stays online without a
  timer, and its silence is never noticed; hence the exception in
  `WatchedWhenOnline` and `SilenceIsNoticed`.
* on_reply() overwrites `Succeeded`, so a request whose response overtakes its
  reply is reported as timed out (`RequestProxyImpl.cpp:144`); hence
  `OutcomeIsFinal` is checked in sequence only.
* An answer on the peer's SN displaces an open request in `request_map_`
  (`platform_helper.cpp:228`); a list request may then be released without an
  outcome; hence the exception in `NoLostWakeup`.
* Until the application has answered an INVITE, a CANCEL is answered 481 and the
  application never hears of it.
* shutdown() of a subscription sends no cancelling SUBSCRIBE
  (`subscribe_request_impl.cpp:112`, against `subscribe_request.h:82`).
* get_command_type() tests presets with `>= 0x81 && >= 0x83`
  (`type_define.h:618`): a command to set or call a preset is invalid, cruises,
  scans and switches are presets, so that get_crusie_id() and get_aux_id()
  return 0; get_move_type() (line 631) returns a speed.
* Optional members never arrive: their readers read only into an optional that
  already has a value, and always return false (`type_define_ext.cpp:1073-1110`).
* Members lost because writer and reader differ in tag or place
  (`Lost`): the items of `AlarmStatus` ("key" and "Item"), `Seq` and `Point` of a
  privacy mask (written into the mask), `TimeSegment` of a record schedule
  (written beside the day), `BusinessGroupID` (no reader), `FilePath` of an
  `ItemFile` (a blank in the tag), every member of DragZoomOut (its reader
  writes), `Secrecy` of a record query (its writer reads), and in answers
  `ExtraInfo` of RecordInfo and `Name` of a cruise track.
* A null pointer becomes a std::string: a list with an empty string, a device
  status without a reason (`device_status_message.cpp:73`), a catalog query
  without a device (`Unharmed`).
* No handler: AlarmQuery, MobilePositionQuery, PTZPositionNotify.  The answer to
  an alarm is looked up on the wrong side, the answer to a broadcast is not
  waited for.

## 8. What is not modelled

* The incoming side of subscriptions.  `Subscription` has its peer as an
  environment.  What a model of the incoming side would promise fails in the
  plain exchange already, so that tests come first.  The expiry timer takes
  seconds for milliseconds (`subscribe_request_impl.cpp:79`) and runs once: when it
  runs more than a second remains, and the subscription never expires.  The
  status stays `pending` until the first refresh, so that send_notify() uses a
  MESSAGE, although start() has told the peer "active".  shutdown() sends no
  NOTIFY.  A cancelled subscription stays in the map.  A refresh before the
  application has called start() makes a second object for the same dialog.
  Refreshes do not set `subscribe_time_`, from which the `expires` of a NOTIFY is
  computed.
* Of sessions: connecting, address conversion, UDP, and get_session() and
  set_tcp_session() of the helper, which are about the life of objects of
  ZLToolKit.  `platform_helper.cpp:342` would repay a test: the error callback of a
  connection belongs to the last platform that used it.
* SIP timers: an atomic exchange lets each fire or be stopped once, which a model
  would only repeat.  SDP, header conversion, digest authorization: text and
  hashes.  `SuperPlatform` takes authorization as accepted or refused,
  `InviteSession` a description as acceptable or not.
* In messages: the spelling of numbers, dates and enumerations, the conversion
  between GB2312 and UTF-8, vendor extension data.
* Playback control (INFO with play, pause, seek) in INVITE sessions, and a
  platform that is removed during a session.
* A callback of the application that throws in a configuration download after
  its timer has been reset (`RequestConfigDownloadImpl.cpp:40`); a platform that
  is shut down in network_error, which does not log out
  (`super_platform_impl.cpp:69`: `LogsOut` is about an online one).
* Memory: a raw `this` that is used as a key of a map and reused by a later
  object; a NOTIFY after an error reply, whose handling dereferences a null
  pointer (`subscribe_request_impl.cpp:245`, a guard leaves it out); data races
  on `shared_ptr` members and on the maps that are written under a shared lock
  (`sip_server.cpp:118`).  Assignments of these are single steps in the models.
* Time: a delay is an action that may be taken at any time.  Where the code
  relies on one being longer than another, a guard says so (`Elapse`, `Silence`, `Waits`).
* libsip and ZLToolKit: external, as described in section 1.
* The demonstration `main.cpp` and the build files.

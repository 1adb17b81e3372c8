------------------------------ MODULE Exchange ------------------------------
(***************************************************************************)
(* One message from a platform to another, from the application that fills *)
(* it in to the application that gets it, and the answer back: the writer  *)
(* of the sender, the dispatch of the receiver (PlatformHelper::           *)
(* on_recv_message(), on_query(), on_control(), on_notify()), its reader,  *)
(* the answer of the application or of the query timer, the SIP replies,   *)
(* and RequestProxyImpl::on_response().  RequestProxy and QueryAnswer      *)
(* model the threads at the two ends; here each end takes one step at a    *)
(* time and the subject is which handler gets what.                        *)
(***************************************************************************)
EXTENDS Messages

Structs == Configs ++ Items
Requests == Queries ++ Controls ++ Notifications

CONSTANT Filled(_)   \* the values an application may give the members of a format

ASSUME FilledAssumption ==
    /\ \A k \in DOMAIN Structs : \A v \in Filled(Structs[k]) : Typed(Structs[k], v)
    /\ \A k \in DOMAIN Requests :
          \A v \in Filled(Requests[k].format) : Typed(Requests[k].format, v)
    /\ \A c \in DOMAIN Responses : \A v \in Filled(Responses[c]) : Typed(Responses[c], v)

VARIABLES
    kind,      \* what is sent
    sent,      \* the members as the application set them
    got,       \* the members as the peer's application gets them
    load,      \* how the reader of the receiver ended
    stage,     \* how far the message has come
    code,      \* the SIP reply to the request
    answer,    \* the same for the answer, and whether it has the request's SN
    outcome    \* what the sender's RequestProxy ended with

vars == <<kind, sent, got, load, stage, code, answer, outcome>>

IsStruct == kind \in DOMAIN Structs
FormatOf == IF IsStruct THEN Structs[kind] ELSE Requests[kind].format
Command  == Requests[kind].cmd
AnswerFormat == Responses[Command]

Nothing == [value |-> <<>>, got |-> <<>>, load |-> "none", sn |-> FALSE, from |-> "nobody"]

----------------------------------------------------------------------------
(* The sender *)

\* newRequestProxy_(): how many responses the sender waits for.
WaitsForDownward == IF kind \in DOMAIN Notifications THEN "none" ELSE "one"
Waits ==
    IF kind \in {"CatalogQuery", "RecordInfoQuery", "ConfigDownloadQuery", "PresetQuery",
                 "CruiseTrackQuery", "CruiseTrackListQuery"}
    THEN "multi"
    ELSE IF \/ kind \in DOMAIN Notifications \ {"Alarm"}
            \/ kind \in {"PTZCmd", "TeleBoot", "IFrameCmd", "DragZoomIn", "DragZoomOut",
                         "PTZPreciseCtrl", "FormatSDCard", "TargetTrack"}
    THEN "none" ELSE "one"

\* Queries, controls and broadcasts go down to a device, notifications up.
Downward == kind \in DOMAIN Queries \cup DOMAIN Controls \cup {"Broadcast"}

Init ==
    /\ kind \in DOMAIN Structs \cup DOMAIN Requests
    /\ sent \in Filled(FormatOf)
    /\ got = <<>> /\ load = "none"
    /\ stage = "made" /\ code = 0
    /\ answer = Nothing
    /\ outcome = "open"

\* send(): a message that its writer refuses is never registered.
Send ==
    /\ stage = "made"
    /\ IF IsStruct \/ Sendable(FormatOf, sent)
       THEN stage' = "sent" /\ UNCHANGED outcome
       ELSE stage' = "over" /\ outcome' = "failed"
    /\ UNCHANGED <<kind, sent, got, load, code, answer>>

----------------------------------------------------------------------------
(* The receiver *)

\* The first element of a control that names a command is absent when the
\* enumerator it holds is not valid.
CommandElement ==
    kind \in {"RecordCmd", "GuardCmd", "TargetTrack"} => sent[kind] # "none"

HandlerOfSome ==
    IF kind \in {"CatalogQuery", "DeviceConfig"} THEN "multi" ELSE "unknown"

\* on_query(), on_control() and on_notify() of a SuperPlatformImpl and
\* on_notify() of a SubordinatePlatformImpl: how many answers the handler
\* gives; "unknown" when there is none.
Handler ==
    CASE kind \in {"CatalogQuery", "RecordInfoQuery", "ConfigDownloadQuery", "PresetQuery",
                   "CruiseTrackListQuery", "CruiseTrackQuery"}      -> "multi"
      [] kind \in {"DeviceStatusQuery", "DeviceInfoQuery", "HomePositionQuery",
                   "PTZPositionQuery", "SDCardStatusQuery", "Broadcast", "DeviceConfig",
                   "HomePosition", "AlarmCmd", "DeviceUpgrade"}     -> "one"
      [] kind \in {"RecordCmd", "GuardCmd"} /\ CommandElement       -> "one"
      [] kind \in {"PTZCmd", "TeleBoot", "IFrameCmd", "DragZoomIn", "DragZoomOut",
                   "PTZPreciseCtrl", "FormatSDCard"}                -> "none"
      [] kind = "TargetTrack" /\ CommandElement                     -> "none"
      [] kind \in {"CatalogNotify", "MediaStatus", "MobilePosition",
                   "UploadSnapShotFinished", "VideoUploadNotify",
                   "DeviceUpgradeResult"}                           -> "none"
      [] kind = "Alarm"                                             -> "one"
      [] kind = "Keepalive"                                         -> "keepalive"
      [] OTHER                                                      -> "unknown"

Document == ToXml(FormatOf, sent)

\* load_from_xml() of the handler's message.  A notification that goes up is
\* passed on whatever it returned.
ReadAs(result) ==
    /\ load' = result
    /\ got' = IF result = "loaded" THEN FromXml(FormatOf, Document) ELSE <<>>

Replies(c, s) == code' = c /\ stage' = s

\* A platform that is not registered is answered 401, a keepalive of one that
\* is not online not at all (408 at the sender); 404 also when the application
\* does not listen for the event.
Unread(c) == UNCHANGED <<got, load>> /\ Replies(c, "replied")

\* The reader dereferences a pointer that is null.
Breaks ==
    /\ Load(FormatOf, Document) = "broken"
    /\ ReadAs("broken") /\ Replies(408, "replied")

HandlesAnyway ==
    LET result == Load(FormatOf, Document) IN
    /\ result # "broken"
    /\ ReadAs(result) /\ Replies(200, "replied")
Handles ==
    LET result == Load(FormatOf, Document) IN
    /\ result # "broken"
    /\ ReadAs(result)
    /\ IF Downward /\ result = "refused"
       THEN Replies(400, "replied")
       ELSE \/ Replies(200, "replied")
            \/ Downward /\ Replies(404, "replied")

\* Keepalive of a platform: its status is not even read.
KeptAlive == \E c \in {200, 408} : Unread(c)

Receive ==
    /\ stage = "sent"
    /\ ~IsStruct
    /\ \/ Unread(IF kind = "Keepalive" THEN 408 ELSE 401)
       \/ Handler = "unknown" /\ Unread(404)
       \/ Handler = "keepalive" /\ KeptAlive
       \/ Handler \notin {"unknown", "keepalive"} /\ (Breaks \/ Handles)
    /\ UNCHANGED <<kind, sent, answer, outcome>>

\* A struct is read where the message around it is.
ReadStruct ==
    /\ stage = "sent"
    /\ IsStruct
    /\ ReadAs(Load(FormatOf, Document))
    /\ stage' = "over" /\ outcome' = "succeeded"
    /\ UNCHANGED <<kind, sent, code, answer>>

----------------------------------------------------------------------------
(* The reply and the answer *)

\* on_reply(): a request that waits for nothing is done, also when the peer is
\* going to answer it.
WillAnswer == Handler \in {"one", "multi"}
Reply ==
    /\ stage = "replied"
    /\ stage' = IF code = 200 /\ WillAnswer THEN "waiting"
                ELSE IF code = 200 /\ Waits # "none" THEN "silent"
                ELSE "over"
    /\ outcome' = CASE code = 408                     -> "timeout"
                    [] code \notin {200, 408}         -> "failed"
                    [] code = 200 /\ Waits = "none"   -> "succeeded"
                    [] OTHER                          -> "open"
    /\ UNCHANGED <<kind, sent, got, load, code, answer>>

\* The members of an answer that the platform makes when the application has
\* not answered in time, create_response(), and of the one to an alarm.
Error == [f \in {"Result"} |-> "error"]
Success == [f \in {"Result", "Online", "Status"} |-> "set"]
DefaultsOnce == IF Command = "DeviceStatus" THEN Error ELSE Success
Defaults ==
    CASE Command \in {"CruiseTrackQuery", "Alarm"} -> Success
      [] Command = "DeviceStatus"                  -> Error ++ Success
      [] OTHER                                     -> Error
Own(reason) ==
    [f \in DOMAIN AnswerFormat.fields |->
        CASE f = "DeviceID"           -> IF f \in DOMAIN sent THEN sent[f] ELSE "none"
          [] f = "Reason"             -> reason
          [] f \in DOMAIN Defaults    -> Defaults[f]
          [] OTHER                    -> "none"]

\* A single answer is sent by a proxy that takes a number of its own, which may
\* happen to be the one of the request.
SnKept == IF kind \in DOMAIN Queries \cup DOMAIN Controls /\ Handler = "one"
          THEN BOOLEAN ELSE {TRUE}

Answers(value, from) ==
    \E sn \in SnKept :
        /\ stage' = IF Sendable(AnswerFormat, value) THEN "answered" ELSE "silent"
        /\ answer' = [Nothing EXCEPT !.value = value, !.sn = sn, !.from = from]
        /\ UNCHANGED <<kind, sent, got, load, code, outcome>>

\* The application answers, with any members.
AppAnswers ==
    /\ stage = "waiting" /\ Handler \in {"one", "multi"} /\ kind # "Alarm"
    /\ \E value \in Filled(AnswerFormat) : Answers(value, "application")

\* GB28181_QUERY_TIMEOUT_MS.
TimerAnswers ==
    /\ stage = "waiting" /\ Handler \in {"one", "multi"} /\ kind # "Alarm"
    /\ Answers(Own("set"), "timer")

\* on_notify() answers an alarm by itself.
AlarmAnswers ==
    /\ stage = "waiting" /\ kind = "Alarm"
    /\ Answers(Own("none"), "platform")

AnswerDocument == ToXml(AnswerFormat, answer.value)

\* Responses are looked up among the subordinate platforms only, an alarm was
\* sent up to a superior one; and by their number, among open requests.
Routed == Downward
Found == Routed /\ answer.sn /\ Waits # "none"

\* on_response(): the message class of a command.
Known == Command # "Alarm"

\* MessageBase reads its own members before anything is looked up.
TakenAs ==
    IF Null(AnswerFormat, AnswerDocument, "raw") THEN "broken"
    ELSE IF ~Found                               THEN "lost"
    ELSE IF ~Known                               THEN "refused"
    ELSE Load(AnswerFormat, AnswerDocument)

TakeAnswer ==
    /\ stage = "answered"
    /\ answer' = [answer EXCEPT
                    !.load = TakenAs,
                    !.got = IF TakenAs = "loaded" THEN FromXml(AnswerFormat, AnswerDocument) ELSE <<>>]
    /\ stage' = IF outcome # "open" \/ TakenAs \in {"loaded", "refused"} THEN "over" ELSE "silent"
    /\ outcome' = IF outcome # "open" THEN outcome
                  ELSE CASE TakenAs = "loaded"   -> "succeeded"
                         [] TakenAs = "refused"  -> "failed"
                         [] OTHER                -> "open"
    /\ UNCHANGED <<kind, sent, got, load, code>>

\* The five seconds of the sender, which began when the reply came.
GiveUp ==
    /\ stage \in {"waiting", "answered", "silent"}
    /\ outcome = "open"
    /\ stage' = "over" /\ outcome' = "timeout"
    /\ UNCHANGED <<kind, sent, got, load, code, answer>>

Next ==
    \/ Send \/ Receive \/ ReadStruct \/ Reply
    \/ AppAnswers \/ TimerAnswers \/ AlarmAnswers \/ TakeAnswer \/ GiveUp

Spec == Init /\ [][Next]_vars

----------------------------------------------------------------------------
(* Properties *)

\* Members that the two sides write and read under different names or in
\* different places, or that one side forgets.
Lost ==
    [AlarmStatusItem |-> {"DeviceID", "DutyStatus"},
     RegionListItem  |-> {"Seq", "Point"},
     RecordSchedule  |-> {"TimeSegment"},
     ItemTypeInfo    |-> {"BusinessGroupID"},
     ItemFile        |-> {"FilePath"},
     DragZoomOut     |-> DOMAIN DragZoomType,
     RecordInfoQuery |-> {"Secrecy"}]
LostInAnswer ==
    [RecordInfo       |-> {"ExtraInfo"},
     CruiseTrackQuery |-> {"Name"}]
Except(table, k) == IF k \in DOMAIN table THEN table[k] ELSE {}

\* What the peer should read: an empty time has become the present one, an
\* absent configuration an empty one, what was cleared has its default again,
\* and the event of an alarm belongs to its type.
Meant(format, value, f) ==
    CASE format.fields[f] = "stamp"                       -> "set"
      [] value[f] = "null"                                -> "set"
      [] value[f] = "cleared"                             -> "none"
      [] f = "EventType" /\ value["AlarmType"] = "none"   -> "none"
      [] OTHER                                            -> value[f]

SameMembers(format, value, read, except) ==
    \A f \in DOMAIN value \ except :
        format.fields[f] # "optional" => read[f] = Meant(format, value, f)

\* Writer and reader of every message and struct agree: a member arrives as it
\* was set, those above and the optional ones apart.
ReadBack ==
    /\ load = "loaded" => SameMembers(FormatOf, sent, got, Except(Lost, kind))
    /\ answer.load = "loaded" =>
          SameMembers(AnswerFormat, answer.value, answer.got, Except(LostInAnswer, Command))

\* What one platform can send makes the other dereference a null pointer in
\* three cases only: a list with an empty string, a catalog query without a
\* device and a device status without a reason.
Blank(value) == \E f \in DOMAIN value : value[f] = "blank"
Unharmed ==
    /\ load = "broken" => \/ Blank(sent)
                          \/ kind = "CatalogQuery" /\ sent["DeviceID"] = "none"
    /\ answer.load = "broken" => \/ Blank(answer.value)
                                 \/ Command = "DeviceStatus" /\ answer.value["Reason"] = "none"

\* A message whose members are all set has a handler at the peer that reads
\* it.  Two queries are only for subscriptions and have none; neither has the
\* notification of a PTZ position.
Complete(value) == \A f \in DOMAIN value : value[f] \notin {"none", "null", "blank", "cleared"}
Understood ==
    /\ ~IsStruct /\ Complete(sent) =>
          /\ load \notin {"refused", "broken"}
          /\ Handler # "unknown" \/ kind \in {"AlarmQuery", "MobilePositionQuery", "PTZPositionNotify"}
    /\ answer.from # "nobody" /\ Complete(answer.value) =>
          answer.load \notin {"refused", "broken"}

\* A request that succeeded has been read by the peer, and its answer, if it
\* waits for one, by the sender (nobody reads the members of a keepalive).
SuccessWasRead ==
    outcome = "succeeded" /\ ~IsStruct =>
        /\ load = "loaded" \/ kind = "Keepalive"
        /\ Waits # "none" => answer.load = "loaded"

\* Both ends agree on who answers: a sender does not wait for an answer that
\* nobody gives, and one that was sent is dropped only because of its number,
\* or because it answers an alarm or a broadcast.
AnswersAgree ==
    /\ stage = "silent" => answer.from # "nobody"
    /\ answer.load = "lost" => ~answer.sn \/ kind \in {"Alarm", "Broadcast"}

\* The answer a platform gives in place of its application can be sent, and
\* the other platform can read it.
SilenceIsAnswered ==
    answer.from # "nobody" /\ answer.from # "application" =>
        /\ Sendable(AnswerFormat, answer.value)
        /\ answer.load \notin {"refused", "broken"}
=============================================================================

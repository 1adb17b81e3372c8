------------------------------ MODULE Messages ------------------------------
(***************************************************************************)
(* The messages of GB/T 28181 (message/*.cpp, message/*.h): the members of *)
(* each, what its parse_detail() writes and insists on, what its           *)
(* load_detail() reads and insists on.  See XmlFields for the tables and   *)
(* ConfigTypes for the structs inside.                                     *)
(***************************************************************************)
EXTENDS ConfigTypes

\* Every message has a device and a reason; MessageBase writes them when they
\* are not empty and reads them with GetText().
BaseFields == Of("raw", {"DeviceID", "Reason"})
AlsoWrites(write, S) == [write EXCEPT !.ifset = @ \cup S]
AlsoReads(read, S) == [read EXCEPT !.fields = @ \cup S]
Message(fields, write, read) ==
    Format(fields ++ BaseFields,
           AlsoWrites(write, DOMAIN BaseFields), AlsoReads(read, DOMAIN BaseFields))

\* A request that asks for a device and nothing else.
NoFields == Of("text", {})
Query == Message(NoFields, Writes({}, {}), Reads({}))

\* A message whose only member is the result it insists on.
ResultField == Of("result", {"Result"})
ResultWrite == [Writes({"Result"}, {}) EXCEPT !.needs = {{"Result"}}]
ResultRead  == [Reads({"Result"}) EXCEPT !.needs = {{"Result"}}]
Answer == Message(ResultField, ResultWrite, ResultRead)

----------------------------------------------------------------------------
(* Queries and their responses *)

DeviceStatusFields ==
    ResultField ++ Of("enum", {"Online", "Status", "Encode", "Record"}) ++
    Of("text", {"DeviceTime"}) ++ Of("items", {"Alarmstatus"}) ++ Of("list", {"Info"})
\* The reason is written here a second time, an empty one as well.
DeviceStatusWrite ==
    [Writes({"Result", "Online", "Status", "Reason"},
            {"Encode", "Record", "DeviceTime", "Alarmstatus", "Info"})
       EXCEPT !.needs = {{"Result"}, {"Online"}, {"Status"}}]
DeviceStatusRead ==
    [Reads(DOMAIN DeviceStatusFields) EXCEPT !.needs = {{"Result"}, {"Online"}, {"Status"}}]

DeviceInfoFields ==
    ResultField ++ Of("text", {"DeviceName", "Manufacturer", "Model", "Firmware"}) ++
    Of("optional", {"Channel"}) ++ Of("list", {"Info"})
DeviceInfoWriteReason ==
    [Writes((DOMAIN DeviceInfoFields \ {"Info"}) \cup {"Reason"}, {"Info"}) EXCEPT !.needs = {{"Result"}}]
DeviceInfoWrite ==
    [Writes(DOMAIN DeviceInfoFields \ {"Info"}, {"Info"}) EXCEPT !.needs = {{"Result"}}]
DeviceInfoReadSome ==
    [Reads(DOMAIN DeviceInfoFields \ {"Firmware"}) EXCEPT !.needs = {{"Result"}}]
DeviceInfoRead == [Reads(DOMAIN DeviceInfoFields) EXCEPT !.needs = {{"Result"}}]

CatalogRequestFields == Of("text", {"StartTime", "EndTime"})
CatalogRequestWrite == Writes({}, {"StartTime", "EndTime"})
\* The device is dereferenced before anyone has looked whether there is one.
CatalogRequestRead == [Reads({"StartTime", "EndTime"}) EXCEPT !.derefs = {"DeviceID"}]

CatalogFields == Of("number", {"SumNum"}) ++ Of("items", {"DeviceList"}) ++ Of("list", {"ExtraInfo"})
CatalogWrite == Writes({"SumNum", "DeviceList"}, {"ExtraInfo"})
CatalogRead  == Reads(DOMAIN CatalogFields)

RecordRequestFields ==
    Of("text", {"StartTime", "EndTime", "FilePath", "Address", "Type", "RecorderID",
                "IndistinctQuery", "AlarmMethod", "AlarmType"}) ++
    Of("number", {"Secrecy"}) ++ Of("optional", {"StreamNumber"})
\* The writer reads Secrecy from the document instead of writing it.
RecordRequestWrite ==
    [Writes({"StartTime", "EndTime"},
            DOMAIN RecordRequestFields \ {"StartTime", "EndTime", "Secrecy"})
       EXCEPT !.needs = {{"StartTime"}, {"EndTime"}}]
RecordRequestRead ==
    [Reads(DOMAIN RecordRequestFields) EXCEPT !.needs = {{"StartTime"}, {"EndTime"}}]

RecordInfoFields ==
    Of("text", {"Name"}) ++ Of("number", {"SumNum"}) ++
    Of("items", {"RecordList"}) ++ Of("list", {"ExtraInfo"})
\* ExtraInfo is written inside the list and read beside it.
RecordInfoWrite ==
    [Writes({"Name", "SumNum", "RecordList"}, {"ExtraInfo"})
       EXCEPT !.tag = [ExtraInfo |-> "RecordList/ExtraInfo"]]
RecordInfoRead == Reads(DOMAIN RecordInfoFields)

ConfigRequestFields == Of("enum", {"ConfigType"})
ConfigRequestWrite == [Writes({"ConfigType"}, {}) EXCEPT !.needs = {{"ConfigType"}}]
ConfigRequestRead  == [Reads({"ConfigType"}) EXCEPT !.needs = {{"ConfigType"}}]

ConfigDownloadFields == ResultField ++ Of("config", DeviceConfigTypes)
\* Without a configuration only an error can be answered.
ConfigDownloadWrite ==
    [Writes(DOMAIN ConfigDownloadFields, {})
       EXCEPT !.needs = {{"Result"}, DeviceConfigTypes \cup {"error"}}]
ConfigDownloadRead == [Reads(DOMAIN ConfigDownloadFields) EXCEPT !.needs = {{"Result"}}]

PresetFields == Of("number", {"SumNum"}) ++ Of("items", {"PresetList"})
PresetWrite == Writes({"SumNum", "PresetList"}, {})
PresetRead  == [Reads(DOMAIN PresetFields) EXCEPT !.needs = {{"PresetList"}}]

HomePositionFields == Of("part", {"HomePosition"})
HomePositionWrite == Writes({}, {"HomePosition"})
HomePositionRead  == Reads({"HomePosition"})

CruiseListFields ==
    ResultField ++ Of("number", {"SumNum"}) ++ Of("items", {"CruiseTrackList"})
CruiseListWrite == Writes({"Result", "SumNum"}, {"CruiseTrackList"})
CruiseListRead  == Reads(DOMAIN CruiseListFields)

CruiseRequestFields == Of("number", {"Number"})
CruiseRequestWrite == Writes({"Number"}, {})
CruiseRequestRead  == [Reads({"Number"}) EXCEPT !.needs = {{"Number"}}]

CruiseFields ==
    ResultField ++ Of("number", {"SumNum"}) ++ Of("text", {"Name"}) ++ Of("items", {"CruisePointList"})
\* The name is read from the document that is being written.
CruiseWrite == Writes({"Result", "SumNum"}, {"CruisePointList"})
CruiseRead  == [Reads(DOMAIN CruiseFields) EXCEPT !.needs = {{"Result"}}]

PTZPositionFields ==
    Of("optional", {"Pan", "Tilt", "Zoom", "HorizontalFieldAngle", "VerticalFieldAngle",
                    "MaxViewDistance"})
PTZPositionWrite == Writes({"Result"}, DOMAIN PTZPositionFields)
PTZPositionRead  == Reads(DOMAIN PTZPositionFields \cup {"Result"})
PTZNotifyWrite == Writes({}, DOMAIN PTZPositionFields)
PTZNotifyRead  == Reads(DOMAIN PTZPositionFields)

SdCardFields == ResultField ++ Of("number", {"SumNum"}) ++ Of("items", {"SDCardStatusInfo"})
SdCardWrite == Writes({"Result", "SumNum"}, {"SDCardStatusInfo"})
SdCardRead  == Reads(DOMAIN SdCardFields)

----------------------------------------------------------------------------
(* Controls *)

\* Empty strings are left out of ExtraInfo by the writer of every control.
ExtraInfo == Of("items", {"ExtraInfo"})
Control(fields, write, read) ==
    Message(fields ++ ExtraInfo,
            AlsoWrites(write, {"ExtraInfo"}), AlsoReads(read, {"ExtraInfo"}))

\* The eight bytes of the command are always there, see PtzCommand.
PTZCmdFields == Of("number", {"PTZCmd"}) ++ Of("part", {"PTZCmdParams"})
PTZCmdWrite == Writes({"PTZCmd"}, {"PTZCmdParams"})
PTZCmdRead  == [Reads(DOMAIN PTZCmdFields) EXCEPT !.needs = {{"PTZCmd"}}]

TeleBootFields == Of("number", {"TeleBoot"})
TeleBootWrite == Writes({"TeleBoot"}, {})
TeleBootRead  == [Reads({"TeleBoot"}) EXCEPT !.needs = {{"TeleBoot"}}]

\* Only the reader insists on the record command.
RecordCmdFields == Of("enum", {"RecordCmd"}) ++ Of("number", {"StreamNumber"})
RecordCmdWrite == Writes({"RecordCmd", "StreamNumber"}, {})
RecordCmdRead  == [Reads(DOMAIN RecordCmdFields) EXCEPT !.needs = {{"RecordCmd"}}]

GuardCmdFields == Of("enum", {"GuardCmd"})
GuardCmdWrite == Writes({"GuardCmd"}, {})
GuardCmdRead  == [Reads({"GuardCmd"}) EXCEPT !.needs = {{"GuardCmd"}}]

AlarmCmdFields == Of("number", {"AlarmCmd"}) ++ Of("part", {"Info"})
AlarmCmdWrite == Writes({"AlarmCmd"}, {"Info"})
AlarmCmdRead  == [Reads(DOMAIN AlarmCmdFields) EXCEPT !.needs = {{"AlarmCmd"}}]

\* The key frame command is written under two names.
IFrameFields == Of("number", {"IFrameCmd", "IFameCmd"})
IFrameWrite == Writes(DOMAIN IFrameFields, {})
IFrameRead  == [Reads(DOMAIN IFrameFields) EXCEPT !.needs = {DOMAIN IFrameFields}]

DragZoomInFields == DragZoomType
DragZoomInWrite == Writes(DOMAIN DragZoomType, {})
DragZoomInRead  == Reads(DOMAIN DragZoomType)

\* The reader of DragZoomOut writes into the document it was given.
DragZoomOutFields == DragZoomType
DragZoomOutWrite == Writes(DOMAIN DragZoomType, {})
DragZoomOutRead  == Reads({})

HomePositionCmdFields == HomePositionType
HomePositionCmdWrite == Writes({"Enabled"}, {"ResetTime", "PresetIndex"})
HomePositionCmdRead ==
    [Reads(DOMAIN HomePositionCmdFields) EXCEPT !.needs = {{"Enabled"}}]

\* The element is always written, and refused when nothing is in it.
PtzPreciseFields == Of("part", {"PTZPreciseCtrl"})
PtzPreciseWrite == Writes({"PTZPreciseCtrl"}, {})
PtzPreciseRead  == [Reads({"PTZPreciseCtrl"}) EXCEPT !.needs = {{"PTZPreciseCtrl"}}]

DeviceUpgradeFields == DeviceUpgradeType
DeviceUpgradeWrite == Writes(DOMAIN DeviceUpgradeType, {})
DeviceUpgradeRead  == Reads(DOMAIN DeviceUpgradeType)

FormatSDFields == Of("number", {"FormatSDCard"})
FormatSDWrite == Writes({"FormatSDCard"}, {})
FormatSDRead  == [Reads({"FormatSDCard"}) EXCEPT !.needs = {{"FormatSDCard"}}]

TargetTrackFields ==
    Of("enum", {"TargetTrack"}) ++ Of("text", {"DeviceID2"}) ++ Of("part", {"TargetArea"})
TargetTrackWrite == Writes({"TargetTrack", "DeviceID2"}, {"TargetArea"})
TargetTrackRead  == [Reads(DOMAIN TargetTrackFields) EXCEPT !.needs = {{"TargetTrack"}}]

\* One configuration, under the name of its type.
DeviceConfigFields == Of("config", {"Config"})
DeviceConfigWrite == [Writes({"Config"}, {}) EXCEPT !.needs = {{"Config"}}]
DeviceConfigRead  == [Reads({"Config"}) EXCEPT !.needs = {{"Config"}}]

----------------------------------------------------------------------------
(* Notifications *)

KeepaliveFields == Of("result", {"Status"}) ++ Of("list", {"Info"})
KeepaliveWrite == Writes({"Status"}, {"Info"})
\* After the first device the reader looks for elements of another name.
KeepaliveRead ==
    [Reads(DOMAIN KeepaliveFields) EXCEPT !.needs = {{"Status"}}, !.first = {"Info"}]

AlarmRequestFields ==
    Of("text", {"StartAlarmPriority", "EndAlarmPriority", "AlarmMethod", "AlarmType",
                "StartAlarmTime", "EndAlarmTime"})
AlarmRequestWrite == Writes({}, DOMAIN AlarmRequestFields)
AlarmRequestRead  == Reads(DOMAIN AlarmRequestFields)

AlarmFields ==
    Of("text", {"AlarmPriority", "AlarmMethod", "AlarmTime", "AlarmDescription"}) ++
    Of("number", {"Longitude", "Latitude", "AlarmType", "EventType"}) ++
    Of("list", {"ExtraInfo"})
\* The type of the event is written inside the type of the alarm.
AlarmWrite ==
    [Writes({"AlarmPriority", "AlarmMethod", "AlarmTime", "AlarmDescription"},
            {"Longitude", "Latitude", "AlarmType", "EventType", "ExtraInfo"})
       EXCEPT !.under = [EventType |-> "AlarmType"]]
AlarmRead == Reads(DOMAIN AlarmFields)

\* A broadcast has no device, and only its reader insists on the parties.
BroadcastFields == Of("text", {"SourceID", "TargetID"}) ++ Of("raw", {"Reason"})
BroadcastWrite == Writes({"SourceID", "TargetID"}, {"Reason"})
BroadcastRead ==
    [Reads(DOMAIN BroadcastFields) EXCEPT !.needs = {{"SourceID"}, {"TargetID"}}]
BroadcastAnswerWrite == Writes({"Result"}, {})

SnapShotFinishedFields == Of("text", {"SessionID"}) ++ Of("list", {"SnapShotList"})
SnapShotFinishedWrite == [Writes(DOMAIN SnapShotFinishedFields, {}) EXCEPT !.needs = {{"SessionID"}}]
SnapShotFinishedRead ==
    [Reads(DOMAIN SnapShotFinishedFields) EXCEPT !.needs = {{"SessionID"}, {"SnapShotList"}}]

MobilePositionRequestFields == Of("number", {"Interval"})
MobilePositionRequestWrite == Writes({"Interval"}, {})
MobilePositionRequestRead  == Reads({"Interval"})

\* A time that is empty becomes the present one before it is written.
MobilePositionFields ==
    Of("stamp", {"Time"}) ++ Of("number", {"SumNum"}) ++ Of("items", {"DeviceList"})
MobilePositionWrite == Writes(DOMAIN MobilePositionFields, {})
MobilePositionRead  == Reads(DOMAIN MobilePositionFields)

MediaStatusFields == Of("text", {"NotifyType"})
MediaStatusWrite == [Writes({"NotifyType"}, {}) EXCEPT !.needs = {{"NotifyType"}}]
MediaStatusRead  == [Reads({"NotifyType"}) EXCEPT !.needs = {{"NotifyType"}}]

VideoUploadFields == Of("stamp", {"Time"}) ++ Of("optional", {"Longitude", "Latitude"})
VideoUploadWrite == Writes(DOMAIN VideoUploadFields, {})
VideoUploadRead  == [Reads(DOMAIN VideoUploadFields) EXCEPT !.needs = {{"Time"}}]

\* The reason is written under a second name too, which changes nothing.
UpgradeResultFields == ResultField ++ Of("text", {"SessionID", "Firmware"})
UpgradeResultWrite ==
    [Writes(DOMAIN UpgradeResultFields, {}) EXCEPT !.needs = {{"SessionID"}, {"Result"}}]
UpgradeResultRead ==
    [Reads(DOMAIN UpgradeResultFields) EXCEPT !.needs = {{"SessionID"}, {"Result"}}]

----------------------------------------------------------------------------
(* Everything one platform sends another of its own accord, by root element  *)
(* and command; the commands of DeviceControl by the element that names them *)

Request(root, cmd, format) == [root |-> root, cmd |-> cmd, format |-> format]

Queries ==
    [DeviceStatusQuery    |-> Request("Query", "DeviceStatus", Query),
     DeviceInfoQuery      |-> Request("Query", "DeviceInfo", Query),
     CatalogQuery         |-> Request("Query", "Catalog", Message(CatalogRequestFields, CatalogRequestWrite, CatalogRequestRead)),
     RecordInfoQuery      |-> Request("Query", "RecordInfo", Message(RecordRequestFields, RecordRequestWrite, RecordRequestRead)),
     ConfigDownloadQuery  |-> Request("Query", "ConfigDownload", Message(ConfigRequestFields, ConfigRequestWrite, ConfigRequestRead)),
     PresetQuery          |-> Request("Query", "PresetQuery", Query),
     HomePositionQuery    |-> Request("Query", "HomePositionQuery", Query),
     CruiseTrackListQuery |-> Request("Query", "CruiseTrackListQuery", Query),
     CruiseTrackQuery     |-> Request("Query", "CruiseTrackQuery", Message(CruiseRequestFields, CruiseRequestWrite, CruiseRequestRead)),
     PTZPositionQuery     |-> Request("Query", "PTZPosition", Query),
     SDCardStatusQuery    |-> Request("Query", "SDCardStatus", Query),
     AlarmQuery           |-> Request("Query", "Alarm", Message(AlarmRequestFields, AlarmRequestWrite, AlarmRequestRead)),
     MobilePositionQuery  |-> Request("Query", "MobilePosition", Message(MobilePositionRequestFields, MobilePositionRequestWrite, MobilePositionRequestRead))]

Controls ==
    [PTZCmd         |-> Request("Control", "DeviceControl", Control(PTZCmdFields, PTZCmdWrite, PTZCmdRead)),
     TeleBoot       |-> Request("Control", "DeviceControl", Control(TeleBootFields, TeleBootWrite, TeleBootRead)),
     RecordCmd      |-> Request("Control", "DeviceControl", Control(RecordCmdFields, RecordCmdWrite, RecordCmdRead)),
     GuardCmd       |-> Request("Control", "DeviceControl", Control(GuardCmdFields, GuardCmdWrite, GuardCmdRead)),
     AlarmCmd       |-> Request("Control", "DeviceControl", Control(AlarmCmdFields, AlarmCmdWrite, AlarmCmdRead)),
     IFrameCmd      |-> Request("Control", "DeviceControl", Control(IFrameFields, IFrameWrite, IFrameRead)),
     DragZoomIn     |-> Request("Control", "DeviceControl", Control(DragZoomInFields, DragZoomInWrite, DragZoomInRead)),
     DragZoomOut    |-> Request("Control", "DeviceControl", Control(DragZoomOutFields, DragZoomOutWrite, DragZoomOutRead)),
     HomePosition   |-> Request("Control", "DeviceControl", Control(HomePositionCmdFields, HomePositionCmdWrite, HomePositionCmdRead)),
     PTZPreciseCtrl |-> Request("Control", "DeviceControl", Control(PtzPreciseFields, PtzPreciseWrite, PtzPreciseRead)),
     DeviceUpgrade  |-> Request("Control", "DeviceControl", Control(DeviceUpgradeFields, DeviceUpgradeWrite, DeviceUpgradeRead)),
     FormatSDCard   |-> Request("Control", "DeviceControl", Control(FormatSDFields, FormatSDWrite, FormatSDRead)),
     TargetTrack    |-> Request("Control", "DeviceControl", Control(TargetTrackFields, TargetTrackWrite, TargetTrackRead)),
     DeviceConfig   |-> Request("Control", "DeviceConfig", Message(DeviceConfigFields, DeviceConfigWrite, DeviceConfigRead))]

Notifications ==
    [Broadcast              |-> Request("Notify", "Broadcast", Format(BroadcastFields, BroadcastWrite, BroadcastRead)),
     Keepalive              |-> Request("Notify", "Keepalive", Message(KeepaliveFields, KeepaliveWrite, KeepaliveRead)),
     Alarm                  |-> Request("Notify", "Alarm", Message(AlarmFields, AlarmWrite, AlarmRead)),
     CatalogNotify          |-> Request("Notify", "Catalog", Message(CatalogFields, CatalogWrite, CatalogRead)),
     MediaStatus            |-> Request("Notify", "MediaStatus", Message(MediaStatusFields, MediaStatusWrite, MediaStatusRead)),
     MobilePosition         |-> Request("Notify", "MobilePosition", Message(MobilePositionFields, MobilePositionWrite, MobilePositionRead)),
     PTZPositionNotify      |-> Request("Notify", "PTZPosition", Message(PTZPositionFields, PTZNotifyWrite, PTZNotifyRead)),
     UploadSnapShotFinished |-> Request("Notify", "UploadSnapShotFinished", Message(SnapShotFinishedFields, SnapShotFinishedWrite, SnapShotFinishedRead)),
     VideoUploadNotify      |-> Request("Notify", "VideoUploadNotify", Message(VideoUploadFields, VideoUploadWrite, VideoUploadRead)),
     DeviceUpgradeResult    |-> Request("Notify", "DeviceUpgradeResult", Message(UpgradeResultFields, UpgradeResultWrite, UpgradeResultRead))]

\* The answer to a command.
Responses ==
    [DeviceStatus         |-> Message(DeviceStatusFields, DeviceStatusWrite, DeviceStatusRead),
     DeviceInfo           |-> Message(DeviceInfoFields, DeviceInfoWrite, DeviceInfoRead),
     Catalog              |-> Message(CatalogFields, CatalogWrite, CatalogRead),
     RecordInfo           |-> Message(RecordInfoFields, RecordInfoWrite, RecordInfoRead),
     ConfigDownload       |-> Message(ConfigDownloadFields, ConfigDownloadWrite, ConfigDownloadRead),
     PresetQuery          |-> Message(PresetFields, PresetWrite, PresetRead),
     HomePositionQuery    |-> Message(HomePositionFields, HomePositionWrite, HomePositionRead),
     CruiseTrackListQuery |-> Message(CruiseListFields, CruiseListWrite, CruiseListRead),
     CruiseTrackQuery     |-> Message(CruiseFields, CruiseWrite, CruiseRead),
     PTZPosition          |-> Message(PTZPositionFields ++ ResultField, PTZPositionWrite, PTZPositionRead),
     SDCardStatus         |-> Message(SdCardFields, SdCardWrite, SdCardRead),
     DeviceControl        |-> Answer,
     DeviceConfig         |-> Answer,
     Alarm                |-> Answer,
     Broadcast            |-> Message(ResultField, BroadcastAnswerWrite, ResultRead)]
=============================================================================

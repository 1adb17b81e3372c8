---------------------------- MODULE ConfigTypes ----------------------------
(***************************************************************************)
(* The structs that travel inside messages: device configurations, the     *)
(* items of lists and the parameters of control commands (type_define.h),  *)
(* with the writer and the reader of each (type_define_ext.cpp and the     *)
(* message it belongs to).  See XmlFields for the tables.  A struct that   *)
(* is a member of another is a "part", a list of structs "items": whether  *)
(* it is there is the other's business, what is in it is its own.          *)
(***************************************************************************)
EXTENDS XmlFields

----------------------------------------------------------------------------
(* Device configurations *)

BasicParamCfgType ==
    Of("text", {"Name"}) ++
    Of("optional", {"Expiration", "HeartBeatInterval", "HeartBeatCount"})
BasicParamWrite == Writes(DOMAIN BasicParamCfgType, {})
BasicParamRead  == Reads(DOMAIN BasicParamCfgType)

VideoParamOptCfgType == Of("text", {"DownloadSpeed", "Resolution"})
VideoParamOptWrite == Writes(DOMAIN VideoParamOptCfgType, {})
VideoParamOptRead  == Reads(DOMAIN VideoParamOptCfgType)

\* Region of interest, and one of its items.
ROIParmaInfoItem == Of("optional", {"ROISeq", "TopLeft", "BottomRight", "ROIQP"})
ROIItemWrite == Writes(DOMAIN ROIParmaInfoItem, {})
ROIItemRead  == Reads(DOMAIN ROIParmaInfoItem)

ROIParmaInfo == Of("optional", {"ROIFlag", "ROINumber"}) ++ Of("items", {"Item"})
ROIWrite == Writes({"ROIFlag", "ROINumber"}, {"Item"})
ROIRead  == Reads(DOMAIN ROIParmaInfo)

SVACParamInfo ==
    Of("number", {"SVCSpaceDomainMode", "SVCTimeDomainMode"}) ++
    Of("text", {"SSVCRatioValue", "SSVCRatioSupportList"}) ++
    Of("optional", {"SVCSpaceSupportMode", "SVCTimeSupportMode"})
SVACParamWrite == Writes(DOMAIN SVACParamInfo, {})
SVACParamRead  == Reads(DOMAIN SVACParamInfo)

SurveillanceParamInfo == Of("number", {"TimeFlag", "OSDFlag", "AIFlag", "GISFlag"})
SurveillanceWrite == Writes(DOMAIN SurveillanceParamInfo, {})
SurveillanceRead  == Reads(DOMAIN SurveillanceParamInfo)

AudioParamInfo == Of("number", {"AudioRecognitionFlag"})

SVACEncodeCfgType == Of("part", {"ROIParma", "SVACParam", "SurveillanceParam", "AudioParam"})
SVACEncodeWrite == Writes({}, DOMAIN SVACEncodeCfgType)
SVACEncodeRead  == Reads(DOMAIN SVACEncodeCfgType)

SVCParamInfo == Of("optional", {"SVCSTMMode", "SVCSpaceSupportMode", "SVCTimeSupportMode"})
SVCParamWrite == Writes(DOMAIN SVCParamInfo, {})
SVCParamRead  == Reads(DOMAIN SVCParamInfo)

SVACDecodeCfgType == Of("part", {"SVCParam", "SurveillanceParam"})
SVACDecodeWrite == Writes({}, DOMAIN SVACDecodeCfgType)
SVACDecodeRead  == Reads(DOMAIN SVACDecodeCfgType)

VideoParamAttributeCfgTypeItem ==
    Of("number", {"StreamNumber"}) ++
    Of("text", {"VideoFormat", "Resolution", "FrameRate", "BitRateType", "VideoBitRate"})
VideoAttributeItemWrite == Writes(DOMAIN VideoParamAttributeCfgTypeItem, {})
VideoAttributeItemRead  == Reads(DOMAIN VideoParamAttributeCfgTypeItem)

\* Num is counted again on both sides.
VideoParamAttributeCfgType == Of("items", {"Item"})
VideoAttributeWrite == Writes({}, {"Item"})
VideoAttributeRead  == Reads({"Item"})

TimeSegment ==
    Of("number", {"StartHour", "StartMin", "StartSec", "StopHour", "StopMin", "StopSec"})
TimeSegmentWrite == Writes(DOMAIN TimeSegment, {})
TimeSegmentRead  == Reads(DOMAIN TimeSegment)

\* The segments of a day are written beside the day and read inside it.
RecordSchedule == Of("number", {"WeekDayNum", "TimeSegmentSumNum"}) ++ Of("items", {"TimeSegment"})
ScheduleWrite ==
    [Writes({"WeekDayNum", "TimeSegmentSumNum"}, {"TimeSegment"})
       EXCEPT !.tag = [TimeSegment |-> "../TimeSegment"]]
ScheduleRead  == Reads(DOMAIN RecordSchedule)

VideoRecordPlanCfgType ==
    Of("number", {"RecordEnable", "StreamNumber", "RecordScheduleSumNum"}) ++
    Of("items", {"RecordSchedule"})
RecordPlanWrite ==
    Writes({"RecordEnable", "StreamNumber", "RecordScheduleSumNum"}, {"RecordSchedule"})
RecordPlanRead  == Reads(DOMAIN VideoRecordPlanCfgType)

VideoAlarmRecordCfgType ==
    Of("number", {"RecordEnable", "StreamNumber"}) ++
    Of("optional", {"RecordTime", "PreRecordTime"})
AlarmRecordWrite == Writes(DOMAIN VideoAlarmRecordCfgType, {})
AlarmRecordRead  == Reads(DOMAIN VideoAlarmRecordCfgType)

\* A region is written into the mask, next to the list its item is in.
RegionListItem == Of("number", {"Seq"}) ++ Of("part", {"Point"})
RegionItemWrite ==
    [Writes(DOMAIN RegionListItem, {})
       EXCEPT !.tag = [Seq |-> "../../Seq", Point |-> "../../Point"]]
RegionItemRead  == Reads(DOMAIN RegionListItem)

PictureMaskClgType == Of("number", {"On", "SumNum"}) ++ Of("part", {"RegionList"})
PictureMaskWrite == Writes({"On", "SumNum"}, {"RegionList"})
PictureMaskRead  == Reads(DOMAIN PictureMaskClgType)

FrameMirrorCfgType == Of("number", {"FrameMirror"})
FrameMirrorWrite == Writes({"FrameMirror"}, {})
FrameMirrorRead  == Reads({"FrameMirror"})

AlarmReportCfgType == Of("number", {"MotionDetection", "FieldDetection"})
AlarmReportWrite == Writes(DOMAIN AlarmReportCfgType, {})
AlarmReportRead  == Reads(DOMAIN AlarmReportCfgType)

OSDCfgTypeTextItem ==
    Of("text", {"Text"}) ++ Of("number", {"X", "Y"}) ++ Of("optional", {"FontSize"})
OSDItemWrite == Writes(DOMAIN OSDCfgTypeTextItem, {})
OSDItemRead  == Reads(DOMAIN OSDCfgTypeTextItem)

OSDCfgType ==
    Of("number", {"Length", "Width", "TimeX", "TimeY", "TimeEnable", "TextEnable", "SumNum"}) ++
    Of("optional", {"TimeType", "FontSize"}) ++
    Of("items", {"Item"})
OSDWrite == Writes(DOMAIN OSDCfgType \ {"Item"}, {"Item"})
OSDRead  == Reads(DOMAIN OSDCfgType)

SnapShotCfgType == Of("number", {"SnapNum", "Interval"}) ++ Of("text", {"UploadURL", "SessionID"})
SnapShotWrite == Writes(DOMAIN SnapShotCfgType, {})
SnapShotRead  == Reads(DOMAIN SnapShotCfgType)

Configs ==
    [BasicParam          |-> Format(BasicParamCfgType, BasicParamWrite, BasicParamRead),
     VideoParamOpt       |-> Format(VideoParamOptCfgType, VideoParamOptWrite, VideoParamOptRead),
     ROIItem             |-> Format(ROIParmaInfoItem, ROIItemWrite, ROIItemRead),
     ROIParma            |-> Format(ROIParmaInfo, ROIWrite, ROIRead),
     SVACParam           |-> Format(SVACParamInfo, SVACParamWrite, SVACParamRead),
     SurveillanceParam   |-> Format(SurveillanceParamInfo, SurveillanceWrite, SurveillanceRead),
     AudioParam          |-> Format(AudioParamInfo, Writes(DOMAIN AudioParamInfo, {}), Reads(DOMAIN AudioParamInfo)),
     SVACEncodeConfig    |-> Format(SVACEncodeCfgType, SVACEncodeWrite, SVACEncodeRead),
     SVCParam            |-> Format(SVCParamInfo, SVCParamWrite, SVCParamRead),
     SVACDecodeConfig    |-> Format(SVACDecodeCfgType, SVACDecodeWrite, SVACDecodeRead),
     VideoAttributeItem  |-> Format(VideoParamAttributeCfgTypeItem, VideoAttributeItemWrite, VideoAttributeItemRead),
     VideoParamAttribute |-> Format(VideoParamAttributeCfgType, VideoAttributeWrite, VideoAttributeRead),
     TimeSegment         |-> Format(TimeSegment, TimeSegmentWrite, TimeSegmentRead),
     RecordSchedule      |-> Format(RecordSchedule, ScheduleWrite, ScheduleRead),
     VideoRecordPlan     |-> Format(VideoRecordPlanCfgType, RecordPlanWrite, RecordPlanRead),
     VideoAlarmRecord    |-> Format(VideoAlarmRecordCfgType, AlarmRecordWrite, AlarmRecordRead),
     RegionListItem      |-> Format(RegionListItem, RegionItemWrite, RegionItemRead),
     PictureMask         |-> Format(PictureMaskClgType, PictureMaskWrite, PictureMaskRead),
     FrameMirror         |-> Format(FrameMirrorCfgType, FrameMirrorWrite, FrameMirrorRead),
     AlarmReport         |-> Format(AlarmReportCfgType, AlarmReportWrite, AlarmReportRead),
     OSDItem             |-> Format(OSDCfgTypeTextItem, OSDItemWrite, OSDItemRead),
     OSDConfig           |-> Format(OSDCfgType, OSDWrite, OSDRead),
     SnapShotConfig      |-> Format(SnapShotCfgType, SnapShotWrite, SnapShotRead)]

\* The configurations a message names by type.
DeviceConfigTypes ==
    {"BasicParam", "VideoParamOpt", "SVACEncodeConfig", "SVACDecodeConfig",
     "VideoParamAttribute", "VideoRecordPlan", "VideoAlarmRecord", "PictureMask",
     "FrameMirror", "AlarmReport", "OSDConfig", "SnapShotConfig"}

----------------------------------------------------------------------------
(* Items of lists *)

\* Parental and Port are read through an std::optional, Status and Event are
\* not; BusinessGroupID has no reader.
ItemTypeInfo ==
    Of("text", {"DeviceID", "Name", "Manufacturer", "Model", "CivilCode", "Block", "Address",
                "ParentID", "SecurityLevelCode", "IPAddress", "Password", "BusinessGroupID"}) ++
    Of("optional", {"Parental", "RegisterWay", "Secrecy", "Port", "Longitude", "Latitude"}) ++
    Of("enum", {"Status", "Event"}) ++
    Of("part", {"Info"})
ItemTypeInfoWrite == Writes({"DeviceID"}, DOMAIN ItemTypeInfo \ {"DeviceID"})
ItemTypeInfoRead  == Reads(DOMAIN ItemTypeInfo \ {"BusinessGroupID"})

\* RecordSaveDays and GrassrootsCode have a default, which is written; when they
\* are cleared they are left out.
ItemTypeInfoDetail ==
    Of("text", {"PTZType", "PhotoelectricImagingType", "CapturePositionType", "Resolution",
                "StreamNumberList", "DownloadSpeed", "SSVCRatioSupportList", "PointCommonName",
                "MAC", "FunctionType", "EncodeType", "InstallTime", "ManagementUnit",
                "ContactInfo", "IndustrialClassification"}) ++
    Of("number", {"RoomType", "SupplyLightType", "SVCSpaceSupportMode", "SVCTimeSupportMode"}) ++
    Of("filled", {"RecordSaveDays", "GrassrootsCode"}) ++
    Of("optional", {"DirectionType", "MobileDeviceType", "HorizontalFieldAngle",
                    "VerticalFieldAngle", "MaxViewDistance", "PointType"})
DetailWrite ==
    LET always == {"RoomType", "SupplyLightType", "SVCSpaceSupportMode", "SVCTimeSupportMode"}
    IN  [Writes(always, DOMAIN ItemTypeInfoDetail \ always)
           EXCEPT !.tag = [DirectionType |-> "Direction"]]
DetailRead == Reads(DOMAIN ItemTypeInfoDetail)

\* An XML name ends before the blank (here _) that both sides put after FilePath.
ItemFileType ==
    Of("text", {"DeviceID", "Name", "FilePath", "Address", "StartTime", "EndTime", "Type",
                "RecorderID", "FileSize", "RecordLocation"}) ++
    Of("number", {"Secrecy"}) ++
    Of("optional", {"StreamNumber"})
ItemFileWrite == Writes({"Secrecy"}, DOMAIN ItemFileType \ {"Secrecy"})
ItemFileRead  == [Reads(DOMAIN ItemFileType) EXCEPT !.tag = [FilePath |-> "FilePath_"]]

ItemMobilePositionType ==
    Of("text", {"DeviceID", "CaptureTime"}) ++
    Of("number", {"Longitude", "Latitude"}) ++
    Of("optional", {"Speed", "Direction", "Altitude", "Height"})
ItemMobilePositionWrite ==
    Writes({"DeviceID", "CaptureTime", "Longitude", "Latitude"},
           {"Speed", "Direction", "Altitude", "Height"})
ItemMobilePositionRead == Reads(DOMAIN ItemMobilePositionType)

\* The item of the alarm status is written as "key" and read as "Item".
DeviceStatusAlarmStatusItem == Of("text", {"DeviceID"}) ++ Of("enum", {"DutyStatus"})
AlarmStatusItemWrite ==
    [Writes(DOMAIN DeviceStatusAlarmStatusItem, {})
       EXCEPT !.tag = [DeviceID |-> "key/DeviceID", DutyStatus |-> "key/DutyStatus"]]
AlarmStatusItemRead == Reads(DOMAIN DeviceStatusAlarmStatusItem)

PresetListItem == Of("text", {"PresetID", "PresetName"})
CruiseTrackListItemType == Of("number", {"Number"}) ++ Of("text", {"Name"})
CruisePointType == Of("number", {"PresetIndex", "StayTime", "Speed"})
SdCardInfoType ==
    Of("number", {"ID", "FormatProgress", "Capacity", "FreeSpace"}) ++
    Of("text", {"HddName", "Status"})

\* Their members are all written and all read.
Plain(fields) == Format(fields, Writes(DOMAIN fields, {}), Reads(DOMAIN fields))

----------------------------------------------------------------------------
(* Parameters of control commands *)

PtzCmdParams == Of("text", {"PresetName", "CruiseTrackName"})
\* An alarm method that was not chosen is the text "0".
AlarmCmdInfoType == Of("filled", {"AlarmMethod"}) ++ Of("text", {"AlarmType"})
DragZoomType == Of("number", {"Length", "Width", "MidPointX", "MidPointY", "LengthX", "LengthY"})
PTZPreciseCtrlType == Of("optional", {"Pan", "Tilt", "Zoom"})
DeviceUpgradeType == Of("text", {"Firmware", "FileURL", "Manufacturer", "SessionID"})
HomePositionType == Of("number", {"Enabled"}) ++ Of("optional", {"PresetIndex", "ResetTime"})

Items ==
    [ItemTypeInfo           |-> Format(ItemTypeInfo, ItemTypeInfoWrite, ItemTypeInfoRead),
     ItemTypeInfoDetail     |-> Format(ItemTypeInfoDetail, DetailWrite, DetailRead),
     ItemFile               |-> Format(ItemFileType, ItemFileWrite, ItemFileRead),
     ItemMobilePosition     |-> Format(ItemMobilePositionType, ItemMobilePositionWrite, ItemMobilePositionRead),
     AlarmStatusItem        |-> Format(DeviceStatusAlarmStatusItem, AlarmStatusItemWrite, AlarmStatusItemRead),
     PresetListItem         |-> Plain(PresetListItem),
     CruiseTrackListItem    |-> Plain(CruiseTrackListItemType),
     CruisePoint            |-> Plain(CruisePointType),
     SdCardInfo             |-> Plain(SdCardInfoType),
     PtzCmdParams           |-> Format(PtzCmdParams, Writes({}, DOMAIN PtzCmdParams), Reads(DOMAIN PtzCmdParams)),
     AlarmCmdInfo           |-> Plain(AlarmCmdInfoType),
     TargetArea             |-> Plain(DragZoomType),
     PTZPreciseCtrlType     |-> Plain(PTZPreciseCtrlType),
     HomePositionType       |-> Plain(HomePositionType)]
=============================================================================

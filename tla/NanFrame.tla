------------------------------- MODULE NanFrame -------------------------------
(***************************************************************************)
(* The frames on the air: how a device builds its beacons, its service     *)
(* discovery frames and its follow-ups (src/src/tx.c, src/src/ieee80211.c, *)
(* src/src/attributes.h, src/src/frame.h), as sequences of bytes.          *)
(*                                                                         *)
(* Widths are those of the structures.  Numbers go out in the byte order   *)
(* they are read back in (htole16 and le16toh).  A frame is assumed to fit *)
(* its buffer of BUF_MAX_LENGTH bytes, which that of a device with two     *)
(* hundred services of short infos does.                                   *)
(***************************************************************************)
EXTENDS NanWire, SequencesExt

CONSTANTS
    InfoLimit,          \* 256: an info of so many bytes goes to the extension
    Unread,             \* content that nobody reads
    Info,               \* a service specific info
    Fcs                 \* a check sequence

ASSUME FrameAssumption == InfoLimit \in Nat /\ InfoLimit >= 4

\* enum nan_attribute_type
MASTER_INDICATION_ATTRIBUTE == 0
CLUSTER_ATTRIBUTE == 1
SERVICE_DESCRIPTOR_ATTRIBUTE == 3
SERVICE_DESCRIPTOR_EXTENSION_ATTRIBUTE == 14
DEVICE_CAPABILITY_ATTRIBUTE == 15
NAN_AVAILABILITY_ATTRIBUTE == 18

\* src/src/frame.h
NAN_SYNC_BEACON_INTERVAL_TU == 512
NAN_DISCOVERY_BEACON_INTERVAL_TU == 100
NAN_OUI == 5271450      \* 50-6F-9A
NAN_OUI_TYPE_BEACON == 19
NAN_OUT_TYPE_SERVICE_DISCOVERY == 19
NAN_OUI_TYPE_ACTION == 24

\* Type and subtype of a management frame.
IEEE80211_STYPE_BEACON == 128
IEEE80211_STYPE_ACTION == 208

Opaque(width) == Field(Unread, width)

----------------------------------------------------------------------------
(* Headers: src and dst are the addresses of the message m.                *)

ieee80211_add_nan_header(m, type) ==
    Field(type, 2) \o Field(0, 2) \o Field(m.dst, 6) \o Field(m.src, 6)
        \o Field(m.cluster_id, 6) \o Opaque(2)

\* Any other type is that of another kind of access point.
IntervalOf(type) ==
    CASE type = "SYNC" -> NAN_SYNC_BEACON_INTERVAL_TU
      [] type = "DISCOVERY" -> NAN_DISCOVERY_BEACON_INTERVAL_TU
      [] OTHER -> 1

\* length is that of the information element, attributes included.
nan_add_beacon_header(m, length) ==
    ieee80211_add_nan_header(m, IEEE80211_STYPE_BEACON)
        \o Field(m.timestamp, 8) \o Field(IntervalOf(m.type), 2) \o Opaque(2)
        \o Opaque(1) \o Field(length, 1) \o Field(m.oui, 3)
        \o Field(NAN_OUI_TYPE_BEACON, 1)

nan_add_service_discovery_header(m) ==
    ieee80211_add_nan_header(m, IEEE80211_STYPE_ACTION)
        \o Opaque(1) \o Opaque(1) \o Field(m.oui, 3)
        \o Field(NAN_OUT_TYPE_SERVICE_DISCOVERY, 1)

----------------------------------------------------------------------------
(* Attributes. *)

\* The length is written last, once the contents are.
Attribute(id, contents) == Field(id, 1) \o Field(Len(contents), 2) \o contents

nan_add_master_indication_attribute(m) ==
    Field(MASTER_INDICATION_ATTRIBUTE, 1) \o Field(2, 2)
        \o Field(m.master_preference, 1) \o Field(m.random_factor, 1)

\* Mutant: the length is that of the whole structure.
ClusterOfWholeLength(m) ==
    Field(CLUSTER_ATTRIBUTE, 1) \o Field(16, 2)
        \o Field(m.anchor_master_rank, 8) \o Field(m.hop_count, 1) \o Field(m.ambtt, 4)

nan_add_cluster_attribute(m) ==
    Field(CLUSTER_ATTRIBUTE, 1) \o Field(13, 2)
        \o Field(m.anchor_master_rank, 8) \o Field(m.hop_count, 1) \o Field(m.ambtt, 4)

nan_add_device_capability_attribute == Attribute(DEVICE_CAPABILITY_ATTRIBUTE, Opaque(9))

nan_add_availability_attribute == Attribute(NAN_AVAILABILITY_ATTRIBUTE, Opaque(10))

\* Bits of a struct nan_service_descriptor_control, whose lowest two are the type.
MATCHING_FILTER == 4
RESPONSE_FILTER == 8
SERVICE_INFO == 16
BINDING_BITMAP == 64

Bit(present, bit) == IF present THEN bit ELSE 0

Has(control, bit) == (control \div bit) % 2 = 1

\* A filter: its length and so many bytes.
Filter(length) == Field(length, 1) \o Opaque(length)

InfoOf(s, width) == Field(s.info, width) \o Field(Info, s.info)

(***************************************************************************)
(* s describes the service; info is the length of its specific info, -1    *)
(* without one.  What precedes the info is never sent by this program but  *)
(* may be by others, whose frames its parser is written for.               *)
(***************************************************************************)
Foreign(s) ==
    (IF s.binding THEN Opaque(2) ELSE <<>>)
        \o (IF s.matching THEN Filter(1) ELSE <<>>)
        \o (IF s.response THEN Filter(2) ELSE <<>>)

InfoFits(s) == s.info >= 0 /\ s.info < InfoLimit

ControlOf(s) ==
    s.control_type + Bit(s.matching, MATCHING_FILTER) + Bit(s.response, RESPONSE_FILTER)
        + Bit(InfoFits(s), SERVICE_INFO) + Bit(s.binding, BINDING_BITMAP)

nan_add_service_descriptor_attribute(s) ==
    Attribute(SERVICE_DESCRIPTOR_ATTRIBUTE,
        Field(s.service_id, 6) \o Field(s.instance_id, 1)
            \o Field(s.requestor_instance_id, 1) \o Field(ControlOf(s), 1)
            \o Foreign(s)
            \o IF InfoFits(s) THEN InfoOf(s, 1) ELSE <<>>)

\* Bits of a struct nan_service_descriptor_extension_control.
RANGE_LIMIT == 256
UPDATE_INDICATOR == 512

\* Here, too, others may send what this program does not: a range limit, and
\* an info whose count is not its length.

nan_add_service_descriptor_extension_attribute(s) ==
    Attribute(SERVICE_DESCRIPTOR_EXTENSION_ATTRIBUTE,
        Field(s.instance_id, 1)
            \o Field(Bit(s.range, RANGE_LIMIT) + Bit(s.published, UPDATE_INDICATOR), 2)
            \o (IF s.range THEN Opaque(4) ELSE <<>>)
            \o (IF s.published THEN Field(s.update_indicator, 1) ELSE <<>>)
            \o (IF s.info >= InfoLimit THEN InfoOf(s, 2) ELSE <<>>)
            \o IF s.miscounted >= 0 THEN Field(s.miscounted, 2) \o Opaque(5) ELSE <<>>)

----------------------------------------------------------------------------
(* Frames: a header and the attributes, in their order. *)

BeaconAttributes(m) ==
    << nan_add_master_indication_attribute(m), nan_add_cluster_attribute(m) >>

nan_build_beacon_frame(m) ==
    LET attributes == FlattenSeq(BeaconAttributes(m)) IN
    nan_add_beacon_header(m, 4 + Len(attributes)) \o attributes

DescriptorsOf(s) ==
    << nan_add_service_descriptor_attribute(s),
       nan_add_service_descriptor_extension_attribute(s) >>

DiscoveryAttributes(m) ==
    << nan_add_device_capability_attribute, nan_add_availability_attribute >>
        \o FlattenSeq([ i \in DOMAIN m.services |-> DescriptorsOf(m.services[i]) ])

nan_build_service_discovery_frame(m) ==
    nan_add_service_discovery_header(m) \o FlattenSeq(DiscoveryAttributes(m))

\* A follow-up: the extension only for an info the descriptor does not take.
FollowUpAttributes(m) ==
    LET s == m.services[1] IN
    << nan_add_service_descriptor_attribute(s) >>
        \o IF s.info >= InfoLimit
           THEN << nan_add_service_descriptor_extension_attribute(s) >>
           ELSE <<>>

nan_transmit(m) ==
    nan_add_service_discovery_header(m) \o FlattenSeq(FollowUpAttributes(m))

\* Frames of others, which this program does not send: an action frame of
\* another type, and a frame that is neither beacon nor action frame.
ActionFrame(m) ==
    ieee80211_add_nan_header(m, IEEE80211_STYPE_ACTION)
        \o Opaque(2) \o Field(m.oui, 3) \o Field(m.oui_type, 1) \o Opaque(1)

DataFrame(m) == ieee80211_add_nan_header(m, 8) \o Opaque(2)

\* The frame of a message, without the radiotap header and the check sequence.
FrameOf(m) ==
    CASE m.kind = "beacon" -> nan_build_beacon_frame(m)
      [] m.kind = "discovery" -> nan_build_service_discovery_frame(m)
      [] m.kind = "follow_up" -> nan_transmit(m)
      [] m.kind = "action" -> ActionFrame(m)
      [] m.kind = "data" -> DataFrame(m)

AttributesOf(m) ==
    CASE m.kind = "beacon" -> BeaconAttributes(m)
      [] m.kind = "discovery" -> DiscoveryAttributes(m)
      [] m.kind = "follow_up" -> FollowUpAttributes(m)
      [] OTHER -> <<>>

\* A service, as far as its descriptor and its extension carry it: an info's length
\* is -1 without one.
IsService(s) ==
    /\ s.instance_id \in Nat /\ s.requestor_instance_id \in Nat
    /\ s.control_type \in 0 .. 3
    /\ s.update_indicator \in Nat
    /\ s.info \in Int /\ s.miscounted \in Int
    /\ {s.published, s.binding, s.matching, s.response, s.range} \subseteq BOOLEAN

(***************************************************************************)
(* The numbers that a message carries are unsigned; a beacon has those of  *)
(* a device's state, and a follow-up is about one service.                 *)
(***************************************************************************)
IsMessage(m) ==
    /\ m.kind \in {"beacon", "discovery", "follow_up", "action", "data"}
    /\ m.oui \in Nat
    /\ m.kind = "beacon" =>
          {m.timestamp, m.master_preference, m.random_factor, m.anchor_master_rank,
           m.hop_count, m.ambtt} \subseteq Nat
    /\ m.kind \in {"discovery", "follow_up"} =>
          /\ m.services \in Seq(Range(m.services))
          /\ \A i \in DOMAIN m.services : IsService(m.services[i])
    /\ m.kind = "follow_up" => Len(m.services) = 1

ieee80211_add_fcs(frame) == frame \o Field(Fcs, 4)
=============================================================================

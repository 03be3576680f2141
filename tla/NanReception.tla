----------------------------- MODULE NanReception -----------------------------
(***************************************************************************)
(* How a received frame is taken apart (src/src/rx.c, src/src/ieee80211.c):*)
(* header by header, attribute by attribute, with what each parser hands   *)
(* on before the next one finds that the frame is broken.                  *)
(*                                                                         *)
(* A frame arrives from this program or another, behind a radiotap header, *)
(* with or without its check sequence, and possibly cut short.  The flags  *)
(* of the radiotap header may be missing: nan_rx then goes on with what    *)
(* its variable happens to hold.  What becomes of the values handed on is  *)
(* NanDevice's and NanService's business.                                  *)
(***************************************************************************)
EXTENDS NanFrame

CONSTANTS
    Self,               \* the receiver's address
    Messages,           \* what may have been sent
    RadiotapLength,     \* of the header before a received frame
    Garbage             \* numbers a read may yield that meets other bytes

ASSUME ReceptionAssumption ==
    /\ RadiotapLength \in Nat
    /\ Garbage \subseteq Nat
    /\ \A m \in Messages : IsMessage(m)

\* enum RX_RESULT: below RX_OK are errors, above it reasons to ignore a frame.
RX_OK == 0
RX_IGNORE == 1
RX_IGNORE_FROM_SELF == 2
RX_IGNORE_FAILED_CRC == 4
RX_IGNORE_OUI == 7
RX_TOO_SHORT == -1
RX_UNEXPECTED_FORMAT == -2
RX_UNEXPECTED_TYPE == -3

RX_RESULT ==
    { RX_OK, RX_IGNORE, RX_IGNORE_FROM_SELF, RX_IGNORE_FAILED_CRC, RX_IGNORE_OUI,
      RX_TOO_SHORT, RX_UNEXPECTED_FORMAT, RX_UNEXPECTED_TYPE }

\* The next function to run.
Stage ==
    {"idle", "done", "radiotap", "fcs", "nan_rx", "nan_rx_beacon", "nan_rx_action", "next",
     "handle"}

VARIABLES
    sent,               \* history: the message whose frame this is
    has_fcs,            \* history: whether the frame ends with its check sequence
    flags,              \* what the driver says of that, or "missing"
    frame,              \* struct buf of the frame
    stage,
    in_beacon,          \* whose loop over attributes is running
    attribute_id,
    attribute_length,
    attribute_buf,
    result,
    parsed              \* the values handed on, in their order

vars == <<sent, has_fcs, flags, frame, stage, in_beacon, attribute_id, attribute_length,
          attribute_buf, result, parsed>>

NoBuf == buf_new_const(<<>>, 0)

Captured(m, fcs) ==
    Opaque(RadiotapLength) \o IF fcs THEN ieee80211_add_fcs(FrameOf(m)) ELSE FrameOf(m)

Init ==
    /\ sent \in Messages
    /\ has_fcs = FALSE
    /\ flags = "missing"
    /\ frame = NoBuf
    /\ stage = "idle"
    /\ in_beacon = FALSE
    /\ attribute_id = 0
    /\ attribute_length = 0
    /\ attribute_buf = NoBuf
    /\ result = RX_OK
    /\ parsed = <<>>

Done(r) ==
    /\ stage' = "done"
    /\ result' = r

Keep == UNCHANGED <<sent, has_fcs, flags>>

KeepAttribute == UNCHANGED <<in_beacon, attribute_id, attribute_length, attribute_buf>>

----------------------------------------------------------------------------
(* nan_receive_frame, nan_rx *)

\* A frame is captured up to some byte.
Receive ==
    /\ stage = "idle"
    /\ \E m \in Messages, fcs \in BOOLEAN,
          f \in {"missing", "none", "F_FCS", "F_BADFCS"} :
          \E cut \in 0 .. Len(Captured(m, fcs)) :
             /\ sent' = m
             /\ has_fcs' = fcs
             /\ flags' = f
             /\ frame' = buf_new_const(Captured(m, fcs), cut)
    /\ stage' = "radiotap"
    /\ UNCHANGED <<result, parsed>>
    /\ KeepAttribute

\* nan_rx has returned: the frame is freed.
Free ==
    /\ stage = "done"
    /\ stage' = "idle"
    /\ has_fcs' = FALSE
    /\ flags' = "missing"
    /\ frame' = NoBuf
    /\ in_beacon' = FALSE
    /\ attribute_id' = 0
    /\ attribute_length' = 0
    /\ attribute_buf' = NoBuf
    /\ result' = RX_OK
    /\ parsed' = <<>>
    /\ UNCHANGED sent

\* The radiotap iterator refuses a header that is not all there.
ParseRadiotap ==
    /\ stage = "radiotap"
    /\ frame' = buf_advance(frame, RadiotapLength)
    /\ IF frame'.error
       THEN Done(RX_UNEXPECTED_FORMAT)
       ELSE stage' = "fcs" /\ UNCHANGED result
    /\ UNCHANGED parsed
    /\ Keep /\ KeepAttribute

\* A missing flag is read from an uninitialised variable.
ParseFcs ==
    /\ stage = "fcs"
    /\ \E known \in IF flags = "missing" THEN {"none", "F_FCS", "F_BADFCS"} ELSE {flags} :
          IF known = "F_BADFCS"
          THEN Done(RX_IGNORE_FAILED_CRC) /\ UNCHANGED frame
          ELSE /\ frame' = IF known = "F_FCS" THEN buf_take(frame, 4) ELSE frame
               /\ IF frame'.error
                  THEN Done(RX_IGNORE_FAILED_CRC)
                  ELSE stage' = "nan_rx" /\ UNCHANGED result
    /\ UNCHANGED parsed
    /\ Keep /\ KeepAttribute

\* sizeof(struct ieee80211_hdr)
HdrSize == 24

\* A value of the header at an offset, as laid out by the structure.
Address(offset) == bytes_at(frame, offset, 6)

FrameControl(garbage) == value_at(frame, 0, 2, garbage)

ParseHeader ==
    /\ stage = "nan_rx"
    /\ IF buf_rest(frame) < HdrSize
       THEN Done(RX_TOO_SHORT) /\ UNCHANGED <<frame, parsed>>
       ELSE IF Address(10) = Field(Self, 6)
       THEN Done(RX_IGNORE_FROM_SELF) /\ UNCHANGED <<frame, parsed>>
       ELSE /\ frame' = buf_advance(frame, HdrSize)
            /\ parsed' = << [ dst |-> Address(4), src |-> Address(10), cluster_id |-> Address(16) ] >>
            /\ \E garbage \in Garbage :
                  CASE FrameControl(garbage) = IEEE80211_STYPE_BEACON ->
                          stage' = "nan_rx_beacon" /\ UNCHANGED result
                    [] FrameControl(garbage) = IEEE80211_STYPE_ACTION ->
                          stage' = "nan_rx_action" /\ UNCHANGED result
                    [] OTHER -> Done(RX_UNEXPECTED_TYPE)
    /\ Keep /\ KeepAttribute

----------------------------------------------------------------------------
(* nan_rx_beacon, nan_rx_action *)

\* The state before the loop over the attributes: its variables are not
\* initialised.
Iterate ==
    /\ stage' = "next"
    /\ in_beacon' = (stage = "nan_rx_beacon")
    /\ attribute_id' \in Garbage
    /\ attribute_length' \in Garbage
    /\ UNCHANGED <<attribute_buf, result>>

BeaconType(interval) ==
    CASE interval = NAN_DISCOVERY_BEACON_INTERVAL_TU -> "DISCOVERY"
      [] interval = NAN_SYNC_BEACON_INTERVAL_TU -> "SYNC"
      [] OTHER -> "UNKNOWN"

\* sizeof(struct nan_beacon_frame)
BeaconHeaderSize == 18

\* nan_parse_beacon_header; the peer is added before the attributes are read.
ParseBeaconHeader ==
    /\ stage = "nan_rx_beacon"
    /\ frame' = read(frame, BeaconHeaderSize)
    /\ \E garbage \in Garbage :
          LET timestamp == value_at(frame, 0, 8, garbage)
              interval == value_at(frame, 8, 2, garbage)
              oui == value_at(frame, 14, 3, garbage)
              oui_type == value_at(frame, 17, 1, garbage) IN
          IF frame'.error
          THEN Done(RX_TOO_SHORT) /\ KeepAttribute /\ UNCHANGED parsed
          ELSE IF oui # NAN_OUI \/ oui_type # NAN_OUI_TYPE_BEACON
          THEN Done(RX_IGNORE_OUI) /\ KeepAttribute /\ UNCHANGED parsed
          ELSE IF BeaconType(interval) = "UNKNOWN"
          THEN Done(RX_UNEXPECTED_TYPE) /\ KeepAttribute /\ UNCHANGED parsed
          ELSE /\ Iterate
               /\ parsed' = Append(parsed, [ type |-> BeaconType(interval),
                                             timestamp |-> timestamp ])
    /\ Keep

\* sizeof(struct nan_action_frame), a byte more than that of a service
\* discovery frame's header
ActionFrameSize == 7

ParseActionHeader ==
    /\ stage = "nan_rx_action"
    /\ UNCHANGED parsed
    /\ Keep
    /\ \E garbage \in Garbage :
          LET oui == value_at(frame, 2, 3, garbage)
              oui_type == value_at(frame, 5, 1, garbage) IN
          IF buf_rest(frame) < ActionFrameSize
          THEN Done(RX_TOO_SHORT) /\ KeepAttribute /\ UNCHANGED frame
          ELSE IF oui # NAN_OUI
          THEN Done(RX_IGNORE_OUI) /\ KeepAttribute /\ UNCHANGED frame
          ELSE IF oui_type = NAN_OUT_TYPE_SERVICE_DISCOVERY
          THEN Iterate /\ frame' = buf_advance(frame, ActionFrameSize - 1)
          ELSE IF oui_type = NAN_OUI_TYPE_ACTION
          THEN Done(RX_OK) /\ KeepAttribute /\ frame' = buf_advance(frame, ActionFrameSize)
          ELSE Done(RX_IGNORE) /\ KeepAttribute /\ UNCHANGED frame

----------------------------------------------------------------------------
(* NAN_ITERATE_ATTRIBUTES *)

\* The length as it stands after its read, which may have failed.
LengthRead(garbage) ==
    LET after_id == read(frame, 1) IN
    IF buf_rest(after_id) < 2
    THEN attribute_length
    ELSE value_at(after_id, 0, 2, garbage)

\* Mutant: bytes left over are no error.
EndUnchecked(buf) == RX_OK

\* Bytes left over are an error.
EndOfLoop(buf) == IF buf_rest(buf) > 0 THEN RX_UNEXPECTED_FORMAT ELSE RX_OK

\* nan_attribute_read_next: the contents are read by the length of the
\* attribute before if this one's is not all there.
ReadNextAttribute ==
    /\ stage = "next"
    /\ \E garbage_id, garbage_length \in Garbage :
          LET length == LengthRead(garbage_length)
              after_header == read(read(frame, 1), 2) IN
          /\ frame' = read(after_header, length)
          /\ attribute_id' = IF buf_rest(frame) < 1
                             THEN attribute_id
                             ELSE value_at(frame, 0, 1, garbage_id)
          /\ attribute_length' = length
          /\ IF frame'.error
             THEN Done(EndOfLoop(frame')) /\ UNCHANGED attribute_buf
             ELSE /\ attribute_buf' = buf_new_const(bytes_at(after_header, 0, length), length)
                  /\ stage' = "handle"
                  /\ UNCHANGED result
    /\ UNCHANGED <<in_beacon, parsed>>
    /\ Keep

\* What a parser returns ends the frame if it is an error.
Handled(buf, value) ==
    /\ IF buf.error
       THEN Done(RX_TOO_SHORT) /\ UNCHANGED parsed
       ELSE /\ stage' = "next"
            /\ result' = RX_OK
            /\ parsed' = Append(parsed, value)
    /\ UNCHANGED <<frame, in_beacon, attribute_id, attribute_length>>
    /\ Keep

ParseMasterIndication ==
    /\ stage = "handle" /\ in_beacon
    /\ attribute_id = MASTER_INDICATION_ATTRIBUTE
    /\ attribute_buf' = read(attribute_buf, 2)
    /\ \E garbage \in Garbage :
          Handled(attribute_buf',
                  [ master_preference |-> value_at(attribute_buf, 0, 1, garbage),
                    random_factor |-> value_at(attribute_buf, 1, 1, garbage) ])

ParseCluster ==
    /\ stage = "handle" /\ in_beacon
    /\ attribute_id = CLUSTER_ATTRIBUTE
    /\ attribute_buf' = read(attribute_buf, 13)
    /\ \E garbage \in Garbage :
          Handled(attribute_buf',
                  [ anchor_master_rank |-> value_at(attribute_buf, 0, 8, garbage),
                    hop_count |-> value_at(attribute_buf, 8, 1, garbage),
                    ambtt |-> value_at(attribute_buf, 9, 4, garbage) ])

----------------------------------------------------------------------------
(* Service descriptors. *)

\* A length of one byte and the bytes it counts, skipped.
SkipCounted(buf, garbage) == buf_advance(read(buf, 1), value_at(buf, 0, 1, garbage))

\* Mutant: the two filters are taken for one.
SkipOneFilter(buf, control, garbage) ==
    LET binding == IF Has(control, BINDING_BITMAP) THEN buf_advance(buf, 2) ELSE buf IN
    IF Has(control, MATCHING_FILTER) \/ Has(control, RESPONSE_FILTER)
    THEN SkipCounted(binding, garbage) ELSE binding

\* The optional parts before the info.
SkipFilters(buf, control, garbage) ==
    LET binding == IF Has(control, BINDING_BITMAP) THEN buf_advance(buf, 2) ELSE buf
        matching == IF Has(control, MATCHING_FILTER)
                    THEN SkipCounted(binding, garbage) ELSE binding IN
    IF Has(control, RESPONSE_FILTER) THEN SkipCounted(matching, garbage) ELSE matching

Control(buf, garbage) == value_at(buf, 8, 1, garbage)

\* Up to the info, and its length if there is one.
BeforeInfo(buf, garbage) == SkipFilters(read(buf, 9), Control(buf, garbage), garbage)

InfoLength(buf, garbage) == value_at(BeforeInfo(buf, garbage), 0, 1, garbage)

nan_parse_sda(buf, garbage) ==
    IF Has(Control(buf, garbage), SERVICE_INFO)
    THEN read(read(BeforeInfo(buf, garbage), 1), InfoLength(buf, garbage))
    ELSE BeforeInfo(buf, garbage)

\* struct nan_service_descriptor_attribute
Descriptor(buf, garbage) ==
    [ service_id |-> bytes_at(buf, 0, 6),
      instance_id |-> value_at(buf, 6, 1, garbage),
      requestor_instance_id |-> value_at(buf, 7, 1, garbage),
      control_type |-> Control(buf, garbage) % 4,
      info |-> IF Has(Control(buf, garbage), SERVICE_INFO)
               THEN bytes_at(BeforeInfo(buf, garbage), 1, InfoLength(buf, garbage))
               ELSE <<>> ]

\* The descriptors are collected, and dealt with after the last attribute if
\* the frame is accepted.
ParseSda ==
    /\ stage = "handle" /\ ~in_beacon
    /\ attribute_id = SERVICE_DESCRIPTOR_ATTRIBUTE
    /\ \E garbage \in Garbage :
          /\ attribute_buf' = nan_parse_sda(attribute_buf, garbage)
          /\ Handled(attribute_buf', Descriptor(attribute_buf, garbage))

\* Four bytes of the info are taken for an OUI and a type, whatever its length.
nan_parse_sdea(buf, length, garbage) ==
    LET control == value_at(buf, 1, 2, garbage)
        fixed == read(buf, 3)
        range == IF Has(control, RANGE_LIMIT) THEN buf_advance(fixed, 4) ELSE fixed
        update == IF Has(control, UPDATE_INDICATOR) THEN read(range, 1) ELSE range IN
    IF buf_position(update) + 2 < length
    THEN read(read(read(read(update, 2), 3), 1), value_at(update, 0, 2, garbage) - 4)
    ELSE update

\* The list this adds to is freed unread: nothing is handed on.
ParseSdea ==
    /\ stage = "handle" /\ ~in_beacon
    /\ attribute_id = SERVICE_DESCRIPTOR_EXTENSION_ATTRIBUTE
    /\ \E garbage \in Garbage :
          attribute_buf' = nan_parse_sdea(attribute_buf, attribute_length, garbage)
    /\ IF attribute_buf'.error
       THEN Done(RX_TOO_SHORT)
       ELSE stage' = "next" /\ result' = RX_OK
    /\ UNCHANGED <<frame, in_beacon, attribute_id, attribute_length, parsed>>
    /\ Keep

HandledIds ==
    IF in_beacon
    THEN {MASTER_INDICATION_ATTRIBUTE, CLUSTER_ATTRIBUTE}
    ELSE {SERVICE_DESCRIPTOR_ATTRIBUTE, SERVICE_DESCRIPTOR_EXTENSION_ATTRIBUTE}

IgnoreAttribute ==
    /\ stage = "handle"
    /\ attribute_id \notin HandledIds
    /\ stage' = "next"
    /\ result' = RX_IGNORE
    /\ UNCHANGED <<frame, parsed>>
    /\ Keep /\ KeepAttribute

Next ==
    \/ Receive
    \/ Free
    \/ ParseRadiotap
    \/ ParseFcs
    \/ ParseHeader
    \/ ParseBeaconHeader
    \/ ParseActionHeader
    \/ ReadNextAttribute
    \/ ParseMasterIndication
    \/ ParseCluster
    \/ ParseSda
    \/ ParseSdea
    \/ IgnoreAttribute

Spec == Init /\ [][Next]_vars

----------------------------------------------------------------------------
(* Properties. *)

(***************************************************************************)
(* No reader ever stands outside its buffer (src/src/wire.c): not for a    *)
(* frame cut anywhere, flags that are wrong or missing, contents read by   *)
(* another attribute's length, or an extension that counts fewer bytes     *)
(* than it takes off (nan_parse_sdea steps backwards then).                *)
(***************************************************************************)
TypeOK ==
    /\ stage \in Stage
    /\ InBounds(frame)
    /\ InBounds(attribute_buf)
    /\ attribute_length \in Nat
    /\ stage = "handle" =>
          /\ attribute_buf.size = attribute_length
          /\ attribute_buf.end = attribute_length
          /\ attribute_buf.current = 0
    /\ in_beacon \in BOOLEAN
    /\ result \in RX_RESULT

Addresses(m) ==
    [ dst |-> Field(m.dst, 6), src |-> Field(m.src, 6), cluster_id |-> Field(m.cluster_id, 6) ]

\* What a service descriptor tells its receiver.
DescriptorValue(s) ==
    [ service_id |-> Field(s.service_id, 6),
      instance_id |-> s.instance_id,
      requestor_instance_id |-> s.requestor_instance_id,
      control_type |-> s.control_type,
      info |-> IF s.info >= 0 /\ s.info < InfoLimit THEN Field(Info, s.info) ELSE <<>> ]

\* What a message tells its receiver, in the order of its frame.
Told(m) ==
    << Addresses(m) >> \o
    CASE m.kind = "beacon" ->
            << [ type |-> m.type, timestamp |-> m.timestamp ],
               [ master_preference |-> m.master_preference,
                 random_factor |-> m.random_factor ],
               [ anchor_master_rank |-> m.anchor_master_rank,
                 hop_count |-> m.hop_count, ambtt |-> m.ambtt ] >>
      [] m.kind \in {"discovery", "follow_up"} ->
            [ i \in DOMAIN m.services |-> DescriptorValue(m.services[i]) ]
      [] OTHER -> <<>>

(***************************************************************************)
(* Whatever is handed on was sent, in the order it was sent, also of a     *)
(* frame that is refused later (nan_rx_beacon writes the values of one     *)
(* attribute into the peer before it reads the next): a cut frame, wrong   *)
(* flags or a check sequence taken for an attribute only make it end       *)
(* sooner.                                                                 *)
(***************************************************************************)
HandedOnAsSent == IsPrefix(parsed, Told(sent))

\* A frame of its own kind that arrived whole, with flags that are true of it.
Whole ==
    /\ frame.size = Len(frame.data)
    /\ flags = IF has_fcs THEN "F_FCS" ELSE "none"
    /\ \/ sent.kind = "beacon" /\ sent.type \in {"SYNC", "DISCOVERY"}
       \/ /\ sent.kind \in {"discovery", "follow_up"}
          /\ \A i \in DOMAIN sent.services : sent.services[i].miscounted < 0
    /\ sent.src # Self
    /\ sent.oui = NAN_OUI

(***************************************************************************)
(* What one device builds (src/src/tx.c) another reads (src/src/rx.c) to   *)
(* the last attribute: the two sides agree on every length and position.   *)
(***************************************************************************)
WholeFramesAreRead ==
    stage = "done" /\ Whole => result = RX_OK /\ parsed = Told(sent)

\* Where the i-th attribute starts, counted in the captured bytes.
StartOf(m, i) ==
    LET attributes == AttributesOf(m) IN
    RadiotapLength + Len(FrameOf(m))
        - Len(FlattenSeq(SubSeq(attributes, i, Len(attributes))))

(***************************************************************************)
(* A frame that was cut within an attribute's contents is not accepted     *)
(* (NAN_ITERATE_ATTRIBUTES).  One cut within the id and length of an       *)
(* attribute is: what came before is complete.                             *)
(***************************************************************************)
NoneCutWithinContents ==
    stage = "done" /\ result = RX_OK =>
        \A i \in DOMAIN AttributesOf(sent) :
            frame.end > StartOf(sent, i) + 3
                => frame.end >= StartOf(sent, i) + Len(AttributesOf(sent)[i])
=============================================================================

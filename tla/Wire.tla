-------------------------------- MODULE Wire ---------------------------------
(***************************************************************************)
(* crates/farbus-protocol: the FarBus messages as encode writes and decode *)
(* reads them, and the 48-byte headers of USB/IP.                          *)
(*                                                                         *)
(* A message is [ty, body], its body a record.  Bytes are a sequence of    *)
(* pieces [w, v]: w bytes that stand for v.  A string or a block of data   *)
(* is [len, is], its length and its identity; numbers are themselves.  A   *)
(* piece is only read as what it was written if the reader asks for its    *)
(* exact width, so a reader that is out of step reads nothing.             *)
(***************************************************************************)
EXTENDS Integers, Sequences, SequencesExt

CONSTANT Samples        \* messages to try

VERSION == 2

\* (Mutation) The longest transfer, without what comes before its data.
OneTransfer == 65536

MaxPayload == 65600
MaxTransfer == 65536    \* usbip_forward.rs, host_usb.rs, urb.rs

Types ==
    [Hello |-> 1, Error |-> 2, Detach |-> 3, DeviceList |-> 4, PairRequest |-> 5,
     PairResponse |-> 6, AttachRequest |-> 7, AttachResponse |-> 8, UrbSubmit |-> 9,
     UrbComplete |-> 10, DeviceListRequest |-> 11, DetachRequest |-> 12,
     UrbUnlink |-> 13, UrbUnlinked |-> 14]

Speeds    == [Low |-> 1, Full |-> 2, High |-> 3, Super |-> 4]
Transfers == [Control |-> 1, Interrupt |-> 2, Bulk |-> 3, Isochronous |-> 4]
Codes     == [Unauthorized |-> 1, NotFound |-> 2, Conflict |-> 3, Unsupported |-> 4]

Width(bytes) ==
    LET upto[i \in 0..Len(bytes)] == IF i = 0 THEN 0 ELSE upto[i - 1] + bytes[i].w
    IN  upto[Len(bytes)]

-----------------------------------------------------------------------------
(* encode                                                                  *)

Piece(w, v) == <<[w |-> w, v |-> v]>>
EmptyBlock == [len |-> 0, is |-> "empty"]
Block(s) == IF s.len = 0 THEN <<>> ELSE Piece(s.len, s)

\* The encodings of a field, by its kind.  A bool is a byte.
Put(kind, v) ==
    CASE kind = "u8"  -> Piece(1, v)
      [] kind = "u16" -> Piece(2, v)
      [] kind \in {"u32", "i32"} -> Piece(4, v)
      [] kind = "raw" -> Piece(32, v)
      [] kind = "bool"     -> Piece(1, IF v THEN 1 ELSE 0)
      [] kind = "speed"    -> Piece(1, Speeds[v])
      [] kind = "transfer" -> Piece(1, Transfers[v])
      [] kind = "code"     -> Piece(2, Codes[v])
      [] kind \in {"str8", "data8"} -> Piece(1, v.len) \o Block(v)
      [] kind = "str16"    -> Piece(2, v.len) \o Block(v)
      [] kind = "data32"   -> Piece(4, v.len) \o Block(v)

\* The lengths that Put can write: put_u8_str, put_u16_str, u8::try_from.
Fits(kind, v) ==
    /\ kind \in {"str8", "data8"} => v.len <= 255
    /\ kind = "str16" => v.len <= 65535

PutAll(fields, body) == FlattenSeq([i \in DOMAIN fields |-> Put(fields[i][2], body[fields[i][1]])])
FitsAll(fields, body) == \A i \in DOMAIN fields : Fits(fields[i][2], body[fields[i][1]])

PutFields ==
    [Hello |-> << <<"protocol_min", "u8">>, <<"protocol_max", "u8">>,
                  <<"fingerprint", "raw">>, <<"hostname", "str8">> >>,
     Error |-> << <<"code", "code">>, <<"detail", "str16">> >>,
     Detach |-> << <<"device_id", "u32">> >>,
     DetachRequest |-> << <<"device_id", "u32">>, <<"auth_token", "raw">> >>,
     DeviceListRequest |-> << <<"auth_token", "raw">> >>,
     PairRequest |-> << <<"client_fingerprint", "raw">>, <<"pin_hash", "raw">>,
                        <<"client_name", "str8">> >>,
     PairResponse |-> << <<"success", "bool">>, <<"server_fingerprint", "raw">>,
                         <<"auth_token", "raw">> >>,
     AttachRequest |-> << <<"device_id", "u32">>, <<"auth_token", "raw">> >>,
     AttachResponse |-> << <<"device_id", "u32">>, <<"success", "bool">>,
                           <<"usbip_port", "u16">>, <<"bus_id", "str8">> >>,
     UrbSubmit |-> << <<"seq", "u32">>, <<"device_id", "u32">>, <<"endpoint", "u8">>,
                      <<"transfer", "transfer">>, <<"requested_length", "u32">>,
                      <<"data", "data32">> >>,
     UrbComplete |-> << <<"seq", "u32">>, <<"status", "i32">>, <<"data", "data32">> >>,
     UrbUnlink |-> << <<"seq", "u32">>, <<"device_id", "u32">> >>,
     UrbUnlinked |-> << <<"seq", "u32">>, <<"status", "i32">> >>]

PutDeviceFields ==
    << <<"id", "u32">>, <<"bus_id", "str8">>, <<"vid", "u16">>, <<"pid", "u16">>,
       <<"usb_class", "u8">>, <<"speed", "speed">>, <<"product", "str8">>,
       <<"exported", "bool">> >>
PutInterfaceFields ==
    << <<"interface_number", "u8">>, <<"interface_class", "u8">>,
       <<"interface_subclass", "u8">>, <<"interface_protocol", "u8">>,
       <<"endpoints", "data8">> >>

\* What the messages are: the values a field of a kind has, and records of them.
Blocks == {b \in [len : Nat, is : STRING] : b.len = 0 => b = EmptyBlock}

Values(kind) ==
    CASE kind \in {"u8", "u16", "u32"} -> Nat
      [] kind = "i32" -> Int
      [] kind = "raw" -> STRING
      [] kind = "bool" -> BOOLEAN
      [] kind = "speed" -> DOMAIN Speeds
      [] kind = "transfer" -> DOMAIN Transfers
      [] kind = "code" -> DOMAIN Codes
      [] kind \in {"str8", "data8", "str16", "data32"} -> Blocks

Names(fields) == {fields[i][1] : i \in DOMAIN fields}
HasValues(fields, r) == \A i \in DOMAIN fields : r[fields[i][1]] \in Values(fields[i][2])
Struct(names, r) == r = [n \in names |-> r[n]]
IsInterface(f) == Struct(Names(PutInterfaceFields), f) /\ HasValues(PutInterfaceFields, f)
IsDevice(d) ==
    /\ Struct(Names(PutDeviceFields) \cup {"interfaces"}, d)
    /\ HasValues(PutDeviceFields, d)
    /\ d.interfaces \in Seq(ToSet(d.interfaces))
    /\ \A f \in ToSet(d.interfaces) : IsInterface(f)
IsMessage(m) ==
    /\ Struct({"ty", "body"}, m)
    /\ IF m.ty = "DeviceList"
       THEN /\ Struct({"devices"}, m.body)
            /\ m.body.devices \in Seq(ToSet(m.body.devices))
            /\ \A d \in ToSet(m.body.devices) : IsDevice(d)
       ELSE /\ m.ty \in DOMAIN PutFields
            /\ Struct(Names(PutFields[m.ty]), m.body)
            /\ HasValues(PutFields[m.ty], m.body)

ASSUME SamplesAssumption == \A m \in Samples : IsMessage(m)

PutInterface(f) == PutAll(PutInterfaceFields, f)
PutDevice(d) ==
    PutAll(PutDeviceFields, d) \o Piece(1, Len(d.interfaces))
    \o FlattenSeq([i \in DOMAIN d.interfaces |-> PutInterface(d.interfaces[i])])

PutPayload(m) ==
    IF m.ty = "DeviceList"
    THEN Piece(2, Len(m.body.devices))
         \o FlattenSeq([i \in DOMAIN m.body.devices |-> PutDevice(m.body.devices[i])])
    ELSE PutAll(PutFields[m.ty], m.body)

FieldTooLong(m) ==
    IF m.ty = "DeviceList"
    THEN \/ Len(m.body.devices) > 65535
         \/ \E d \in ToSet(m.body.devices) :
              \/ ~FitsAll(PutDeviceFields, d)
              \/ Len(d.interfaces) > 255
              \/ \E f \in ToSet(d.interfaces) : ~FitsAll(PutInterfaceFields, f)
    ELSE ~FitsAll(PutFields[m.ty], m.body)

Ok(x) == [ok |-> TRUE, is |-> x]
Err(e) == [ok |-> FALSE, is |-> e]

Header(ty, len) == [magic |-> "FARB", version |-> VERSION, ty |-> ty, len |-> len]

encode(m) ==
    IF FieldTooLong(m) THEN Err("FieldTooLong")
    ELSE LET payload == PutPayload(m)
         IN  IF Width(payload) > MaxPayload THEN Err("PayloadTooLarge")
             ELSE Ok([header |-> Header(Types[m.ty], Width(payload)), payload |-> payload])

-----------------------------------------------------------------------------
(* decode.  The cursor is the pieces that are left; a read that fails      *)
(* leaves an error for good.                                               *)

Cursor(rest) == [ok |-> TRUE, rest |-> rest, v |-> 0]
Failed == [ok |-> FALSE, rest |-> <<>>, v |-> 0]

Take(cur, n) ==
    IF ~cur.ok \/ cur.rest = <<>> \/ Head(cur.rest).w # n THEN Failed
    ELSE [ok |-> TRUE, rest |-> Tail(cur.rest), v |-> Head(cur.rest).v]

\* The name that has the code in a table, or InvalidPayload.
Named(cur, table) ==
    LET names == {n \in DOMAIN table : table[n] = cur.v}
    IN  IF ~cur.ok \/ names = {} THEN Failed ELSE [cur EXCEPT !.v = CHOOSE n \in names : TRUE]

Flag(cur) == IF cur.ok /\ cur.v \in {0, 1} THEN [cur EXCEPT !.v = (@ = 1)] ELSE Failed

\* A length of n bytes and as many bytes as it says.
TakeBlock(cur, n) ==
    LET len == Take(cur, n)
    IN  IF len.ok /\ len.v = 0 THEN [len EXCEPT !.v = EmptyBlock] ELSE Take(len, len.v)

Get(kind, cur) ==
    CASE kind = "u8"  -> Take(cur, 1)
      [] kind = "u16" -> Take(cur, 2)
      [] kind \in {"u32", "i32"} -> Take(cur, 4)
      [] kind = "raw" -> Take(cur, 32)
      [] kind = "bool"     -> Flag(Take(cur, 1))
      [] kind = "speed"    -> Named(Take(cur, 1), Speeds)
      [] kind = "transfer" -> Named(Take(cur, 1), Transfers)
      [] kind = "code"     -> Named(Take(cur, 2), Codes)
      [] kind \in {"str8", "data8"} -> TakeBlock(cur, 1)
      [] kind = "str16"    -> TakeBlock(cur, 2)
      [] kind = "data32"   -> TakeBlock(cur, 4)

\* The fields one after the other, as a record.
GetAll(fields, cur) ==
    LET after[i \in 0..Len(fields)] ==
            IF i = 0 THEN cur ELSE Get(fields[i][2], after[i - 1])
        At(name) == CHOOSE i \in DOMAIN fields : fields[i][1] = name
    IN  [after[Len(fields)] EXCEPT !.v =
            [name \in Names(fields) |-> after[At(name)].v]]

\* A count of n bytes and as many items as it says.
GetList(Item(_), cur, n) ==
    LET count == Take(cur, n)
        after[i \in 0..count.v] == IF i = 0 THEN count ELSE Item(after[i - 1])
    IN  IF count.ok
        THEN [after[count.v] EXCEPT !.v = [i \in 1..count.v |-> after[i].v]]
        ELSE Failed

GetFields ==
    [Hello |-> << <<"protocol_min", "u8">>, <<"protocol_max", "u8">>,
                  <<"fingerprint", "raw">>, <<"hostname", "str8">> >>,
     Error |-> << <<"code", "code">>, <<"detail", "str16">> >>,
     Detach |-> << <<"device_id", "u32">> >>,
     DetachRequest |-> << <<"device_id", "u32">>, <<"auth_token", "raw">> >>,
     DeviceListRequest |-> << <<"auth_token", "raw">> >>,
     PairRequest |-> << <<"client_fingerprint", "raw">>, <<"pin_hash", "raw">>,
                        <<"client_name", "str8">> >>,
     PairResponse |-> << <<"success", "bool">>, <<"server_fingerprint", "raw">>,
                         <<"auth_token", "raw">> >>,
     AttachRequest |-> << <<"device_id", "u32">>, <<"auth_token", "raw">> >>,
     AttachResponse |-> << <<"device_id", "u32">>, <<"success", "bool">>,
                           <<"usbip_port", "u16">>, <<"bus_id", "str8">> >>,
     UrbSubmit |-> << <<"seq", "u32">>, <<"device_id", "u32">>, <<"endpoint", "u8">>,
                      <<"transfer", "transfer">>, <<"requested_length", "u32">>,
                      <<"data", "data32">> >>,
     UrbComplete |-> << <<"seq", "u32">>, <<"status", "i32">>, <<"data", "data32">> >>,
     UrbUnlink |-> << <<"seq", "u32">>, <<"device_id", "u32">> >>,
     UrbUnlinked |-> << <<"seq", "u32">>, <<"status", "i32">> >>]

GetDeviceFields ==
    << <<"id", "u32">>, <<"bus_id", "str8">>, <<"vid", "u16">>, <<"pid", "u16">>,
       <<"usb_class", "u8">>, <<"speed", "speed">>, <<"product", "str8">>,
       <<"exported", "bool">> >>

\* (Mutation) Subclass and protocol are swapped.
GetInterfaceFieldsSwapped ==
    << <<"interface_number", "u8">>, <<"interface_class", "u8">>,
       <<"interface_protocol", "u8">>, <<"interface_subclass", "u8">>,
       <<"endpoints", "data8">> >>

GetInterfaceFields ==
    << <<"interface_number", "u8">>, <<"interface_class", "u8">>,
       <<"interface_subclass", "u8">>, <<"interface_protocol", "u8">>,
       <<"endpoints", "data8">> >>

GetInterface(cur) == GetAll(GetInterfaceFields, cur)
GetDevice(cur) ==
    LET device == GetAll(GetDeviceFields, cur)
        list == GetList(GetInterface, device, 1)
    IN  [list EXCEPT !.v = [n \in Names(GetDeviceFields) \cup {"interfaces"} |->
                                IF n = "interfaces" THEN list.v ELSE device.v[n]]]

parse_payload(ty, payload) ==
    IF ty = "DeviceList"
    THEN LET list == GetList(GetDevice, Cursor(payload), 2)
         IN  [list EXCEPT !.v = [devices |-> list.v]]
    ELSE GetAll(GetFields[ty], Cursor(payload))

finish(cur) == cur.ok /\ cur.rest = <<>>

\* Truncated and InvalidPayload are both Malformed here.
decode(frame) ==
    LET h == frame.header
        named == {n \in DOMAIN Types : Types[n] = h.ty}
    IN  IF h.magic # "FARB" THEN Err("BadMagic")
        ELSE IF h.version # VERSION THEN Err("UnsupportedVersion")
        ELSE IF h.len > MaxPayload THEN Err("PayloadTooLarge")
        ELSE IF Width(frame.payload) # h.len THEN Err("Malformed")
        ELSE IF named = {} THEN Err("UnknownType")
        ELSE LET ty == CHOOSE n \in named : TRUE
                 cur == parse_payload(ty, frame.payload)
             IN  IF finish(cur) THEN Ok([ty |-> ty, body |-> cur.v]) ELSE Err("Malformed")

-----------------------------------------------------------------------------
(* USB/IP headers: field -> offset, as encode and as decode have it.  The  *)
(* first four bytes are the command, and setup takes eight.                *)

CmdSubmitPut ==
    [seqnum |-> 4, devid |-> 8, direction |-> 12, ep |-> 16, transfer_flags |-> 20,
     transfer_buffer_length |-> 24, start_frame |-> 28, number_of_packets |-> 32,
     interval |-> 36, setup |-> 40]
CmdSubmitGet ==
    [seqnum |-> 4, devid |-> 8, direction |-> 12, ep |-> 16, transfer_flags |-> 20,
     transfer_buffer_length |-> 24, start_frame |-> 28, number_of_packets |-> 32,
     interval |-> 36, setup |-> 40]
RetSubmitPut ==
    [seqnum |-> 4, devid |-> 8, direction |-> 12, ep |-> 16, status |-> 20,
     actual_length |-> 24, start_frame |-> 28, number_of_packets |-> 32,
     error_count |-> 36, setup |-> 40]
RetSubmitGet ==
    [seqnum |-> 4, devid |-> 8, direction |-> 12, ep |-> 16, status |-> 20,
     actual_length |-> 24, start_frame |-> 28, number_of_packets |-> 32,
     error_count |-> 36, setup |-> 40]
CmdUnlinkGet == [seqnum |-> 4, devid |-> 8, direction |-> 12, ep |-> 16, unlink_seqnum |-> 20]
RetUnlinkPut == [seqnum |-> 4, devid |-> 8, direction |-> 12, ep |-> 16, status |-> 20]

\* The header of a packet whose fields are the names themselves.
UsbipEncode(put) == [at \in {put[n] : n \in DOMAIN put} |-> CHOOSE n \in DOMAIN put : put[n] = at]
UsbipDecode(get, bytes) == [n \in DOMAIN get |-> bytes[get[n]]]

\* urb_submit_data: what an URB carries to the server.
UrbDataLen(ep, direction, length) ==
    IF ep = 0 THEN 8 + (IF direction = 0 THEN length ELSE 0)
    ELSE IF direction = 0 THEN length ELSE 0

UrbOut(ep, direction, length) ==
    [ty |-> "UrbSubmit",
     body |-> [seq |-> 1, device_id |-> 1, endpoint |-> ep, transfer |-> "Bulk",
               requested_length |-> length,
               data |-> [len |-> UrbDataLen(ep, direction, length), is |-> "data"]]]
UrbBack(length) ==
    [ty |-> "UrbComplete",
     body |-> [seq |-> 1, status |-> 0, data |-> [len |-> length, is |-> "data"]]]

-----------------------------------------------------------------------------
(* The devices as USB/IP lists them (usbip_proxy.rs, usbip_forward.rs).    *)

\* n bytes that end with a zero, however long the string is.
padded(s, n) == Piece(n, [s EXCEPT !.len = IF @ < n THEN @ ELSE n - 1])

\* (Mutation) The number of interfaces, zero included.
niface_bare(d) == IF Len(d.interfaces) > 255 THEN 1 ELSE Len(d.interfaces)

niface(d) == IF Len(d.interfaces) \in 1..255 THEN Len(d.interfaces) ELSE 1

encode_device_header(d) ==
    padded([len |-> 21 + d.bus_id.len, is |-> "path"], 256) \o padded(d.bus_id, 32)
    \o Piece(4, "busnum") \o Piece(4, d.id)
    \o Piece(4, IF d.speed = "Super" THEN 5 ELSE Speeds[d.speed])
    \o Piece(2, d.vid) \o Piece(2, d.pid) \o Piece(2, 256)
    \o Piece(1, d.usb_class) \o Piece(1, 0) \o Piece(1, 0) \o Piece(1, 1) \o Piece(1, 1)
    \o Piece(1, niface(d))

\* A device without interfaces gets one of the class of the device.
encode_interfaces(d) ==
    LET Record(class, subclass, protocol) ==
            Piece(1, class) \o Piece(1, subclass) \o Piece(1, protocol) \o Piece(1, 0)
    IN  IF d.interfaces = <<>> THEN Record(d.usb_class, 0, 0)
        ELSE FlattenSeq([i \in DOMAIN d.interfaces |->
                 LET f == d.interfaces[i]
                 IN  Record(f.interface_class, f.interface_subclass, f.interface_protocol)])

-----------------------------------------------------------------------------

\* decode undoes encode and accepts nothing else: every message that encode
\* takes, at the limits of the lengths and with nested lists, reads back as it
\* was, and neither a payload that ends early nor one that goes on is taken for
\* a message, even when the header says exactly how long it is (lib.rs, where
\* encode and parse_payload describe each layout by hand).
Exact(m) ==
    LET p == encode(m).is.payload
        Decoded(q) == decode([header |-> Header(Types[m.ty], Width(q)), payload |-> q])
    IN  /\ decode(encode(m).is) = Ok(m)
        /\ \A n \in 0..(Len(p) - 1) : ~Decoded(SubSeq(p, 1, n)).ok
        /\ ~Decoded(Append(p, [w |-> 1, v |-> 0])).ok

\* The same of the USB/IP headers, and all four kinds have what they share at
\* the same place (usbip.rs).
UsbipExact ==
    /\ UsbipDecode(CmdSubmitGet, UsbipEncode(CmdSubmitPut)) = [n \in DOMAIN CmdSubmitPut |-> n]
    /\ UsbipDecode(RetSubmitGet, UsbipEncode(RetSubmitPut)) = [n \in DOMAIN RetSubmitPut |-> n]
    /\ \A n \in {"seqnum", "devid", "direction", "ep"} :
         CmdUnlinkGet[n] = RetUnlinkPut[n] /\ RetUnlinkPut[n] = RetSubmitPut[n]

\* What one end writes the other reads back as it was, and takes nothing else
\* for a message: both descriptions of every layout agree (farbus-protocol).
LayoutsAgree == UsbipExact /\ \A m \in Samples : encode(m).ok => Exact(m)

\* A transfer of the largest size that the forwarder lets through can be sent,
\* in both directions and with the setup packet before it (usbip_forward.rs:290
\* and host_usb.rs:166 against MAX_PAYLOAD): no URB ends its connection.
TransfersFit ==
    \A length \in 0..MaxTransfer :
        /\ \A ep \in {0, 1}, direction \in {0, 1} : encode(UrbOut(ep, direction, length)).ok
        /\ encode(UrbBack(length)).ok

\* A device that came over the wire is listed to USB/IP clients so that they do
\* not lose step: a header of 312 bytes, whose last one says how many records
\* of four bytes follow (encode_device_header and encode_interfaces, which
\* count the interfaces independently).
ListedInStep ==
    \A m \in {x \in Samples : x.ty = "DeviceList" /\ encode(x).ok} :
        \A d \in ToSet(m.body.devices) :
            LET header == encode_device_header(d)
            IN  /\ Width(header) = 312
                /\ Width(encode_interfaces(d)) = 4 * Last(header).v
=============================================================================

------------------------------- MODULE MCLink --------------------------------
\* A small instance of a client's connection, with frames of two to four bytes.
EXTENDS Link

Addresses == <<[v6 |-> FALSE, peer |-> "server"], [v6 |-> TRUE, peer |-> "silent"],
               [v6 |-> TRUE, peer |-> "server"]>>

\* Starts and crashes with dialling; a crash or a loss and the way back; and
\* calls on a connection that may be lost; and more calls at a time than the
\* session's queue, writer and reader hold (OutCap + 2).
Explored ==
    {[from |-> "cold",      starts |-> 3, dials |-> 1, calls |-> 0, losses |-> 0],
     [from |-> "known",     starts |-> 1, dials |-> 2, calls |-> 1, losses |-> 0],
     [from |-> "connected", starts |-> 0, dials |-> 0, calls |-> 2, losses |-> 1],
     [from |-> "connected", starts |-> 0, dials |-> 0, calls |-> 4, losses |-> 0]}

\* Messages of every type, at the limits of their fields.
Text(n) == IF n = 0 THEN EmptyBlock ELSE [len |-> n, is |-> "text"]
Interface(n) ==
    [interface_number |-> 0, interface_class |-> 3, interface_subclass |-> 1,
     interface_protocol |-> 2, endpoints |-> Text(n)]
Device(product, interfaces) ==
    [id |-> 7, bus_id |-> Text(3), vid |-> 11, pid |-> 12, usb_class |-> 0, speed |-> "High",
     product |-> Text(product), exported |-> TRUE, interfaces |-> interfaces]

SampleMessages ==
    LET Of(type, body) == [ty |-> type, body |-> body]
    IN  {Of("Hello", [protocol_min |-> 1, protocol_max |-> 2, fingerprint |-> "f",
                      hostname |-> Text(n)]) : n \in {0, 255, 256}}
        \cup {Of("Error", [code |-> c, detail |-> Text(n)]) :
                 c \in DOMAIN Codes, n \in {0, 65535, 65536}}
        \cup {Of("Detach", [device_id |-> 7]),
              Of("DetachRequest", [device_id |-> 7, auth_token |-> "t"]),
              Of("AttachRequest", [device_id |-> 7, auth_token |-> "t"]),
              Of("DeviceListRequest", [auth_token |-> "t"]),
              Of("PairRequest", [client_fingerprint |-> "f", pin_hash |-> "h",
                                 client_name |-> Text(5)]),
              Of("UrbUnlink", [seq |-> 3, device_id |-> 7]),
              Of("UrbUnlinked", [seq |-> 3, status |-> -104])}
        \cup {Of("PairResponse", [success |-> b, server_fingerprint |-> "f",
                                  auth_token |-> "t"]) : b \in BOOLEAN}
        \cup {Of("AttachResponse", [device_id |-> 7, success |-> b, usbip_port |-> 3240,
                                    bus_id |-> Text(3)]) : b \in BOOLEAN}
        \cup {Of("UrbSubmit", [seq |-> 3, device_id |-> 7, endpoint |-> 1, transfer |-> t,
                               requested_length |-> 64, data |-> Text(n)]) :
                 t \in DOMAIN Transfers, n \in {0, 65582, 65583}}
        \cup {Of("UrbComplete", [seq |-> 3, status |-> -13, data |-> Text(n)]) :
                 n \in {0, 65588, 65589}}
        \cup {Of("DeviceList", [devices |-> ds]) :
                 ds \in {<<>>, <<Device(255, <<>>)>>, <<Device(256, <<>>)>>,
                         <<Device(0, <<Interface(0), Interface(2)>>), Device(9, <<Interface(255)>>)>>,
                         <<Device(9, <<Interface(256)>>)>>}}
=============================================================================

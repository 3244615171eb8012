------------------------------ MODULE NanFrames ------------------------------
(***************************************************************************)
(* The frames of NAN on the ESP32 (esp-nan-aware/nan.c, beacons.c): what   *)
(* the three senders put in a frame, and what the receiving side of the    *)
(* same code makes of it.  NanEsp says when frames are sent.               *)
(*                                                                         *)
(* A frame has a length and attributes at offsets; of a byte only what the *)
(* receiver decides by is kept.  External: the radio delivers a frame with *)
(* the four bytes of its checksum at the end.                              *)
(***************************************************************************)
EXTENDS Naturals

CONSTANTS
    Lengths,      \* lengths of messages given to nanSendNow
    BufferSize    \* sizeof(sendBuffer)

VARIABLE frame    \* the frame sent last

Header == 30      \* sizeof(nanHeader), NAN_ACTION_START
Checksum == 4
Sync == <<0, 2>>  \* the bytes of the interval that mark a sync beacon

\* An attribute: tag, the two bytes of its length, and what a service descriptor
\* holds after service and instance ids: control and length of the data.
Attribute(tag, size) ==
    [tag |-> tag, lo |-> size % 256, hi |-> size \div 256, control |-> 0, tlen |-> 0]
Descriptor(size, control, tlen) ==
    [Attribute(3, size) EXCEPT !.control = control, !.tlen = tlen]

\* The size of an attribute, from its two bytes.
Size(a) == 256 * a.hi + a.lo

nanDeviceCapabilities == Attribute(15, 9)
nanAvailability == Attribute(18, 27)
nanServiceExtension == Attribute(14, 4)
nanServiceDescriptor == Descriptor(26, 16, 16)

Beacon == [kind |-> "beacon", len |-> 72, interval |-> Sync, ie |-> 34, at |-> <<>>]
Action(len, at) ==
    [kind |-> "action", len |-> len, interval |-> <<0, 0>>, ie |-> 0, at |-> at]

\* As stopped or restarted: nothing was sent.
Init == frame = [kind |-> "none"]

-----------------------------------------------------------------------------
(* Senders *)

\* nanSendPublish: four tables, each of 3 bytes and the size in it.  The type,
\* the requestor and the data are not used.
nanSendPublish(type) ==
    LET availability == Header + 3 + 9
        extension == availability + 3 + 27
        descriptor == extension + 3 + 4
        at == [o \in {Header, availability, extension, descriptor} |->
                  IF o = Header THEN nanDeviceCapabilities
                  ELSE IF o = availability THEN nanAvailability
                  ELSE IF o = extension THEN nanServiceExtension
                  ELSE nanServiceDescriptor]
    IN  frame' = Action(descriptor + 3 + 26, at)

\* Mutant of nanSendNow: a long message is not cut.
SendNowMutant(len) ==
    frame' = Action(Header + 13 + len,
                    [o \in {Header} |-> Descriptor(len + 10, 18, len % 256)])

\* nanSendNow: a follow-up with at most 255 bytes of the message.
nanSendNow(len) ==
    LET data == IF len > 255 THEN 255 ELSE len
    IN  frame' = Action(Header + 13 + data,
                        [o \in {Header} |-> Descriptor(data + 10, 18, data % 256)])

\* nanSendSync: a beacon with one information element.
nanSendSync(interval) ==
    frame' = [Beacon EXCEPT !.interval = <<interval % 256, (interval \div 256) % 256>>]

Next ==
    \/ \E type \in {0, 1} : nanSendPublish(type)
    \/ \E len \in Lengths : nanSendNow(len)
    \/ nanSendSync(512)

-----------------------------------------------------------------------------
(* The receiver *)

\* handleDAF's walk from offset next over a frame received with length len: the
\* service descriptors met, and how the walk ends.  An offset where no attribute
\* begins would have data read as one ("astray").
Walk(f, len) ==
    LET walk[next \in Nat] ==
          IF next >= len - Checksum THEN [met |-> {}, end |-> "done"]
          ELSE IF next \notin DOMAIN f.at THEN [met |-> {}, end |-> "astray"]
          ELSE LET tl == Size(f.at[next])
                   rest == walk[next + 3 + tl]
               IN  IF tl = 0 \/ next + 3 + tl > len THEN [met |-> {}, end |-> "overflow"]
                   ELSE [rest EXCEPT !.met = @ \cup {next}]
    IN  walk[Header]

\* How handleDAF takes a service descriptor.
Meaning(control) ==
    IF control = 17 THEN "subscribe" ELSE IF control = 16 THEN "publish" ELSE "message"

\* handleBeacon's test of the interval
IsSync(f) == f.interval = Sync

-----------------------------------------------------------------------------
(* Properties *)

\* Whatever the length of a message, the receiver's walk over a frame meets each
\* attribute and nothing else, never past the data or the sender's buffer, the
\* data it takes from a descriptor is what the attribute holds, and a sync beacon
\* is taken for one, with an information element that fills it.
FramesParsed ==
    /\ frame.kind = "action" =>
         LET w == Walk(frame, frame.len + Checksum)
         IN  /\ w = [met |-> DOMAIN frame.at, end |-> "done"]
             /\ frame.len <= BufferSize
             /\ \A o \in DOMAIN frame.at :
                   LET a == frame.at[o]
                   IN  a.tag = 3 =>
                         /\ 10 + a.tlen = Size(a)
                         /\ Meaning(a.control) =
                               IF DOMAIN frame.at = {Header} THEN "message"
                               ELSE "publish"
    /\ frame.kind = "beacon" => IsSync(frame) /\ 36 + 2 + frame.ie = frame.len
==============================================================================

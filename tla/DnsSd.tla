------------------------------- MODULE DnsSd --------------------------------
(***************************************************************************)
(* Service discovery responses of Wi-Fi Direct (pkg/l2/wpa_dnssd.go): what *)
(* packDns writes and what parseDisc reads, by offsets in the message.     *)
(*                                                                         *)
(* A response begins with a record set of the DMesh service: five bytes    *)
(* (length, type, transaction, status), the name and type of nameTxt in    *)
(* twelve, then strings "key=value".  The responses for other services may *)
(* follow: Android sends one, packDns none.  Names and values are model    *)
(* values with a size; values hold no "=" (wpa_supplicant generates them   *)
(* from letters and digits).  Other responses than those for the DMesh     *)
(* name are left out.                                                      *)
(***************************************************************************)
EXTENDS Integers, Sequences

Head5 == 5              \* the fixed bytes
NameTxt == 12           \* len(nameTxt) / 2
First == Head5 + NameTxt

\* A string key=value with its size in bytes.
Field(key, val, size) == [key |-> key, val |-> val, size |-> size]

\* packTxtBytes: each string after its length in one byte, in some order.
PackTxtBytes(fields) ==
    LET start[i \in 1 .. Len(fields) + 1] ==
          IF i = 1 THEN First ELSE start[i - 1] + 1 + fields[i - 1].size
        Starts == {start[i] : i \in 1 .. Len(fields)}
        At(o) == CHOOSE i \in 1 .. Len(fields) : start[i] = o
    IN  [end |-> start[Len(fields) + 1],
         byte |-> [o \in Starts |-> fields[At(o)].size % 256],
         field |-> [o \in Starts |-> fields[At(o)]]]

\* packDns, followed by the bytes of other responses: mlen counts the first.
PackDns(fields, tail) ==
    LET txt == PackTxtBytes(fields)
        Tail5 == {txt.end + i : i \in 0 .. Len(tail) - 1}
    IN  [mlen |-> txt.end - 2,
         total |-> txt.end + Len(tail),
         field |-> txt.field,
         byte |-> [o \in DOMAIN txt.byte \cup Tail5 |->
                      IF o \in Tail5 THEN tail[o - txt.end + 1] ELSE txt.byte[o]]]

\* parseDns from the first string up to end: a string that would go past end
\* ends it.  The slice of a string may reach as far as the message does.
ParseDns(r, end) ==
    LET parse[off \in Nat] ==
          IF off >= end THEN [outcome |-> "ok", meta |-> {}]
          ELSE IF off \notin DOMAIN r.byte THEN [outcome |-> "astray", meta |-> {}]
          ELSE LET slen == r.byte[off]
                   rest == parse[off + 1 + slen]
               IN  IF slen = 0 \/ off + slen > end THEN [outcome |-> "ok", meta |-> {}]
                   ELSE IF off + 1 + slen > r.total THEN [outcome |-> "panic", meta |-> {}]
                   ELSE IF off \in DOMAIN r.field
                     THEN [rest EXCEPT !.meta = @ \cup {r.field[off]}]
                   ELSE rest
    IN  parse[First]

\* parseDisc of a response for the DMesh name: the strings are taken from a
\* slice of dnsData, which begins five bytes into the message, up to mlen + 2.
ParseDisc(r) ==
    LET end == Head5 + r.mlen + 2
    IN  IF end > r.total THEN [outcome |-> "panic", meta |-> {}]
        ELSE ParseDns(r, end)
=============================================================================

---------------------------- MODULE MessageDecoder ----------------------------
(***************************************************************************)
(* parse_node_announcement and parse_channel_announcement of               *)
(* src/gossip_tomography/inspect_raw.py: the length checks and the field   *)
(* offsets over a signature-stripped payload.                              *)
(*                                                                         *)
(* Data abstraction: a payload is its length and the values of its two     *)
(* length fields (flen, addrlen); a decoded record is the number of bytes  *)
(* each field slice actually got.  Python slices raw[a:a+n] never fail:    *)
(* they return max(0, min(a+n, len) - a) bytes, and that is what the model *)
(* records.  The reference is the spec's ByteCursor (4.1): a field is read *)
(* only if all its bytes remain, otherwise the message is Malformed.       *)
(***************************************************************************)
EXTENDS Naturals, Sequences, SequencesExt

CONSTANTS
    NodeLens,     \* payload lengths of node announcements
    ChanLens,     \* payload lengths of channel announcements
    FlenVals,     \* values of the 2-byte flen field
    AddrlenVals   \* values of the 2-byte addrlen field

Malformed == [error |-> "Malformed"]   \* the code's None

(* Mutant of SliceLen: the clamp at 0 for a start past the end missing. *)
SliceLenUnclamped(len, a, n) == IF a + n <= len THEN n ELSE len - a

(* len(raw[a:a+n]) *)
SliceLen(len, a, n) == IF a >= len THEN 0
                       ELSE IF a + n <= len THEN n ELSE len - a

(* Mutant of NodeAnnouncement: the flen check forgets the 2-byte addrlen. *)
NodeAnnouncementShortCheck(m) ==
    IF m.len < 2 + 4 + 33 + 3 + 32 + 2 THEN Malformed
    ELSE IF 2 + m.flen + 4 + 33 + 3 + 32 > m.len THEN Malformed
    ELSE [flen      |-> 2,
          features  |-> SliceLen(m.len, 2, m.flen),
          timestamp |-> SliceLen(m.len, 2 + m.flen, 4),
          node_id   |-> SliceLen(m.len, 6 + m.flen, 33),
          rgb_color |-> SliceLen(m.len, 39 + m.flen, 3),
          alias     |-> SliceLen(m.len, 42 + m.flen, 32),
          addrlen   |-> SliceLen(m.len, 74 + m.flen, 2),
          addresses |-> SliceLen(m.len, 76 + m.flen, m.addrlen)]

(* parse_node_announcement: the minimum-length check, the flen check, then *)
(* eight slices at sequential offsets; addresses = raw[off:off+addrlen].   *)
NodeAnnouncement(m) ==
    IF m.len < 2 + 4 + 33 + 3 + 32 + 2 THEN Malformed
    ELSE IF 2 + m.flen + 4 + 33 + 3 + 32 + 2 > m.len THEN Malformed
    ELSE [flen      |-> 2,
          features  |-> SliceLen(m.len, 2, m.flen),
          timestamp |-> SliceLen(m.len, 2 + m.flen, 4),
          node_id   |-> SliceLen(m.len, 6 + m.flen, 33),
          rgb_color |-> SliceLen(m.len, 39 + m.flen, 3),
          alias     |-> SliceLen(m.len, 42 + m.flen, 32),
          addrlen   |-> SliceLen(m.len, 74 + m.flen, 2),
          addresses |-> SliceLen(m.len, 76 + m.flen, m.addrlen)]

(* parse_channel_announcement: only the minimum-length check, then six     *)
(* slices; bitcoin_key_1/2 are not read.                                   *)
ChannelAnnouncement(m) ==
    IF m.len < 2 + 32 + 8 + 33 * 4 THEN Malformed
    ELSE [flen       |-> 2,
          features   |-> SliceLen(m.len, 2, m.flen),
          chain_hash |-> SliceLen(m.len, 2 + m.flen, 32),
          scid       |-> SliceLen(m.len, 34 + m.flen, 8),
          node1      |-> SliceLen(m.len, 42 + m.flen, 33),
          node2      |-> SliceLen(m.len, 75 + m.flen, 33)]

-----------------------------------------------------------------------------
(* Reference (spec 4.1, 4.4): the declared width of every field read.      *)
NodeLayout(m) ==
    [flen |-> 2, features |-> m.flen, timestamp |-> 4, node_id |-> 33,
     rgb_color |-> 3, alias |-> 32, addrlen |-> 2, addresses |-> m.addrlen]

ChannelLayout(m) ==
    [flen |-> 2, features |-> m.flen, chain_hash |-> 32, scid |-> 8,
     node1 |-> 33, node2 |-> 33]

Messages ==
    [type: {"node"}, len: NodeLens, flen: FlenVals, addrlen: AddrlenVals]
      \cup [type: {"channel"}, len: ChanLens, flen: FlenVals, addrlen: {0}]

Decode(m) == IF m.type = "node" THEN NodeAnnouncement(m) ELSE ChannelAnnouncement(m)

-----------------------------------------------------------------------------
(* decode_raw: the archive stores a payload as URL-safe base64 without     *)
(* padding (spec 5); the text is a count of data characters.               *)

Raised == [error |-> "binascii.Error"]   \* urlsafe_b64decode raised

(* Length of the collector's unpadded text for a payload of n bytes. *)
B64Len(n) == 4 * (n \div 3) + (CASE n % 3 = 0 -> 0 [] n % 3 = 1 -> 2 [] n % 3 = 2 -> 3)

(* urlsafe_b64decode of d data characters followed by pads "=": a lone    *)
(* character of a last quad, or too few pads for a partial quad, raises;  *)
(* extra pads are ignored.  Otherwise 3 bytes come of every 4 characters. *)
B64Decode(d, pads) ==
    IF d % 4 = 1 \/ (d % 4 # 0 /\ pads < 4 - (d % 4)) THEN [ok |-> FALSE, len |-> 0]
    ELSE [ok |-> TRUE, len |-> (3 * d) \div 4]

(* Mutant of DecodeRaw: the text passed on without re-padding. *)
DecodeRawUnpadded(d) == B64Decode(d, 0)

(* padding = (4 - len(raw_str) % 4) % 4; urlsafe_b64decode(raw_str + "=" * padding) *)
DecodeRaw(d) == B64Decode(d, (4 - (d % 4)) % 4)

(* decode_raw, then the parser of the message's type. *)
DecodeStored(m) ==
    LET p == DecodeRaw(B64Len(m.len)) IN
    IF p.ok THEN Decode([m EXCEPT !.len = p.len]) ELSE Raised

VARIABLES msg, payload, result
vars == <<msg, payload, result>>

Init ==
    /\ msg \in Messages
    /\ payload = DecodeRaw(B64Len(msg.len))
    /\ result = DecodeStored(msg)

(* One decode attempt on a payload taken from the archive. *)
DecodeMessage ==
    \E m \in Messages :
        /\ msg' = m
        /\ payload' = DecodeRaw(B64Len(m.len))
        /\ result' = DecodeStored(m)

Spec == Init /\ [][DecodeMessage]_vars

Layout(m) == IF m.type = "node" THEN NodeLayout(m) ELSE ChannelLayout(m)

(* A decoded record has the fields of its type, each slice at most its     *)
(* declared width.                                                         *)
TypeOK ==
    /\ msg \in Messages
    /\ result # Malformed =>
          /\ DOMAIN result = DOMAIN Layout(msg)
          /\ \A f \in DOMAIN result : result[f] \in 0..Layout(msg)[f]

(* A decoded record never holds a short fixed-width field or a short       *)
(* feature bitmap, and a payload whose fixed fields all fit is never        *)
(* rejected: parse_node_announcement's two checks (len < 76, and           *)
(* 2 + flen + 74 > len) are exactly the ByteCursor's Truncated cases.      *)
NodeFixedFieldsComplete ==
    msg.type = "node" =>
        LET fixed == DOMAIN NodeLayout(msg) \ {"addresses"}
            fits  == 2 + msg.flen + 4 + 33 + 3 + 32 + 2 <= msg.len
        IN  /\ result = Malformed <=> ~fits
            /\ result # Malformed => \A f \in fixed : result[f] = NodeLayout(msg)[f]

(* Spec 4.1 / 4.4: a message is Malformed as soon as a field would read    *)
(* past the buffer end, so every field of a decoded node or channel record *)
(* has its declared width: the addresses addrlen bytes, and node_id_2 of a *)
(* channel announcement all 33 bytes whatever flen is.                     *)
DecodedFieldsComplete == result # Malformed => result = Layout(msg)

(* decode_raw undoes the archive's encoding: the unpadded text of every    *)
(* payload length decodes, after re-padding, to exactly that many bytes,   *)
(* so no stored message is lost at the boundary or parsed short.          *)
RawRoundTrip == payload.ok /\ payload.len = msg.len
=============================================================================

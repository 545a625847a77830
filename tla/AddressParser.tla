---------------------------- MODULE AddressParser ----------------------------
(***************************************************************************)
(* parse_addresses of src/gossip_tomography/inspect_raw.py: the loop over  *)
(* the addrlen-delimited address list of a node_announcement.  Each step   *)
(* is one iteration of the while loop: read a type byte, then either read  *)
(* the descriptor body or break (truncated body, unknown type).            *)
(*                                                                         *)
(* Data abstraction: the formatted address string (dotted quad, hex        *)
(* groups, hostname, port) is left out; a parsed descriptor is its type    *)
(* and the offset of its type byte, which names the bytes it came from.    *)
(* The buffers are generated from a list of well-formed descriptors and a  *)
(* tail (a truncated descriptor or an unknown type), so each input carries *)
(* the descriptors a correct parser must return.                           *)
(***************************************************************************)
EXTENDS Naturals, Sequences, SequencesExt

CONSTANTS
    HostLens,     \* DNS hostname lengths (the hlen byte)
    Fillers,      \* byte value used for the bytes of a body
    UnknownTags,  \* type bytes outside 1..5
    MaxDescs      \* well-formed descriptors per generated list

ASSUME HostLens \subseteq 0..255 /\ Fillers \subseteq 0..255
ASSUME UnknownTags \cap 1..5 = {}

(* Body length after the type byte of the fixed-size types:                *)
(* 1 IPv4 (4+2), 2 IPv6 (16+2), 3 Tor v2 (10+2), 4 Tor v3 (35+2).          *)
FixedBody == (1 :> 6) @@ (2 :> 18) @@ (3 :> 12) @@ (4 :> 37)

-----------------------------------------------------------------------------
(* Generation of the address lists.                                        *)
Descs == { [tag |-> t, hlen |-> 0] : t \in DOMAIN FixedBody }
           \cup { [tag |-> 5, hlen |-> h] : h \in HostLens }

Fill(n, f) == [i \in 1..n |-> f]

Encoding(d, f) ==
    IF d.tag = 5 THEN <<5, d.hlen>> \o Fill(d.hlen + 2, f)
                 ELSE <<d.tag>> \o Fill(FixedBody[d.tag], f)

Tails(f) ==
    {<<>>} \cup { <<u>> \o Fill(2, f) : u \in UnknownTags }
           \cup UNION { { SubSeq(Encoding(d, f), 1, k) : k \in 1..(Len(Encoding(d, f)) - 1) }
                        : d \in Descs }

Inputs ==
    UNION { { [descs |-> ds, tail |-> t, filler |-> f] :
                ds \in BoundedSeq(Descs, MaxDescs), t \in Tails(f) } : f \in Fillers }

Encode(in) ==
    FoldLeft(LAMBDA acc, d : acc \o Encoding(d, in.filler), <<>>, in.descs) \o in.tail

(* The descriptors fully readable before the tail, with their offsets.     *)
Expected(in) ==
    [i \in DOMAIN in.descs |->
        [type |-> in.descs[i].tag,
         at   |-> FoldLeft(LAMBDA acc, d : acc + Len(Encoding(d, in.filler)),
                           0, SubSeq(in.descs, 1, i - 1))]]

-----------------------------------------------------------------------------
VARIABLES
    input,   \* the generated list (not a program variable)
    data,    \* the bytes passed to parse_addresses
    off,     \* off, 0-based as in the code
    addrs,   \* addrs
    pc       \* "loop" while in the while loop, "done" after return

vars == <<input, data, off, addrs, pc>>

Init ==
    /\ input \in Inputs
    /\ data = Encode(input)
    /\ off = 0
    /\ addrs = <<>>
    /\ pc = "loop"

(* while off < len(data): addr_type = data[off]; off += 1 *)
TagAt(o) == data[o + 1]

Stop(o) == /\ off' = o
           /\ pc' = "done"
           /\ UNCHANGED <<input, data, addrs>>

(* Mutant of FixedFits: off-by-one, "off + n >= len(data)" as the break. *)
FixedFitsOffByOne(o) == o + 1 + FixedBody[TagAt(o)] < Len(data)

(* not (off + n > len(data)) for the body of the type byte at o *)
FixedFits(o) == o + 1 + FixedBody[TagAt(o)] <= Len(data)

(* Mutant of ReadFixed: the "off + n > len(data)" guard dropped, so the   *)
(* short slice is taken silently.                                          *)
ReadFixedUnchecked ==
    /\ pc = "loop" /\ off < Len(data)
    /\ TagAt(off) \in DOMAIN FixedBody
    /\ addrs' = Append(addrs, [type |-> TagAt(off), at |-> off])
    /\ off' = off + 1 + FixedBody[TagAt(off)]
    /\ UNCHANGED <<input, data, pc>>

(* Types 1-4: the body fits, record the descriptor and skip the body. *)
ReadFixed ==
    /\ pc = "loop" /\ off < Len(data)
    /\ TagAt(off) \in DOMAIN FixedBody
    /\ FixedFits(off)
    /\ addrs' = Append(addrs, [type |-> TagAt(off), at |-> off])
    /\ off' = off + 1 + FixedBody[TagAt(off)]
    /\ UNCHANGED <<input, data, pc>>

(* Types 1-4: if off + body > len(data): break *)
FixedTruncated ==
    /\ pc = "loop" /\ off < Len(data)
    /\ TagAt(off) \in DOMAIN FixedBody
    /\ ~FixedFits(off)
    /\ Stop(off + 1)

(* Type 5: hlen byte, hostname, port all present. *)
ReadDNS ==
    /\ pc = "loop" /\ off < Len(data)
    /\ TagAt(off) = 5
    /\ off + 2 <= Len(data)
    /\ LET hlen == data[off + 2] IN
          /\ off + 2 + hlen + 2 <= Len(data)
          /\ addrs' = Append(addrs, [type |-> 5, at |-> off])
          /\ off' = off + 2 + hlen + 2
    /\ UNCHANGED <<input, data, pc>>

(* Type 5: if off + 1 > len(data): break (no hlen byte) *)
DNSNoLength ==
    /\ pc = "loop" /\ off < Len(data)
    /\ TagAt(off) = 5
    /\ off + 2 > Len(data)
    /\ Stop(off + 1)

(* Type 5: hlen read, off += 1; if off + hlen + 2 > len(data): break *)
DNSTruncated ==
    /\ pc = "loop" /\ off < Len(data)
    /\ TagAt(off) = 5
    /\ off + 2 <= Len(data)
    /\ off + 2 + data[off + 2] + 2 > Len(data)
    /\ Stop(off + 2)

(* Mutant of UnknownTag: "continue" on a peeked, unconsumed type byte.   *)
UnknownTagNoAdvance ==
    /\ pc = "loop" /\ off < Len(data)
    /\ TagAt(off) \notin 1..5
    /\ UNCHANGED vars

(* else: break  # unknown type, stop *)
UnknownTag ==
    /\ pc = "loop" /\ off < Len(data)
    /\ TagAt(off) \notin 1..5
    /\ Stop(off + 1)

(* The while condition fails: return addrs. *)
Exhausted ==
    /\ pc = "loop" /\ off >= Len(data)
    /\ Stop(off)

Next ==
    \/ ReadFixed \/ FixedTruncated
    \/ ReadDNS \/ DNSNoLength \/ DNSTruncated
    \/ UnknownTag \/ Exhausted

Spec == Init /\ [][Next]_vars /\ WF_vars(Next)

-----------------------------------------------------------------------------
TypeOK ==
    /\ input \in Inputs
    /\ off \in 0..Len(data)
    /\ pc \in {"loop", "done"}
    /\ \A i \in DOMAIN addrs : addrs[i].type \in 1..5 /\ addrs[i].at \in 0..Len(data)

(* Spec 4.3 / 8: when parse_addresses returns, it has returned every       *)
(* descriptor fully readable before a truncated or unknown trailing entry, *)
(* in wire order and read from the right offsets, and nothing else.        *)
ReadablePrefixParsed == pc = "done" => addrs = Expected(input)

(* The loop always returns: every iteration consumes the type byte.        *)
Terminates == <>(pc = "done")
=============================================================================

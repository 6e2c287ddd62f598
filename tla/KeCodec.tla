------------------------------ MODULE KeCodec -------------------------------
(***************************************************************************)
(* The bytes of a KE-Paxos message: kepaxos_build_message, which lays a    *)
(* message out in a buffer, and the parser at the head of                  *)
(* kepaxos_received_command, which reads the fields back.                  *)
(*                                                                         *)
(* A frame is the record of what is laid out: ballot, seq and the two      *)
(* lengths are numbers, written as four bytes in network order; the        *)
(* message type is its number in kepaxos_msg_type_t; the command type and  *)
(* the bytes of the key and of the data are whatever the host gives and    *)
(* are kept as they are.  Positions in a buffer count from 1.              *)
(***************************************************************************)
EXTENDS Naturals, Sequences

\* sizeof(uint32_t)
Word == 4

\* kepaxos_msg_type_t: the numbers of the enumeration
MsgCode == [PRE_ACCEPT |-> 0, PRE_ACCEPT_RESPONSE |-> 1, ACCEPT |-> 2,
            ACCEPT_RESPONSE |-> 3, COMMIT |-> 4]

\* htonl(n) copied into the buffer: the most significant byte first
htonl(n) == <<(n \div 16777216) % 256, (n \div 65536) % 256, (n \div 256) % 256, n % 256>>

\* ntohl of the four bytes b
ntohl(b) == ((b[1] * 256 + b[2]) * 256 + b[3]) * 256 + b[4]

\* size_t msglen = klen + dlen + 3 + sizeof(uint32_t) * 4, with the three
\* single bytes forgotten.
msglen_words_only(klen, dlen) == klen + dlen + Word * 4

\* size_t msglen = klen + dlen + 3 + sizeof(uint32_t) * 4
msglen(klen, dlen) == klen + dlen + 3 + Word * 4

\* The fields in the order and at the offsets of the memcpy calls.
Layout(f) ==
    htonl(f.ballot) \o htonl(f.seq)
        \o <<MsgCode[f.mtype], f.ctype, IF f.committed THEN 1 ELSE 0>>
        \o htonl(Len(f.key)) \o f.key
        \o htonl(Len(f.data)) \o f.data

\* kepaxos_build_message: the msglen bytes handed to the send callback.
\* What a memcpy writes past msglen is not part of the message.
Build(f) == SubSeq(Layout(f), 1, msglen(Len(f.key), Len(f.data)))

\* if (cmdlen < sizeof(uint32_t) * 4) return -1
TooShort(buf) == Len(buf) < Word * 4

\* The byte at position i.  The parser reads what lies after the buffer
\* as well, and what it finds there is undefined: the zero given here
\* stands for it only in Extent, which tells such a read from the others
\* (WireFaithful); no handler of Kepaxos is given a field read that way.
Octet(buf, i) == IF i <= Len(buf) THEN buf[i] ELSE 0

Octets(buf, from, n) == [i \in 1 .. n |-> Octet(buf, from + i - 1)]

\* uint32_t klen = ntohl(*((uint32_t *)p)), with p after the three bytes
Klen(buf) == ntohl(Octets(buf, 2 * Word + 4, Word))

\* uint32_t dlen = ntohl(*((uint32_t *)p)), with p after the key
Dlen(buf) == ntohl(Octets(buf, 3 * Word + 4 + Klen(buf), Word))

\* The last position the parser, and the handlers through key and data,
\* read: it does not compare it with cmdlen.
Extent(buf) == 4 * Word + 3 + Klen(buf) + Dlen(buf)

\* The parser of kepaxos_received_command (lines 406-426).
Parse(buf) ==
    [ballot    |-> ntohl(Octets(buf, 1, Word)),
     seq       |-> ntohl(Octets(buf, Word + 1, Word)),
     mtype     |-> CHOOSE t \in DOMAIN MsgCode : MsgCode[t] = Octet(buf, 2 * Word + 1),
     ctype     |-> Octet(buf, 2 * Word + 2),
     committed |-> Octet(buf, 2 * Word + 3) # 0,
     key       |-> Octets(buf, 3 * Word + 4, Klen(buf)),
     data      |-> Octets(buf, 4 * Word + 4 + Klen(buf), Dlen(buf))]
=============================================================================

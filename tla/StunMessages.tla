---------------------------- MODULE StunMessages ----------------------------
(***************************************************************************)
(* How the TURN halves write STUN messages as bytes and read them back     *)
(* (src/turn-frontend/messages.ts).  Bytes are a sequence over 0..255.     *)
(* What throws in the code has a predicate that says when it does not.     *)
(***************************************************************************)
EXTENDS Naturals, Sequences, SequencesExt, Bitwise

\* MessageMethod, MessageClass and MessageAttribute: the values in use here.
ALLOCATE == 3
SEND == 6
DATA == 7

REQUEST == 1
SUCCESS_RESPONSE == 2
FAILURE_RESPONSE == 3
INDICATION == 4

MESSAGE_INTEGRITY == 8
ERROR_CODE == 9
XOR_PEER_ADDRESS == \h12
DATA_ATTRIBUTE == \h13
XOR_RELAYED_ADDRESS == \h16
XOR_MAPPED_ADDRESS == \h20
IPC_TAG == \heeff

MagicCookie == <<\h21, \h12, \ha4, \h42>>

-----------------------------------------------------------------------------
(* Bytes *)

\* A Uint8Array keeps the low eight bits of what is assigned to it.
Byte(n) == n % 256

Zeros(n) == [i \in 1 .. n |-> 0]

BigEndian(n) == <<Byte(n \div 256), Byte(n)>>

\* Uint8Array.set.
SetBytes(bytes, offset, part) ==
    [i \in DOMAIN bytes |->
        IF i - offset \in DOMAIN part THEN part[i - offset] ELSE bytes[i]]

calculatePadding(x, b) == (x \div b + (IF x % b > 0 THEN 1 ELSE 0)) * b

\* The bytes an attribute takes in a message, after its four bytes of header.
Padded(attr) == calculatePadding(Len(attr.value), 4)

-----------------------------------------------------------------------------
(* Attributes *)

formatStunAttribute(attr) ==
    BigEndian(attr.type) \o BigEndian(Len(attr.value)) \o attr.value
        \o Zeros(Padded(attr) - Len(attr.value))

IsStunAttribute(bytes) == Len(bytes) >= 4

\* The value that the parser leaves an attribute whose declared length is zero.
\* It has no bytes; who reads its length throws.  Whoever writes an attribute
\* takes it for an empty value.
Undefined == <<>>

\* subarray stops at the end of the bytes, whatever length is declared.
parseStunAttribute(bytes) ==
    LET length == (bytes[3] * 256) | bytes[4] IN
    [type |-> (bytes[1] * 256) | bytes[2],
     value |-> SubSeq(bytes, 5, IF 4 + length < Len(bytes) THEN 4 + length
                                ELSE Len(bytes))]

AfterAttribute(bytes) ==
    SubSeq(bytes, 5 + Padded(parseStunAttribute(bytes)), Len(bytes))

RECURSIVE AreStunAttributes(_)
AreStunAttributes(bytes) ==
    \/ bytes = <<>>
    \/ IsStunAttribute(bytes) /\ AreStunAttributes(AfterAttribute(bytes))

RECURSIVE parseStunAttributes(_)
parseStunAttributes(bytes) ==
    IF bytes = <<>> THEN <<>>
    ELSE <<parseStunAttribute(bytes)>> \o parseStunAttributes(AfterAttribute(bytes))

HasAttribute(type, attributes) == \E i \in DOMAIN attributes : attributes[i].type = type

IndexOfFirst(type, attributes) ==
    CHOOSE i \in DOMAIN attributes :
        /\ attributes[i].type = type
        /\ \A j \in 1 .. i - 1 : attributes[j].type # type

findFirstAttributeWithType(type, attributes) == attributes[IndexOfFirst(type, attributes)]

\* Where the value of attribute i starts in the bytes of its message.
ValueOffset(attributes, i) ==
    24 + FoldLeft(LAMBDA n, attr : n + 4 + Padded(attr), 0, SubSeq(attributes, 1, i - 1))

-----------------------------------------------------------------------------
(* Messages *)

ClassBits(clazz) ==
    [c1 |-> IF clazz \in {SUCCESS_RESPONSE, FAILURE_RESPONSE} THEN \h01 ELSE 0,
     c0 |-> IF clazz \in {INDICATION, FAILURE_RESPONSE} THEN \h10 ELSE 0]

\* Method and class are interleaved.  The bits M7 and up, masked before they
\* are stored in one byte, are lost.
MessageType(m) ==
    <<Byte((m.method * 4) & \h3e00) | ClassBits(m.clazz).c1,
      (Byte(m.method) | ((m.method * 2) & \he0)) | ClassBits(m.clazz).c0>>

\* Mistake: the header is counted in the length.
DeclaredLengthWithHeader(attributes) == Len(attributes) + 20

\* The length of the attributes, not of the message.
DeclaredLength(attributes) == Len(attributes)

\* The attributes come after the transaction id, and over what of it is longer
\* than twelve bytes: the backend's own ids have twenty.
WithAttributes(header, transactionId, attributes) ==
    SetBytes(SetBytes(header, 8, transactionId), 20, attributes)

formatStunMessage(m) ==
    LET attributes == FlattenSeq([i \in DOMAIN m.attributes |->
                                     formatStunAttribute(m.attributes[i])]) IN
    WithAttributes(MessageType(m) \o BigEndian(DeclaredLength(attributes)) \o MagicCookie
                       \o Zeros(12 + Len(attributes)),
                   m.transactionId, attributes)

IsStunMessage(bytes) ==
    /\ Len(bytes) >= 20
    /\ bytes[1] & \hc0 = 0
    /\ SubSeq(bytes, 5, 8) = MagicCookie
    /\ AreStunAttributes(SubSeq(bytes, 21, Len(bytes)))

ParsedClass(c1, c0) ==
    IF c1 # 0 THEN IF c0 # 0 THEN FAILURE_RESPONSE ELSE SUCCESS_RESPONSE
    ELSE IF c0 # 0 THEN INDICATION ELSE REQUEST

parseStunMessage(bytes) ==
    [clazz |-> ParsedClass(bytes[1] & \h01, bytes[2] & \h10),
     method |-> ((bytes[2] & \h0f) | ((bytes[2] \div 2) & \h70))
                    | ((bytes[1] * 64) & \h0f80),
     transactionId |-> SubSeq(bytes, 9, 20),
     attributes |-> parseStunAttributes(SubSeq(bytes, 21, Len(bytes)))]

\* Stands for HMAC-SHA1 under HMAC_KEY: twenty bytes taken from the text, and
\* mixed with its length.
Hmac(text) == [i \in 1 .. 20 |-> Byte(text[1 + (i * Len(text)) \div 21] + Len(text))]

\* The text of the hash: all before the attribute, which is the last.
computeHash(bytes) == Hmac(SubSeq(bytes, 1, Len(bytes) - 24))

\* Mistake: the hash is put before the last attribute's value.
WithHashAtAttribute(bytes) == SetBytes(bytes, Len(bytes) - 24, computeHash(bytes))

WithHash(bytes) == SetBytes(bytes, Len(bytes) - 20, computeHash(bytes))

formatStunMessageWithIntegrity(m) ==
    WithHash(formatStunMessage([m EXCEPT !.attributes =
        Append(@, [type |-> MESSAGE_INTEGRITY, value |-> Zeros(20)])]))

-----------------------------------------------------------------------------
(* Values of attributes.  An address is its four numbers. *)

IsErrorCode(code) == code >= 300 /\ code <= 600

formatErrorCodeAttribute(code, reason) ==
    <<0, 0, code \div 100, code % 100>> \o reason

formatMappedAddressAttribute(endpoint) ==
    <<0, 1>> \o BigEndian(endpoint.port) \o [i \in 1 .. 4 |-> Byte(endpoint.address[i])]

IsMappedAddress(bytes) == Len(bytes) >= 8 /\ bytes[1] = 0 /\ bytes[2] = 1

parseMappedAddressAttribute(bytes) ==
    [address |-> SubSeq(bytes, 5, 8), port |-> (bytes[3] * 256) | bytes[4]]

\* What XOR-MAPPED-ADDRESS does to the port and the address, both ways.
XorWithCookie(bytes) ==
    [i \in DOMAIN bytes |->
        CASE i \in {3, 4} -> bytes[i] ^^ MagicCookie[i - 2]
          [] i \in 5 .. 8 -> bytes[i] ^^ MagicCookie[i - 4]
          [] OTHER -> bytes[i]]

formatXorMappedAddressAttribute(endpoint) ==
    XorWithCookie(formatMappedAddressAttribute(endpoint))

\* The bytes are decoded where they stand: whoever holds the message that they
\* belong to sees them changed.
parseXorMappedAddressAttribute(bytes) == parseMappedAddressAttribute(XorWithCookie(bytes))
=============================================================================

---------------------------- MODULE SocksHeaders ----------------------------
(***************************************************************************)
(* SOCKS 5 handshakes, requests, responses and UDP messages as bytes       *)
(* (src/socks-common/socks-headers.ts).  An endpoint's address is tagged   *)
(* with the kind that ipaddr.js finds its text to be: IP_V4 with four      *)
(* octets, IP_V6 with eight parts, DNS with the codes of its characters.   *)
(* What throws in the code has a predicate that says when it does not.     *)
(***************************************************************************)
EXTENDS Naturals, Sequences, SequencesExt

VERSION5 == 5

NOAUTH == 0

TCP_CONNECT == 1
TCP_BIND == 2
UDP_ASSOCIATE == 3
Commands == {TCP_CONNECT, TCP_BIND, UDP_ASSOCIATE}

IP_V4 == 1
DNS == 3
IP_V6 == 4

Replies == 0 .. 9

-----------------------------------------------------------------------------
(* Bytes *)

\* A Uint8Array keeps the low eight bits of what is assigned to it.
Octet(n) == n % 256

TwoOctets(n) == <<Octet(n \div 256), Octet(n)>>

\* What is read past the end is undefined: zero in a shift, NUL as a character.
At(bytes, i) == IF i \in DOMAIN bytes THEN bytes[i] ELSE 0

TwoAt(bytes, i) == At(bytes, i) * 256 + At(bytes, i + 1)

From(bytes, i) == SubSeq(bytes, i, Len(bytes))

-----------------------------------------------------------------------------
(* Destinations *)

\* composeDestination of makeDestinationFromEndpoint: the length of a name is
\* kept in one byte.
composeDestination(endpoint) ==
    LET address == endpoint.address
        value == CASE address.type = IP_V4 -> address.value
                   [] address.type = DNS ->
                          <<Octet(Len(address.value))>> \o address.value
                   [] address.type = IP_V6 ->
                          FlattenSeq([i \in 1 .. 8 |-> TwoOctets(address.value[i])])
    IN <<address.type>> \o value \o TwoOctets(endpoint.port)

\* The bytes of an address must all be there, those of a name and of the port
\* need not be.
IsDestination(bytes) ==
    \/ At(bytes, 1) = IP_V4 /\ Len(bytes) >= 5
    \/ At(bytes, 1) = DNS
    \/ At(bytes, 1) = IP_V6 /\ Len(bytes) >= 17

\* Where the port is, counted from zero.
PortOffset(bytes) ==
    CASE bytes[1] = IP_V4 -> 5 [] bytes[1] = DNS -> At(bytes, 2) + 2 [] OTHER -> 17

\* addressByteLength
DestinationLength(bytes) == PortOffset(bytes) + 2

interpretDestination(bytes) ==
    [address |->
        [type |-> bytes[1],
         value |->
            CASE bytes[1] = IP_V4 -> SubSeq(bytes, 2, 5)
              [] bytes[1] = DNS -> [i \in 1 .. At(bytes, 2) |-> At(bytes, 2 + i)]
              [] OTHER -> [i \in 1 .. 8 |-> TwoAt(bytes, 2 * i)]],
     port |-> TwoAt(bytes, PortOffset(bytes) + 1)]

isValidEndpoint(endpoint) == endpoint.port \in 0 .. 65535

-----------------------------------------------------------------------------
(* Authentication *)

composeAuthHandshake(auths) == <<VERSION5, Octet(Len(auths))>> \o auths

\* The methods that are declared and there.
interpretAuthHandshake(bytes) ==
    SubSeq(bytes, 3, IF 2 + At(bytes, 2) < Len(bytes) THEN 2 + At(bytes, 2)
                     ELSE Len(bytes))

IsAuthHandshake(bytes) ==
    At(bytes, 1) = VERSION5 /\ Contains(interpretAuthHandshake(bytes), NOAUTH)

composeAuthResponse(auth) == <<VERSION5, auth>>

IsAuthResponse(bytes) == Len(bytes) = 2 /\ bytes[1] = VERSION5

interpretAuthResponse(bytes) == bytes[2]

-----------------------------------------------------------------------------
(* Requests, responses and UDP messages *)

composeRequest(request) ==
    <<VERSION5, request.command, 0>> \o composeDestination(request.endpoint)

interpretRequest(bytes) ==
    [command |-> bytes[2], endpoint |-> interpretDestination(From(bytes, 4))]

isValidRequest(request) ==
    request.command \in Commands /\ isValidEndpoint(request.endpoint)

\* A request for a name of one character has eight bytes.
IsRequest(bytes) ==
    /\ Len(bytes) >= 9
    /\ bytes[1] = VERSION5
    /\ bytes[2] \in {TCP_CONNECT, UDP_ASSOCIATE}
    /\ IsDestination(From(bytes, 4))
    /\ isValidRequest(interpretRequest(bytes))

FakeEndpoint == [address |-> [type |-> IP_V4, value |-> <<0, 0, 0, 0>>], port |-> 0]

\* A response without an endpoint goes out with a made-up one.
composeResponse(reply, endpoints) ==
    <<VERSION5, reply, 0>> \o composeDestination(
        IF endpoints = <<>> THEN FakeEndpoint ELSE endpoints[1])

interpretResponse(bytes) ==
    [reply |-> At(bytes, 2), endpoint |-> interpretDestination(From(bytes, 4))]

isValidResponse(response) ==
    response.reply \in Replies /\ isValidEndpoint(response.endpoint)

IsResponse(bytes) ==
    /\ At(bytes, 1) = VERSION5
    /\ IsDestination(From(bytes, 4))
    /\ isValidResponse(interpretResponse(bytes))

\* Mistake: fragments are taken.
IsUdpMessageOrFragment(bytes) == Len(bytes) >= 10 /\ IsDestination(From(bytes, 4))

IsUdpMessage(bytes) ==
    /\ Len(bytes) >= 10
    /\ IsDestination(From(bytes, 4))
    /\ bytes[3] = 0

interpretUdpMessage(bytes) ==
    [endpoint |-> interpretDestination(From(bytes, 4)),
     data |-> From(bytes, 4 + DestinationLength(From(bytes, 4)))]
=============================================================================

------------------------------- MODULE Codecs -------------------------------
(***************************************************************************)
(* What is written to the wire at one place and read at another: STUN      *)
(* messages between a TURN client, the frontend and the backend (the       *)
(* handlers of turn-frontend.ts and turn-backend.ts, whose order module    *)
(* Turn is about), SOCKS messages between a client and socks-to-rtc.ts or  *)
(* rtc-to-net.ts, and datagrams in the churn pipe.  One message is under   *)
(* way at a time; meant is what its sender had in mind, got what its       *)
(* reader understood.                                                      *)
(***************************************************************************)
EXTENDS StunMessages, SocksHeaders, Caesar

CONSTANTS
    Endpoints,      \* of TURN clients, peers and relay sockets
    Payloads,       \* data of datagrams
    SocksEndpoints, \* in requests and responses
    AuthLists,      \* methods that a SOCKS client offers
    Keys            \* of the Caesar cipher

VARIABLES
    place,          \* who has the bytes, or what became of them
    bytes,
    meant,
    got

vars == <<place, bytes, meant, got>>

Nothing == [what |-> "nothing"]

Init == place = "idle" /\ bytes = <<>> /\ meant = Nothing /\ got = Nothing

\* The sender of what m says gives b to the one at place p.
Sends(p, m, b) ==
    /\ place = "idle"
    /\ place' = p
    /\ meant' = m
    /\ bytes' = b
    /\ UNCHANGED got

Reads(understood) ==
    /\ place' = "read"
    /\ got' = understood
    /\ UNCHANGED <<bytes, meant>>

-----------------------------------------------------------------------------
(* STUN *)

Attribute(type, value) == [type |-> type, value |-> value]

Address(type, endpoint) == Attribute(type, formatXorMappedAddressAttribute(endpoint))

HasAddress(m, type) ==
    /\ HasAttribute(type, m.attributes)
    /\ IsMappedAddress(XorWithCookie(findFirstAttributeWithType(type, m.attributes).value))

AddressIn(m, type) ==
    parseXorMappedAddressAttribute(findFirstAttributeWithType(type, m.attributes).value)

ValueIn(m, type) == findFirstAttributeWithType(type, m.attributes).value

Message(method, clazz, transactionId, attributes) ==
    [method |-> method, clazz |-> clazz, transactionId |-> transactionId,
     attributes |-> attributes]

TransactionId(n) == [i \in 1 .. n |-> 200 + i]

\* emitIpc_ of both halves.
Tagged(m, client) ==
    formatStunMessage([m EXCEPT !.attributes = Append(@, Address(IPC_TAG, client))])

\* A client's SEND indication.
ClientSends(client, peer, payload) ==
    Sends("frontend",
          [what |-> "send", client |-> client, peer |-> peer, payload |-> payload],
          formatStunMessage(Message(SEND, INDICATION, TransactionId(12),
              <<Address(XOR_PEER_ADDRESS, peer), Attribute(DATA_ATTRIBUTE, payload)>>)))

\* handleSendIndication_.  The client is the source of the datagram.
FrontendTags ==
    /\ place = "frontend"
    /\ IsStunMessage(bytes)
    /\ place' = "backend"
    /\ bytes' = Tagged(parseStunMessage(bytes), meant.client)
    /\ UNCHANGED <<meant, got>>

\* handleIpc of the backend, SEND: the attributes that it needs are there.
BackendFinds(m) ==
    /\ place = "backend"
    /\ IsStunMessage(bytes)
    /\ HasAddress(m, IPC_TAG) /\ HasAddress(m, XOR_PEER_ADDRESS)
    /\ HasAttribute(DATA_ATTRIBUTE, m.attributes)

BackendReads ==
    LET m == parseStunMessage(bytes) IN
    /\ BackendFinds(m)
    /\ ValueIn(m, DATA_ATTRIBUTE) # Undefined
    /\ Reads([what |-> "send", client |-> AddressIn(m, IPC_TAG),
              peer |-> AddressIn(m, XOR_PEER_ADDRESS),
              payload |-> ValueIn(m, DATA_ATTRIBUTE)])

\* bytesToArrayBuffer_ of a value that is undefined: nothing is sent.
BackendThrows ==
    LET m == parseStunMessage(bytes) IN
    /\ BackendFinds(m)
    /\ ValueIn(m, DATA_ATTRIBUTE) = Undefined
    /\ place' = "thrown"
    /\ UNCHANGED <<bytes, meant, got>>

\* onData of a relay socket, with getRandomTransactionId_.
BackendSendsData(client, peer, payload) ==
    Sends("ipc",
          [what |-> "data", client |-> client, peer |-> peer, payload |-> payload],
          Tagged(Message(DATA, INDICATION, TransactionId(20),
                     <<Address(XOR_PEER_ADDRESS, peer), Attribute(DATA_ATTRIBUTE, payload)>>),
                 client))

Lifetime == Attribute(13, <<0, 0>> \o BigEndian(600))

\* handleIpc of the backend, ALLOCATE.
BackendSendsAllocated(client, relay) ==
    Sends("ipc",
          [what |-> "allocated", client |-> client, relay |-> relay, mapped |-> client],
          Tagged(Message(ALLOCATE, SUCCESS_RESPONSE, TransactionId(12),
                     <<Address(XOR_RELAYED_ADDRESS, relay),
                       Address(XOR_MAPPED_ADDRESS, client), Lifetime>>),
                 client))

\* Mistake: the tag is decoded where the first attribute is.
DecodedAtFirst(m, data) ==
    SetBytes(data, 24, XorWithCookie(ValueIn(m, IPC_TAG)))

\* Reading the tag decodes it in the bytes that were received.
Decoded(m, data) ==
    SetBytes(data, ValueOffset(m.attributes, IndexOfFirst(IPC_TAG, m.attributes)),
             XorWithCookie(ValueIn(m, IPC_TAG)))

\* handleIpc of the frontend: a DATA message goes on as the bytes received, tag
\* and all; an ALLOCATE response is signed by onData_, which waits for it.
FrontendForwards ==
    /\ place = "ipc"
    /\ IsStunMessage(bytes)
    /\ LET m == parseStunMessage(bytes)
           data == Decoded(m, bytes) IN
       /\ HasAddress(m, IPC_TAG)
       /\ bytes' = IF m.method = DATA THEN data
                   ELSE formatStunMessageWithIntegrity(parseStunMessage(data))
       /\ got' = [what |-> "for", client |-> AddressIn(m, IPC_TAG)]
    /\ place' = "client"
    /\ UNCHANGED meant

\* handleAllocateRequest_ for a request without a USERNAME.
FrontendRefuses(client, code, reason) ==
    /\ IsErrorCode(code)
    /\ place = "idle"
    /\ place' = "client"
    /\ meant' = [what |-> "unauthorised", client |-> client, code |-> code, reason |-> reason]
    /\ got' = [what |-> "for", client |-> client]
    /\ bytes' = formatStunMessageWithIntegrity(
           Message(ALLOCATE, FAILURE_RESPONSE, TransactionId(12),
               <<Attribute(ERROR_CODE, formatErrorCodeAttribute(code, reason))>>))

ErrorIn(value) ==
    [code |-> value[3] * 100 + value[4], reason |-> SubSeq(value, 5, Len(value))]

\* The client to whose address the frontend sent the bytes.
ClientReads ==
    /\ place = "client"
    /\ IsStunMessage(bytes)
    /\ LET m == parseStunMessage(bytes)
           error == ErrorIn(ValueIn(m, ERROR_CODE)) IN
       Reads(CASE m.method = DATA ->
                    [what |-> "data", client |-> got.client,
                     peer |-> AddressIn(m, XOR_PEER_ADDRESS),
                     payload |-> ValueIn(m, DATA_ATTRIBUTE)]
               [] m.method = ALLOCATE /\ m.clazz = SUCCESS_RESPONSE ->
                    [what |-> "allocated", client |-> got.client,
                     relay |-> AddressIn(m, XOR_RELAYED_ADDRESS),
                     mapped |-> AddressIn(m, XOR_MAPPED_ADDRESS)]
               [] OTHER ->
                    [what |-> "unauthorised", client |-> got.client,
                     code |-> error.code, reason |-> error.reason])

-----------------------------------------------------------------------------
(* SOCKS *)

OffersAuth(auths) ==
    Sends("server", [what |-> "auth", auths |-> auths], composeAuthHandshake(auths))

AnswersAuth(auth) ==
    Sends("server", [what |-> "method", auth |-> auth], composeAuthResponse(auth))

Requests(command, endpoint) ==
    LET request == [command |-> command, endpoint |-> endpoint] IN
    Sends("server", [what |-> "request", request |-> request], composeRequest(request))

\* With one endpoint or with none.
Responds(reply, endpoints) ==
    Sends("server",
          [what |-> "response",
           response |-> [reply |-> reply,
                         endpoint |-> IF endpoints = <<>> THEN FakeEndpoint
                                                          ELSE endpoints[1]]],
          composeResponse(reply, endpoints))

SendsUdp(endpoint, data, frag) ==
    Sends("server", [what |-> "udp", frag |-> frag,
                     message |-> [endpoint |-> endpoint, data |-> data]],
          <<0, 0, frag>> \o composeDestination(endpoint) \o data)

\* The reader knows by its state which message it is due.
Accepts ==
    CASE meant.what = "auth" -> IsAuthHandshake(bytes)
      [] meant.what = "method" -> IsAuthResponse(bytes)
      [] meant.what = "request" -> IsRequest(bytes)
      [] meant.what = "response" -> IsResponse(bytes)
      [] meant.what = "udp" -> IsUdpMessage(bytes)

Interprets ==
    /\ place = "server"
    /\ Accepts
    /\ Reads(CASE meant.what = "auth" ->
                    [what |-> "auth", auths |-> interpretAuthHandshake(bytes)]
               [] meant.what = "method" ->
                    [what |-> "method", auth |-> interpretAuthResponse(bytes)]
               [] meant.what = "request" ->
                    [what |-> "request", request |-> interpretRequest(bytes)]
               [] meant.what = "response" ->
                    [what |-> "response", response |-> interpretResponse(bytes)]
               [] meant.what = "udp" ->
                    [what |-> "udp", frag |-> 0, message |-> interpretUdpMessage(bytes)])

Refuses ==
    /\ place = "server"
    /\ ~ Accepts
    /\ place' = "refused"
    /\ UNCHANGED <<bytes, meant, got>>

-----------------------------------------------------------------------------
(* The churn pipe *)

Transforms(buffer, key) ==
    /\ IsKey(key)
    /\ Sends("pipe", [what |-> "datagram", buffer |-> buffer, key |-> key],
             transform(buffer, key))

Restores ==
    /\ place = "pipe"
    /\ Reads([what |-> "datagram", buffer |-> restore(bytes, meant.key),
              key |-> meant.key])

-----------------------------------------------------------------------------
\* The next message.
Finishes ==
    /\ place \in {"read", "refused", "thrown"}
    /\ place' = "idle" /\ bytes' = <<>> /\ meant' = Nothing /\ got' = Nothing

StunNext ==
    \/ \E client, peer \in Endpoints, payload \in Payloads :
          ClientSends(client, peer, payload) \/ BackendSendsData(client, peer, payload)
    \/ \E client, relay \in Endpoints : BackendSendsAllocated(client, relay)
    \/ \E client \in Endpoints, code \in {299, 401, 600, 601}, reason \in Payloads :
          FrontendRefuses(client, code, reason)
    \/ FrontendTags \/ BackendReads \/ BackendThrows \/ FrontendForwards \/ ClientReads

SocksNext ==
    \/ \E auths \in AuthLists : OffersAuth(auths)
    \/ \E auth \in {NOAUTH, 255} : AnswersAuth(auth)
    \/ \E endpoint \in SocksEndpoints :
          \/ \E command \in Commands : Requests(command, endpoint)
          \/ \E reply \in {0, 1, 9} : Responds(reply, <<endpoint>>)
          \/ \E data \in Payloads, frag \in 0 .. 1 : SendsUdp(endpoint, data, frag)
    \/ \E reply \in Replies \ {0} : Responds(reply, <<>>)
    \/ Interprets \/ Refuses

PipeNext ==
    \/ \E buffer \in Payloads, key \in Keys : Transforms(buffer, key)
    \/ Restores

Next == StunNext \/ SocksNext \/ PipeNext \/ Finishes

Spec == Init /\ [][Next]_vars

-----------------------------------------------------------------------------
(* Properties *)

OnStunWire == place \in {"frontend", "backend", "ipc", "client"}

\* Every STUN message, also one that was tagged, decoded or signed on its way,
\* is read as one, declares the length that it has, and is a whole number of
\* words: the code's own parser looks at none of this, TURN clients do.
StunFramed ==
    OnStunWire =>
        /\ IsStunMessage(bytes)
        /\ bytes[3] * 256 + bytes[4] = Len(bytes) - 20
        /\ Len(bytes) % 4 = 0

\* What a message, a SOCKS handshake or a datagram was meant to say is what its
\* reader finds in it, for the client it is about: though the frontend formats
\* STUN messages again and decodes the tag inside the bytes it forwards, and the
\* backend's transaction ids are longer than the field that holds them.  The
\* one message that nobody can read is a SEND of no data: the backend throws.
ReadAsMeant ==
    /\ place = "read" => got = meant
    /\ place = "thrown" => meant.what = "send" /\ meant.payload = <<>>
    /\ place = "read" /\ meant.what = "send" => meant.payload # <<>>

\* A response that leaves the frontend ends with a MESSAGE-INTEGRITY attribute,
\* the hash of all that comes before it, the tag included.
SignedLast ==
    place = "client" =>
        LET m == parseStunMessage(bytes) IN
        m.clazz # INDICATION =>
            /\ Last(m.attributes).type = MESSAGE_INTEGRITY
            /\ Last(m.attributes).value = Hmac(SubSeq(bytes, 1, Len(bytes) - 24))

\* What the code does not support, and what it takes for too short: a request
\* for a name of one character, a UDP message that is as short.
Unsupported ==
    CASE meant.what = "auth" -> ~ Contains(meant.auths, NOAUTH)
      [] meant.what = "request" ->
            LET address == meant.request.endpoint.address IN
            \/ meant.request.command = TCP_BIND
            \/ address.type = DNS /\ Len(address.value) < 2
      [] meant.what = "udp" ->
            LET address == meant.message.endpoint.address IN
            \/ meant.frag # 0
            \/ address.type = DNS /\ Len(address.value) + Len(meant.message.data) < 3
      [] OTHER -> FALSE

\* SOCKS messages are refused exactly if they are unsupported.
SocksRefused ==
    /\ place = "refused" => Unsupported
    /\ place = "read" => ~ Unsupported
=============================================================================

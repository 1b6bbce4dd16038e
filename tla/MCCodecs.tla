------------------------------ MODULE MCCodecs ------------------------------
(* Endpoints, names and payloads at the boundaries of their encodings. *)
EXTENDS Codecs

MCEndpoints ==
    [address : {<<127, 0, 0, 1>>, <<33, 18, 164, 255>>}, port : {0, 443, 65535}]

MCPayloads == {<<>>, <<0>>, <<1, 2, 255>>, <<9, 8, 7, 128>>, [i \in 1 .. 260 |-> i % 256]}

Names == {<<97>>, <<97, 98>>, [i \in 1 .. 255 |-> 97]}

Addresses ==
    {[type |-> IP_V4, value |-> <<10, 0, 255, 1>>],
     [type |-> IP_V6, value |-> <<8193, 3512, 0, 0, 255, 256, 0, 65535>>]}
        \cup [type : {DNS}, value : Names]

MCSocksEndpoints == [address : Addresses, port : {0, 255, 256, 65535}]

MCAuthLists == {<<0>>, <<2>>, <<1, 2>>, <<2, 0>>, [i \in 1 .. 255 |-> 255 - i]}

MCKeys == {<<0>>, <<1>>, <<128>>, <<255>>, <<>>, <<1, 2>>}
=============================================================================

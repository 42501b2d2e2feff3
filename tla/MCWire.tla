-------------------------------- MODULE MCWire --------------------------------
(***************************************************************************)
(* Wire for TLC: one packet of each type, and packets of other programs.   *)
(***************************************************************************)
EXTENDS Wire

CONSTANTS A, B, x, y    \* hashes and pieces of data

Ours(p) == [packet |-> p, extension |-> << >>, version |-> VER_NUM]

\* A packet of each type; an IHAVE may be empty.
OursSent ==
    {Ours(p) : p \in {HashPacket(WHOHAS, 0, <<A, B>>), HashPacket(IHAVE, 0, << >>),
                      DataPacket(1, <<x, y>>), AckPacket(1), DeniedPacket(2)}}

\* A GET of another program, which may use extension IDs or another version.
OthersSent ==
    {[packet |-> HashPacket(GET, 1, <<B>>), extension |-> e[1], version |-> e[2]] :
        e \in {<< <<1>>, VER_NUM>>, << <<MAGIC_NUM>>, VER_NUM>>, << << >>, VER_NUM + 1>>}}

AllSent == OursSent \cup OthersSent
==============================================================================

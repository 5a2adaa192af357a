------------------------------ MODULE MCPacket ------------------------------
(* Values of the constants of Packet for TLC: an 8-bit size. *)
EXTENDS Packet

MCLimit == 256

MCAll == 0..255

=============================================================================

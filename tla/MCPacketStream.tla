--------------------------- MODULE MCPacketStream ---------------------------
(* PacketStream with buffers of a few bytes, chosen so that packets shorter *)
(* than, equal to and longer than a buffer occur, and the abstract channel  *)
(* it implements.                                                           *)
EXTENDS PacketStream
=============================================================================

---------------------------- MODULE MCUdpReader ----------------------------
(* UdpReader on a small buffer: an empty datagram, one that fits, one that *)
(* fills the buffer and one that is cut.                                   *)
EXTENDS UdpReader

SmallSizes == {0, 1, BufferSize, BufferSize + 1}
=============================================================================

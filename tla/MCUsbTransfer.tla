--------------------------- MODULE MCUsbTransfer ---------------------------
(* Instances of UsbTransfer for TLC: endpoints, and dTD lists around the   *)
(* packet size 2.                                                          *)
EXTENDS UsbTransfer

ControlEndpoints == {0, 16}    \* EP0 OUT and EP0 IN
TwoInEndpoints   == {16, 17}   \* EP0 IN and EP1 IN
BulkEndpoint     == {17}       \* EP1 IN

ShortLists  == {<<0>>, <<1>>, <<2>>, <<3>>, <<4>>}   \* up to two packets
OnePacket   == {<<2>>}
TwoPackets  == {<<3>>}
LongList    == {<<5>>}                                \* three packets
EmptyLater  == {<<2>>, <<0>>}                         \* a packet, or a zero-length one
OneOrTwo    == {<<2>>, <<1, 2>>}                     \* one dTD, or a list of two
SendWithZLT == {<<2, 0>>}                             \* XUsbPs_EpBufferSendWithZLT
=============================================================================

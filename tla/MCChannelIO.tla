---------------------------- MODULE MCChannelIO ----------------------------
(* Instances of ChannelIO: the transports, and which message is too long.   *)
EXTENDS ChannelIO

MCBoth == {"serial", "usb"}
MCUsb == {"usb"}
MCOversized == {2}

============================================================================

------------------------- MODULE MCRealtimeTransport -------------------------
(* Small instances of RealtimeTransport: two users log in one after the    *)
(* other on one device.                                                    *)
EXTENDS RealtimeTransport
=============================================================================

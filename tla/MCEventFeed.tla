---------------------------- MODULE MCEventFeed ----------------------------
(* EventFeed for TLC: an event stream and a websocket of one user.          *)
EXTENDS EventFeed

=============================================================================

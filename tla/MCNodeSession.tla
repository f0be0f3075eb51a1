---------------------------- MODULE MCNodeSession ----------------------------
(* Instances of NodeSession for model checking. *)
EXTENDS NodeSession

AnyConnection == {"kInbound", "kOutbound"}
AnyTransport == {"plain", "tls"}
Plain == {"plain"}
AllMessages == MessageTypes
AnyHandshake == {"version", "badversion", "verack", "pong"}
HandshakeAndRequest == {"version", "verack", "getaddr"}
=============================================================================

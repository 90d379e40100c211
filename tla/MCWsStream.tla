----------------------------- MODULE MCWsStream -----------------------------
(***************************************************************************)
(* Instances of WsStream for TLC.                                          *)
(***************************************************************************)
EXTENDS WsStream

\* One read and one write at a time, where a ping and a close count as a write:
\* "Thread Safety" in doc/websocket.qbk.
OneWriter == {{"read", o} : o \in {"write", "ping", "close"}}

\* "callers can have a simultaneously active read, write, and ping operation in
\* progress": "Control Frames" in doc/websocket.qbk.
ReadWritePing == {{"read", "write", "ping"}}
=============================================================================

----------------------------- MODULE MCTcpUpload -----------------------------
(***************************************************************************)
(* Small instances of TcpUpload.                                           *)
(***************************************************************************)
EXTENDS TcpUpload, TLC

CONSTANTS c1, c2, c3

\* tcpclient.cpp with a file of two messages, tcpclient2.cpp with three of which
\* the second has no text, and tcpclient2.cpp with "get".
Three == {c1, c2, c3}
PutPutGet == (c1 :> "put") @@ (c2 :> "put") @@ (c3 :> "get")
ThreeFiles == (c1 :> <<"text", "text">>) @@ (c2 :> <<"text", "empty", "text">>) @@ (c3 :> <<>>)
FirstStops == {c1}

\* tcpclient2.cpp alone.
One == {c1}
Put == c1 :> "put"
OneMessage == c1 :> <<"text">>
NoneStops == {}
=============================================================================

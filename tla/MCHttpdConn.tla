----------------------------- MODULE MCHttpdConn -----------------------------
(***************************************************************************)
(* Request mixes for HttpdConn.                                            *)
(***************************************************************************)
EXTENDS HttpdConn

\* Any request: with a body longer than the post buffer for every CGI function.
AnyRequests == [keep : BOOLEAN, len : {0, 2, 3}, kind : CgiKinds \cup {"cors"}]

\* What the web pages of the firmware do: a body longer than the post buffer is
\* only sent to the CGI function that streams it.
PageRequests == {r \in AnyRequests : r.len > MaxPost => r.kind = "upload"}

\* Those, but HTTP/1.0 clients ask for no static file and for no page.
BrowserRequests == {r \in PageRequests : r.kind \in {"file", "page"} => r.keep}
=============================================================================

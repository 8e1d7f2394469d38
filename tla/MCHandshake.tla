---------------------------- MODULE MCHandshake ----------------------------
(***************************************************************************)
(* What the client may send in the runs of Handshake.  Inside TLS there    *)
(* are only packets and data; everything may be sent in the clear.         *)
(***************************************************************************)
EXTENDS Handshake

Clear(kinds) == [kind : kinds, tls : {FALSE}]
Secure(kinds) == [kind : kinds, tls : {TRUE}]

\* A kind for each path in the clear, a ClientHello out of place standing for
\* whatever is no packet, and one for each path inside TLS.
SafetyMenu ==
    Clear({"proxy", "badProxy", "ssl", "gss", "cancel", "startup32", "hello"})
    \cup Secure({"startup30", "startup2", "badLen"})

\* The way through TLS, with plaintext packets to pipeline behind it.
TlsMenu ==
    Clear({"proxy", "ssl", "hello", "startup32"}) \cup Secure({"startup32", "cancel"})
=============================================================================

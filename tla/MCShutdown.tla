----------------------------- MODULE MCShutdown -----------------------------
(* One DNS request, a slow upload over HTTP and a request over HTTPS.      *)
EXTENDS Shutdown

CONSTANTS q1, u1, g1
MCEvents == {q1, u1, g1}
MCServerOf == [e \in {q1, u1, g1} |->
                 CASE e = q1 -> "udp" [] e = u1 -> "http" [] e = g1 -> "https"]
=============================================================================

----------------------------- MODULE KdsClaims ------------------------------
(* What the comments of hub.go say of Unregister. *)
EXTENDS MCKdsHub

\* hub.go:86 answers a full buffer with "Client buffer full -- unregister", and
\* hub.go:56 says "Unregister removes a client from its tenant room": a client
\* that is cut off is removed, and nothing else happens.  Its own readPump
\* unregisters it again, and the second close of its channel ends the process.
SlowClientIsOnlyRemoved == fate # "closed twice"
=============================================================================

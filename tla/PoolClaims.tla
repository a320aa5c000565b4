----------------------------- MODULE PoolClaims -----------------------------
(* What the comments of tenant.go say of the connection of a request. *)
EXTENDS MCConnPool

\* tenant.go:27: "Acquire a dedicated connection for this request so we can set
\* the session-level variable without affecting other requests", and tenant.go:45:
\* "Store the scoped connection in context so handlers can use it".  Requests
\* that hold one each and wait for another stop each other and everyone else.
RequestsDoNotBlockEachOther == ~Gridlock
=============================================================================

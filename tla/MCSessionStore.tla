--------------------------- MODULE MCSessionStore ---------------------------
(* Small instances of SessionStore.                                        *)
EXTENDS SessionStore

CONSTANTS w1, w2

=============================================================================

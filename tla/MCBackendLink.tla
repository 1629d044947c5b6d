--------------------------- MODULE MCBackendLink ----------------------------
(* Two backends that take turns at most MaxMoves times.                    *)
EXTENDS BackendLink
=============================================================================

----------------------------- MODULE MCHttpRequest -----------------------------
(***************************************************************************)
(* A small instance of HttpRequest: a body that fits the limit exactly, one *)
(* that passes it, and none; and three timeouts, of 3, 6 and 9 milliseconds, *)
(* which an int of three bits makes 3, -2 and 1.                            *)
(***************************************************************************)
EXTENDS HttpRequest

MCStatuses == {200, 204, 304, 503}
MCLengths == {0, 1, 2, 3}
=============================================================================

-------------------------- MODULE MCTeachingSession --------------------------
(***************************************************************************)
(* A small instance of TeachingSession: two concurrent requests, one       *)
(* browser.  The recovery reads as many rows as the log can hold.          *)
(***************************************************************************)
EXTENDS TeachingSession

=============================================================================

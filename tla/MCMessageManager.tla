---------------------------- MODULE MCMessageManager ----------------------------
(***************************************************************************)
(* A small MessageManager: two messages, two registrations, two posts, and *)
(* six frames, which hold two nested process() calls, each with a dispatch *)
(* and a running callback. It stops where the bounds leave an idle manager *)
(* nothing to do.                                                          *)
(***************************************************************************)
EXTENDS MessageManager
=============================================================================

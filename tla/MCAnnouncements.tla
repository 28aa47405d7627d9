--------------------------- MODULE MCAnnouncements ---------------------------
(***************************************************************************)
(* An instance of Announcements for TLC: one block with a transaction,     *)
(* announced and migrated in every order, lists of two entries that are    *)
(* already full.                                                           *)
(***************************************************************************)
EXTENDS Announcements
=============================================================================

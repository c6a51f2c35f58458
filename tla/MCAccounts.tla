----------------------------- MODULE MCAccounts -----------------------------
(***************************************************************************)
(* Accounts for TLC: two requests at a time of one browser.                *)
(***************************************************************************)
EXTENDS Accounts
=============================================================================

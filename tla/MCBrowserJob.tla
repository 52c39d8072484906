---------------------------- MODULE MCBrowserJob ----------------------------
(* Small instances of BrowserJob for TLC.                                  *)
EXTENDS BrowserJob

(* The ids of the opening, of every page, and of Browser.close. *)
ExactMaxId == 3 + Pages * (1 + PerPage) + 1
=============================================================================

----------------------------- MODULE MCLicense -----------------------------
(***************************************************************************)
(* Instance of License for TLC: the loop refreshes in every behaviour, and *)
(* what else happens in it is one of these mixes.                          *)
(***************************************************************************)
EXTENDS License

MCLoads == {{"activate", "refresh", "logout", "revoke", "subscribe"},
            {"activate", "check", "revoke"},
            {"activate", "check", "restart"},
            {"activate", "logout", "switch", "admin"},
            {"activate", "logout", "refresh", "header"}}
=============================================================================

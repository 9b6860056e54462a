---------------------------- MODULE MCUrlValidator ----------------------------
(* Instances of the URL validator for TLC. *)
EXTENDS UrlValidator

MCTools == <<"git", "svn">>
=============================================================================

------------------------------ MODULE MCShell ------------------------------
(* Shell with a shorter name for the echo command, and a shorter banner. *)
EXTENDS Shell

EchoLetter == <<"e">>
BannerText == <<"e", NL, NL>>
=============================================================================

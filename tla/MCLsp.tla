-------------------------------- MODULE MCLsp --------------------------------
(* Two documents of one project. *)
EXTENDS LspDocuments, TLC
CONSTANTS a, b
MCUris == {a, b}
MCOpenable == {a, b}
MCBroken == {2}
MCReports == (a :> {b}) @@ (b :> {})
MCRounds == {<<"manifest">>, <<"sources">>}
=============================================================================

------------------------- MODULE MCAppMarketVersion -------------------------
(***************************************************************************)
(* Small instances of AppMarketVersion for TLC.                            *)
(***************************************************************************)
EXTENDS AppMarketVersion

BothPlatforms == {"ios", "harmony"}
MCManifestPlatforms == {"ios"}
=============================================================================

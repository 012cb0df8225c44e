---------------------------- MODULE MCMapDownload ---------------------------
(* Instance of MapDownload for the model checker: two names of map files,   *)
(* one of which the service installs under.                                 *)
EXTENDS MapDownload

CONSTANTS map1, map2   \* navitmap_001.bin, and a map installed by hand

MapNames == {map1, map2}
=============================================================================

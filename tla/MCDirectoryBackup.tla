------------------------- MODULE MCDirectoryBackup -------------------------
(* Two sources, of which the name of the second begins the name of the first *)
EXTENDS DirectoryBackup

TwoSources == <<"docs2", "docs">>
Beginnings == {<<"docs2", "docs2">>, <<"docs2", "docs">>, <<"docs", "docs">>}
OneFile    == <<"file">>
=============================================================================

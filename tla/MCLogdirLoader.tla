----------------------------- MODULE MCLogdirLoader -----------------------------
(* Bounds for TLC: a log directory with a root run, a run and a nested one. *)
EXTENDS LogdirLoader

\* An absolute log directory, as in /logs.
MCLogdir == <<"/", "logs">>
MCDirs == {MCLogdir, MCLogdir \o <<"logs">>, MCLogdir \o <<"logs", "train">>}

\* A relative one; "data" comes before "events.out.tfevents" in a listing.
MCRelativeLogdir == <<"data">>
MCRelativeDirs == {<<"data">>, <<"data", "data">>, <<"data", "data", "train">>}
=============================================================================

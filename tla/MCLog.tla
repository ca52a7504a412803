-------------------------------- MODULE MCLog --------------------------------
(* Loggers and types for TLC: the root, a logger, one below it and one three parts deep. *)
EXTENDS Log

MCLoggerNames == {Root, <<"network">>, <<"network", "buffer">>}
MCTypes == MCLoggerNames \cup {<<"config">>, <<"network", "buffer", "read">>}

=============================================================================

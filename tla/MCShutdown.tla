------------------------------ MODULE MCShutdown ------------------------------
(* A small instance of ShutdownProtocol: main's thread and one more, the        *)
(* utility module and one threadless module that supports shutdown.             *)
EXTENDS ShutdownProtocol

CONSTANTS app, data, utilmod, location

MCThreaded == {app, data}
MCThreadless == {utilmod, location}
MCSupports == {app, data, location}
=============================================================================

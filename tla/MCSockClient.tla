---------------------------- MODULE MCSockClient ----------------------------
(***************************************************************************)
(* A PLC that sends three of the messages of main.c and appconfig.json,    *)
(* ended by a line feed; READ and TEST01 have routes.  recv() may cut a    *)
(* message anywhere or join several, up to what the buffer holds: READ is  *)
(* told from the others wherever it cuts, TEST01 is a part of RETEST01.    *)
(***************************************************************************)
EXTENDS SockClient

MCFds        == {3, 4}
MCCommands   == {<<"TEST", "01">>, <<"READ">>}
MCMessages   == MCCommands \cup {<<"RE", "TEST", "01">>}
MCTerminator == <<"LF">>
MCBlank      == {"CR", "LF"}
=============================================================================

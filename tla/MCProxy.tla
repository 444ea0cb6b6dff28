------------------------------ MODULE MCProxy ------------------------------
(***************************************************************************)
(* Configurations of Proxy for TLC.                                        *)
(***************************************************************************)
EXTENDS Proxy

Route(c, f, t, r) == [cmd |-> c, from |-> f, to |-> t, reply |-> r]

\* The names a configuration uses, read off its routes and devices.
NamesIn(devices, routes) ==
  devices \cup UNION {{routes[i].from, routes[i].reply} \cup Range(routes[i].to) :
                       i \in DOMAIN routes}

CommandsIn(routes) == {routes[i].cmd : i \in DOMAIN routes}

\* appconfig.json as shipped, and what an edit of it may add: a SockServer to
\* be told something, a command without targets, and a tester under a name
\* that is not configured.
SiteThreads == {"SGRFID", "PLC", "MAC01"}
SiteSockets == {"PLC", "MAC01"}
SiteDevices == SiteThreads \cup {"SERVER"}
ShippedRoutes ==
  << Route("READ",   "PLC", <<"SGRFID">>, "PLC"),
     Route("WRITE",  "PLC", <<"SGRFID">>, "PLC"),
     Route("TEST01", "PLC", <<"MAC01">>, "PLC_MAC01") >>
SiteRoutes ==
  ShippedRoutes \o
  << Route("LOG",    "PLC", <<"SERVER">>, "PLC"),
     Route("NOP",    "PLC", <<>>, "PLC"),
     Route("TEST09", "PLC", <<"MAC01", "MAC09">>, "PLC_MAC01") >>

\* What the proof that answers come back takes for granted holds of them.
Site == INSTANCE Proxy WITH Routes <- SiteRoutes
ASSUME SiteAssumption == Site!Consistent

\* Two controllers share two testers; every answer goes to the first one.
SharedDevices == {"PLC", "PLC2", "MAC01", "MAC02"}
SharedRoutes ==
  << Route("TEST01", "PLC",  <<"MAC01", "MAC02">>, "PLC"),
     Route("TEST02", "PLC2", <<"MAC02">>, "PLC") >>
SharedNames    == NamesIn(SharedDevices, SharedRoutes)
SharedCommands == CommandsIn(SharedRoutes)

\* The site with routes by which PLC and MAC01 command each other, so that both
\* are targets and replies.
MeshRoutes ==
  SiteRoutes \o
  << Route("GO", "PLC", <<"MAC01">>, "PLC"), Route("STOP", "MAC01", <<"PLC", "MAC01">>, "MAC01") >>
MeshNames    == NamesIn(SiteDevices, MeshRoutes)
MeshCommands == CommandsIn(MeshRoutes)

MCReaders      == {"SGRFID"}
MCReadCommands == {"READ"}
=============================================================================

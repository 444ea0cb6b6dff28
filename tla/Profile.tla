------------------------------ MODULE Profile ------------------------------
(***************************************************************************)
(* parse_profile_file (profile.c) and what main makes of it: the devices   *)
(* and the routes of a configuration file.  Missing and mistyped members   *)
(* are mostly not tested for: where the code follows a NULL the process    *)
(* crashes.  Names are taken to fit their buffers.                         *)
(***************************************************************************)
EXTENDS CJson

\* The names the code looks for.
Key ==
  [DEVICES |-> <<68, 69, 86, 73, 67, 69, 83>>,
   CMDROUTE |-> <<67, 77, 68, 82, 79, 85, 84, 69>>,
   mode |-> <<109, 111, 100, 101>>,
   SerialPort |-> <<83, 101, 114, 105, 97, 108, 80, 111, 114, 116>>,
   dev |-> <<100, 101, 118>>,
   speed |-> <<115, 112, 101, 101, 100>>,
   SockClient |-> <<83, 111, 99, 107, 67, 108, 105, 101, 110, 116>>,
   SockServer |-> <<83, 111, 99, 107, 83, 101, 114, 118, 101, 114>>,
   ip |-> <<105, 112>>,
   port |-> <<112, 111, 114, 116>>,
   from |-> <<102, 114, 111, 109>>,
   to |-> <<116, 111>>,
   reply |-> <<114, 101, 112, 108, 121>>]
Modes == {Key.SerialPort, Key.SockClient, Key.SockServer}

\* A pointer to nothing that is followed, and a function's NULL.
Crash == [crash |-> TRUE]
Nil   == [nil |-> TRUE]

\* The members of data that the loop over them copies into fields, the last of
\* a name counting; names are compared to the letter.
Field(data, name, value, default) ==
  FoldLeft(LAMBDA v, node : IF node.string = name THEN node[value] ELSE v, default, data.child)
Place(data, name)  == Field(data, name, "valuestring", <<>>)
Number(data, name) == Field(data, name, "valueint", 0)

\* strcpy of a member that is no string.
CopiesNull(data, name) == \E i \in DOMAIN data.child :
  data.child[i].string = name /\ data.child[i].valuestring = NULL

Device(name, mode, data, place, number) ==
  IF CopiesNull(data, place) THEN Crash
  ELSE [name |-> name, mode |-> mode, place |-> Place(data, place), number |-> Number(data, number)]

fill_uart_profile(name, mode, data)   == Device(name, mode, data, Key.dev, Key.speed)
fill_socket_profile(name, mode, data) == Device(name, mode, data, Key.ip, Key.port)

parse_devices_profile_node(name, data) ==
  LET mode == cJSON_GetObjectItem(data, Key.mode).valuestring
  IN  IF mode = NULL THEN Crash
      ELSE IF mode \notin Modes THEN Nil
      ELSE IF mode = Key.SerialPort THEN fill_uart_profile(name, mode, data)
      ELSE fill_socket_profile(name, mode, data)

\* Fault: the loop ends one early.
TargetsButLast(to) ==
  <<>> \o [i \in 1 .. cJSON_GetArraySize(to) - 1 |-> cJSON_GetArrayItem(to, i - 1).valuestring]

\* The strings of whatever "to" has for members, if it has.
Targets(to) ==
  <<>> \o [i \in 1 .. cJSON_GetArraySize(to) |-> cJSON_GetArrayItem(to, i - 1).valuestring]

parse_route_profile_node(cmd, data) ==
  LET from  == cJSON_GetObjectItem(data, Key.from).valuestring
      to    == cJSON_GetObjectItem(data, Key.to)
      reply == cJSON_GetObjectItem(data, Key.reply).valuestring
      names == Targets(to)
  IN  IF from = NULL \/ Contains(names, NULL) \/ reply = NULL THEN Crash
      ELSE [cmd |-> cmd, from |-> from, to |-> names, reply |-> reply]

\* The loop over the members of items: what it makes of them ends with the
\* first that fails.
UpToFailure(nodes) ==
  LET bad == {i \in DOMAIN nodes : nodes[i] \in {Crash, Nil}}
  IN  IF bad = {} THEN nodes
      ELSE SubSeq(nodes, 1, CHOOSE i \in bad : \A j \in bad : i <= j)

\* Each node is made of the first member that has its name.
parse_devices_profile(json) ==
  LET items   == cJSON_GetObjectItem(json, Key.DEVICES)
      name(i) == items.child[i].string
  IN  UpToFailure(<<>> \o [i \in DOMAIN items.child |->
        parse_devices_profile_node(name(i), cJSON_GetObjectItem(items, name(i)))])

parse_route_profile(json) ==
  LET items   == cJSON_GetObjectItem(json, Key.CMDROUTE)
      name(i) == items.child[i].string
  IN  UpToFailure(<<>> \o [i \in DOMAIN items.child |->
        parse_route_profile_node(name(i), cJSON_GetObjectItem(items, name(i)))])

\* What becomes of the process: it runs with what has been read, exits, or
\* crashes, also when a malloc of the lists is refused: it is not asked whether
\* it has succeeded.
Outcome(devices, routes, calls, refused) ==
  LET blocks    == Len(SelectSeq(devices, LAMBDA d : d # Nil))
      within(n) == refused \in calls + 1 .. calls + n
  IN  IF Contains(devices, Crash) \/ within(blocks) THEN "crashes"
      ELSE IF Contains(devices, Nil) THEN "exits"
      ELSE IF Contains(routes, Crash) THEN "crashes"
      ELSE IF within(FoldLeft(LAMBDA n, r : n + 1 + Len(r.to), blocks, routes)) THEN "crashes"
      ELSE "runs"

WithLists(json, devices, routes, refused) ==
  LET outcome == Outcome(devices, routes, json.b.calls, refused)
  IN  [outcome |-> outcome, tree |-> json.item, live |-> json.b.live,
       refused |-> refused \in 1 .. json.b.calls,
       devices |-> IF outcome = "runs" THEN devices ELSE <<>>,
       routes  |-> IF outcome = "runs" THEN routes ELSE <<>>]

\* parse_profile_file.  Of a text that is not JSON nothing is read, and the
\* process runs with nothing.
Loaded(json, refused) ==
  WithLists(json, parse_devices_profile(json.item), parse_route_profile(json.item), refused)
Load(content, refused) == Loaded(cJSON_Parse(content, refused), refused)
=============================================================================

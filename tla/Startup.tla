------------------------------ MODULE Startup ------------------------------
(***************************************************************************)
(* A started process and its configuration: the supervisor of module       *)
(* Launch, with the parser and the reader of the configuration (modules    *)
(* CJson and Profile) for what a process reads, and what must come of it.  *)
(* A configuration also has what is written in it, if it is whole: tree,   *)
(* its strings up to their first NUL.  A string token with an escape that  *)
(* is none has the field wrong.                                            *)
(***************************************************************************)
EXTENDS Launch, Profile

(* What is well-formed, by an automaton over the tokens but for blanks:    *)
(* what it wants next, and the brackets that are open.                     *)

Leaf(tok) ==
  \/ tok.t \in {"null", "true", "false", "number", "huge", "-huge"}
  \/ tok.t = "string" /\ "wrong" \notin DOMAIN tok

Seen(st, tok) ==
  LET top    == Last(st.open)
      to(w)  == [st EXCEPT !.wants = w]
      push   == IF Len(st.open) >= NestingLimit THEN to("nothing")
                ELSE [wants |-> IF tok.t = "[" THEN "value or ]" ELSE "name or }", open |-> Append(st.open, tok.t)]
      filled(open) == [wants |-> IF open = <<>> THEN "no more" ELSE "comma", open |-> open]
  IN  CASE st.wants \in {"no more", "nothing"} -> st
        [] st.wants \in {"value", "value or ]"} /\ Leaf(tok)          -> filled(st.open)
        [] st.wants \in {"value", "value or ]"} /\ tok.t \in {"[", "{"} -> push
        [] st.wants \in {"name", "name or }"} /\ Leaf(tok) /\ tok.t = "string" -> to("colon")
        [] st.wants = "colon" /\ tok.t = ":"                         -> to("value")
        [] st.wants = "comma" /\ tok.t = ","                         -> to(IF top = "[" THEN "value" ELSE "name")
        [] tok.t = "]" /\ (st.wants = "value or ]" \/ (st.wants = "comma" /\ top = "[")) -> filled(Front(st.open))
        [] tok.t = "}" /\ (st.wants = "name or }" \/ (st.wants = "comma" /\ top = "{"))  -> filled(Front(st.open))
        [] OTHER -> to("nothing")

WellFormed(text) ==
  LET body == IF Len(text) > 1 /\ text[1].t = "bom" THEN Tail(text) ELSE text
      seen == FoldLeft(Seen, [wants |-> "value", open |-> <<>>],
                       SelectSeq(body, LAMBDA tok : tok.t # " "))
  IN  seen.wants = "no more"

\* A tree with its strings as characters.
RECURSIVE Meant(_)
Meant(item) ==
  [item EXCEPT !.string = CodePoints(@), !.valuestring = CodePoints(@),
               !.child = <<>> \o [i \in DOMAIN @ |-> Meant(@[i])]]

(* A process reads a configuration exactly when it begins with a complete  *)
(* well-formed value, no more deeply nested than allowed, whatever follows *)
(* it in memory (the buffer is not terminated), and gets the tree that is  *)
(* written there, escapes and all; a refused allocation leaves it nothing. *)
(* Looser than JSON: the digits of an escape are not checked.  Four        *)
(* characters of which one is no digit are the code 0 (cJSON.c:560), so    *)
(* that "A\uZZZZ" counts as well-formed and reads as "A"; and numbers are  *)
(* what strtod takes for one, cut to an int.                               *)
TreeAsWritten ==
  loaded # NothingLoaded =>
    /\ loaded.tree # NoItem => WellFormed(file.text) /\ (file.whole => Meant(loaded.tree) = file.tree)
    /\ loaded.tree = NoItem => ~WellFormed(file.text) \/ loaded.refused

(* Whatever is wrong with the text and whichever allocation is refused,    *)
(* every block the parser has taken is in the tree it returns, or free.    *)
NothingLost ==
  loaded # NothingLoaded =>
    loaded.live = IF loaded.tree = NoItem THEN 0 ELSE Blocks(<<loaded.tree>>)

\* The member of an object of a name, in any case or to the letter.
Member(item, name, Same(_, _)) ==
  LET at == {i \in DOMAIN item.child : Same(item.child[i].string, name)}
  IN  IF at = {} THEN NoItem ELSE item.child[CHOOSE i \in at : TRUE]
AnyCase(s, t) == case_insensitive_strcmp(s, t) = 0
Exactly(s, t) == s = t

\* No object has two members of one name, be it in different case.
RECURSIVE Distinct(_)
Distinct(item) ==
  /\ \A i, j \in DOMAIN item.child :
       i # j /\ item.type = "Object" =>
         case_insensitive_strcmp(item.child[i].string, item.child[j].string) # 0
  /\ \A i \in DOMAIN item.child : Distinct(item.child[i])

(* If no two names of an object differ in case only, a process that runs   *)
(* runs with every device and every route of its configuration, in their   *)
(* order and with what is written about each; or with none at all, if      *)
(* memory was refused.  (ip, port, dev and speed must be written in small  *)
(* letters; the other names may be in any.)                                *)
DevicesAsWritten ==
  LET text(item, name) == Member(item, Key[name], AnyCase).valuestring
      list(name) == Member(file.tree, name, AnyCase).child
      place(d) == IF text(d, "mode") = Key.SerialPort THEN <<"dev", "speed">> ELSE <<"ip", "port">>
      device(d) ==
        LET at == Member(d, Key[place(d)[1]], Exactly).valuestring
        IN  [name |-> d.string, mode |-> text(d, "mode"), place |-> IF at = NULL THEN <<>> ELSE at,
             number |-> Member(d, Key[place(d)[2]], Exactly).valueint]
      route(r) ==
        LET to == Member(r, Key.to, AnyCase).child
        IN  [cmd |-> r.string, from |-> text(r, "from"), reply |-> text(r, "reply"),
             to |-> [j \in DOMAIN to |-> to[j].valuestring]]
      read(d)   == [d EXCEPT !.name = CodePoints(@)]
      readto(r) == [r EXCEPT !.from = CodePoints(@), !.reply = CodePoints(@),
                             !.to = [j \in DOMAIN @ |-> CodePoints(@[j])]]
      devices == list(Key.DEVICES)
      routes  == list(Key.CMDROUTE)
  IN  loaded.outcome = "runs" /\ file.whole /\ Distinct(file.tree) /\ loaded.tree # NoItem =>
        /\ [i \in DOMAIN loaded.devices |-> read(loaded.devices[i])] = [i \in DOMAIN devices |-> device(devices[i])]
        /\ [i \in DOMAIN loaded.routes |-> readto(loaded.routes[i])] = [i \in DOMAIN routes |-> route(routes[i])]
=============================================================================

------------------------------- MODULE CJson -------------------------------
(***************************************************************************)
(* cJSON_Parse (cJSON.c): a text becomes a tree of nodes, by one function  *)
(* for each kind of value, until the first complete value has been read;   *)
(* any of its allocations may be refused.  The text is a sequence of       *)
(* tokens: [t |-> "string", v |-> its bytes up to the closing quote],      *)
(* [t |-> "number", v |-> <<its value>>], and [t |-> x] for the rest: { }  *)
(* [ ] , : null true false, a blank, the byte order mark, numbers beyond   *)
(* int ("huge", "-huge") or without digits ("-"), "open" for a string      *)
(* without a closing quote and "other" for anything else.                  *)
(***************************************************************************)
EXTENDS JsonText

CONSTANT NestingLimit   \* CJSON_NESTING_LIMIT: 1000

\* The char pointer NULL: no string holds a NUL.
NULL == <<0>>

NewItem == [type |-> "Invalid", string |-> NULL, valuestring |-> NULL, valueint |-> 0, child |-> <<>>]

\* The cJSON pointer NULL.
NoItem == [NewItem EXCEPT !.type = "NULL pointer"]

\* The blocks that cJSON_Delete frees with a list of nodes.
RECURSIVE Blocks(_)
Blocks(list) ==
  FoldLeft(LAMBDA n, item : n + 1 + (IF item.string = NULL THEN 0 ELSE 1)
                              + (IF item.valuestring = NULL THEN 0 ELSE 1) + Blocks(item.child),
           0, list)

------------------------------------------------------------------------------
(* The parse_buffer b: content, offset and depth, with its hooks: the      *)
(* blocks allocated and not freed, the calls so far and the call refused.  *)

Tok(b)     == IF b.offset <= Len(b.content) THEN b.content[b.offset].t ELSE "NUL"
Advance(b) == [b EXCEPT !.offset = @ + 1]

Refused(b)      == b.calls + 1 = b.refused
Allocate(b)     == [b EXCEPT !.calls = @ + 1, !.live = IF Refused(b) THEN @ ELSE @ + 1]
Deallocate(b)   == [b EXCEPT !.live = @ - 1]

\* Fault: what a node owns is forgotten.
DeleteNodes(list, b) == [b EXCEPT !.live = @ - Len(list)]

\* cJSON_Delete
Delete(list, b) == [b EXCEPT !.live = @ - Blocks(list)]

\* The NUL is a blank too, but its place is returned to.
buffer_skip_whitespace(b) ==
  [b EXCEPT !.offset = CHOOSE n \in @ .. Len(b.content) + 1 :
     /\ n <= Len(b.content) => b.content[n].t # " "
     /\ \A m \in @ .. n - 1 : b.content[m].t = " "]

\* The mark is looked for only if something follows it.
skip_utf8_bom(b) ==
  IF Tok(b) = "bom" /\ Len(b.content) >= 2 THEN Advance(b) ELSE b

Done(item, b)   == [ok |-> TRUE, item |-> item, b |-> b]
Failed(item, b) == [ok |-> FALSE, item |-> item, b |-> b]

\* parse_string for the bytes that its text stands for: the output is allocated
\* before the escapes are looked at.
Filled(item, b, bytes) ==
  IF Refused(b) THEN Failed(item, Allocate(b))
  ELSE IF Fails(bytes) THEN Failed(item, Deallocate(Allocate(b)))
  ELSE Done([item EXCEPT !.type = "String", !.valuestring = CString(bytes)], Advance(Allocate(b)))

parse_string(item, b) ==
  IF Tok(b) # "string" THEN Failed(item, b) ELSE Filled(item, b, Unescaped(b.content[b.offset].v))

INT_MAX == 2147483647
Numbers == {"number", "huge", "-huge", "-"}

\* strtod's value cut to an int; strtod makes nothing of "-".
parse_number(item, b) ==
  LET n == CASE Tok(b) = "huge" -> INT_MAX [] Tok(b) = "-huge" -> -INT_MAX - 1
             [] OTHER -> b.content[b.offset].v[1]
  IN  IF Tok(b) = "-" THEN Failed(item, b)
      ELSE Done([item EXCEPT !.type = "Number", !.valueint = n], Advance(b))

RECURSIVE parse_value(_, _), parse_members(_, _, _)

\* The name of an object's member, moved from valuestring to string, and the
\* colon after it.
AfterName(name) ==
  LET colon == buffer_skip_whitespace(name.b)
      named == [name.item EXCEPT !.string = name.item.valuestring, !.valuestring = NULL]
  IN  IF ~name.ok THEN name
      ELSE IF Tok(colon) # ":" THEN Failed(named, colon)
      ELSE Done(named, buffer_skip_whitespace(Advance(colon)))

\* Behind a member: on to the next, or to the end of the list.
AfterMember(list, value, object) ==
  LET after == buffer_skip_whitespace(value.b)
      all   == Append(list, value.item)
  IN  IF ~value.ok THEN [ok |-> FALSE, list |-> all, b |-> value.b]
      ELSE IF Tok(after) = "," THEN parse_members(all, buffer_skip_whitespace(Advance(after)), object)
      ELSE [ok |-> TRUE, list |-> all, b |-> after]

\* A member from its value on.
FromValue(list, name, object) ==
  IF name.ok THEN AfterMember(list, parse_value(name.item, name.b), object)
  ELSE [ok |-> FALSE, list |-> Append(list, name.item), b |-> name.b]

\* The loop over the members of an array or an object: at each one the nodes
\* so far are list; the last node is in the list also if its parse has failed.
parse_members(list, b, object) ==
  IF Refused(b) THEN [ok |-> FALSE, list |-> list, b |-> Allocate(b)]
  ELSE FromValue(list,
                 IF object THEN AfterName(parse_string(NewItem, Allocate(b))) ELSE Done(NewItem, Allocate(b)),
                 object)

\* The end of parse_array and parse_object: the nodes of the members are
\* deleted if one of them or the closing bracket fails.
Closed(item, members, object) ==
  IF members.ok /\ Tok(members.b) = (IF object THEN "}" ELSE "]")
  THEN Done([item EXCEPT !.type = IF object THEN "Object" ELSE "Array", !.child = members.list],
            Advance([members.b EXCEPT !.depth = @ - 1]))
  ELSE Failed(item, Delete(members.list, members.b))

\* And from their opening bracket on.
Enclosed(item, b, object) ==
  LET inside == buffer_skip_whitespace(Advance([b EXCEPT !.depth = @ + 1]))
  IN  Closed(item,
             IF Tok(inside) = (IF object THEN "}" ELSE "]") THEN [ok |-> TRUE, list |-> <<>>, b |-> inside]
             ELSE parse_members(<<>>, inside, object),
             object)

parse_array(item, b)  == IF b.depth >= NestingLimit THEN Failed(item, b) ELSE Enclosed(item, b, FALSE)
parse_object(item, b) == IF b.depth >= NestingLimit THEN Failed(item, b) ELSE Enclosed(item, b, TRUE)

parse_value(item, b) ==
  CASE Tok(b) = "null"             -> Done([item EXCEPT !.type = "NULL"], Advance(b))
    [] Tok(b) = "false"            -> Done([item EXCEPT !.type = "False"], Advance(b))
    [] Tok(b) = "true"             -> Done([item EXCEPT !.type = "True", !.valueint = 1], Advance(b))
    [] Tok(b) \in {"string", "open"} -> parse_string(item, b)
    [] Tok(b) \in Numbers          -> parse_number(item, b)
    [] Tok(b) = "["                -> parse_array(item, b)
    [] Tok(b) = "{"                -> parse_object(item, b)
    [] OTHER                       -> Failed(item, b)

\* Without a value there is no tree.
Parsed(value) ==
  IF value.ok THEN value ELSE Failed(NoItem, Delete(<<value.item>>, value.b))

\* What follows the first value is not looked at.
cJSON_Parse(content, refused) ==
  LET b == [content |-> content, offset |-> 1, depth |-> 0, live |-> 0, calls |-> 0, refused |-> refused]
  IN  IF Refused(b) THEN Failed(NoItem, Allocate(b))
      ELSE Parsed(parse_value(NewItem, buffer_skip_whitespace(skip_utf8_bom(Allocate(b)))))

------------------------------------------------------------------------------
cJSON_GetArraySize(array) == Len(array.child)

cJSON_GetArrayItem(array, index) ==
  IF index + 1 \in DOMAIN array.child THEN array.child[index + 1] ELSE NoItem

\* The first member of this name, whatever the case of its letters.
cJSON_GetObjectItem(object, name) ==
  LET at == {i \in DOMAIN object.child :
               /\ name # NULL /\ object.child[i].string # NULL
               /\ case_insensitive_strcmp(name, object.child[i].string) = 0}
  IN  IF at = {} THEN NoItem ELSE object.child[CHOOSE i \in at : \A j \in at : i <= j]
=============================================================================

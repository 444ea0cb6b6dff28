------------------------------ MODULE MCStartup ------------------------------
(***************************************************************************)
(* launch.sh with the configurations its process may find: as they should  *)
(* be, in every spelling; with a member missing, doubled or of another     *)
(* type; cut off at every token, with the rest of the buffer after it; and *)
(* not well-formed.                                                        *)
(***************************************************************************)
EXTENDS Startup

\* The bytes of a text of letters and digits.
Ascii == "0123456789:;<=>?@ABCDEFGHIJKLMNOPQRSTUVWXYZ......abcdefghijklmnopqrstuvwxyz"
Chars(s) ==
  <<>> \o [i \in 1 .. Len(s) |-> 47 + CHOOSE n \in 1 .. Len(Ascii) : SubSeq(Ascii, n, n) = SubSeq(s, i, i)]

Item(type)  == [NewItem EXCEPT !.type = type]
S(codes)    == [Item("String") EXCEPT !.valuestring = codes]
T(s)        == S(Chars(s))
N(n)        == [Item("Number") EXCEPT !.valueint = n]
Arr(items)  == [Item("Array") EXCEPT !.child = items]
Obj(pairs)  == [Item("Object") EXCEPT !.child =
                  <<>> \o [i \in DOMAIN pairs |-> [pairs[i][2] EXCEPT !.string = pairs[i][1]]]]
O(pairs)    == Obj([i \in DOMAIN pairs |-> <<Chars(pairs[i][1]), pairs[i][2]>>])

Each(s, Op(_)) == <<>> \o [i \in DOMAIN s |-> Op(s[i])]

\* How a tree is written: every character that is not ASCII, or every one, as
\* an escape; blanks nowhere or everywhere.
Tk(t) == [t |-> t]
Raw(codes, all) == FoldLeft(LAMBDA raw, c : raw \o IF c < 128 /\ ~all THEN <<c>> ELSE Escape(c), <<>>, codes)
Quoted(codes, all) == [t |-> "string", v |-> Raw(codes, all)]
RECURSIVE Written(_, _)
Written(item, all) ==
  LET join == FoldLeft(LAMBDA text, m :
                         (IF text = <<>> THEN <<>> ELSE Append(text, Tk(",")))
                         \o (IF item.type = "Object" THEN <<Quoted(m.string, all), Tk(":")>> ELSE <<>>)
                         \o Written(m, all),
                       <<>>, item.child)
  IN  CASE item.type = "String" -> <<Quoted(item.valuestring, all)>>
        [] item.type = "Number" -> <<[t |-> "number", v |-> <<item.valueint>>]>>
        [] item.type = "Array"  -> <<Tk("[")>> \o join \o <<Tk("]")>>
        [] item.type = "Object" -> <<Tk("{")>> \o join \o <<Tk("}")>>
        [] OTHER                -> <<Tk("null")>>
Spaced(text) == FlattenSeq([i \in DOMAIN text |-> <<Tk(" "), text[i]>>]) \o <<Tk(" ")>>

File(text)          == [text |-> text, whole |-> FALSE, tree |-> NoItem, busy |-> FALSE]
Respelt(tree, text) == [text |-> text, whole |-> TRUE, tree |-> tree, busy |-> FALSE]
Whole(tree)         == Respelt(tree, Written(tree, FALSE))
Busy(tree)          == [Whole(tree) EXCEPT !.busy = TRUE]

------------------------------------------------------------------------------
Plc      == O(<< <<"mode", T("SockClient")>>, <<"ip", T("10")>>, <<"port", N(9600)>> >>)
Rfid     == O(<< <<"mode", T("SerialPort")>>, <<"dev", T("O1")>>, <<"speed", N(115200)>> >>)
Server   == O(<< <<"mode", T("SockServer")>>, <<"port", N(8011)>> >>)
Route(f, to, r) == O(<< <<"from", f>>, <<"to", to>>, <<"reply", r>> >>)
ReadRoute == Route(T("PLC"), Arr(<<T("SGRFID")>>), T("PLC"))
Config(devices, routes) == O(<< <<"DEVICES", devices>>, <<"CMDROUTE", routes>> >>)
Routes  == O(<< <<"READ", ReadRoute>> >>)

Shipped == Config(O(<< <<"SGRFID", Rfid>>, <<"PLC", Plc>> >>), Routes)
Small   == Config(O(<< <<"PLC", Plc>> >>), Routes)
Empty   == Config(O(<<>>), O(<<>>))

\* A device and a route with a name of one such character.
Points == <<128, 233, 2047, 2048, 8364, 55295, 57344, 65535, 65536, 119070, 1114111>>
Named(c) == Config(Obj(<< <<<<80, c>>, Plc>> >>),
                   Obj(<< <<Chars("READ"), Route(S(<<80, c>>), Arr(<<S(<<c>>), S(<<c, 80>>)>>), S(<<c>>))>> >>))

\* Names that are read up to a NUL: an escape for it, or one whose digits are none.
UpToNul == Config(Obj(<< <<<<80>>, Plc>> >>),
                  Obj(<< <<Chars("READ"), Route(S(<<80>>), Arr(<<T(""), T("")>>), T(""))>> >>))
NoDigits == <<92, 117, 90, 90, 90, 90>>
Nul == Written(Named(0), TRUE)
NoDigitsIn(raw) ==
  FlattenSeq([i \in 1 .. Len(raw) \div 6 |->
                LET e == SubSeq(raw, 6 * i - 5, 6 * i) IN IF e = Escape(0) THEN NoDigits ELSE e])
NoNul ==
  Each(Nul, LAMBDA tok : IF tok.t = "string" THEN [tok EXCEPT !.v = NoDigitsIn(@)] ELSE tok)

\* A configuration that is JSON, but not what the program asks for.
OddDevices ==
  << O(<< <<"PLC", O(<< <<"ip", T("10")>> >>)>> >>),           \* no mode
     O(<< <<"PLC", O(<< <<"mode", N(1)>> >>)>> >>),            \* a mode that is no string
     O(<< <<"PLC", Plc>>, <<"X", O(<< <<"mode", T("UDP")>> >>)>>, <<"MAC01", Plc>> >>),
     O(<< <<"PLC", O(<< <<"Mode", T("SockClient")>>, <<"ip", N(10)>> >>)>> >>),
     O(<< <<"PLC", Plc>>, <<"plc", Server>> >>),               \* the same name twice
     O(<<>>), Arr(<<Plc>>), Arr(<<>>), T("PLC"), Item("NULL"), Server >>
OddRoutes ==
  << O(<< <<"READ", O(<< <<"to", Arr(<<>>)>>, <<"reply", T("PLC")>> >>)>> >>),
     O(<< <<"READ", O(<< <<"from", T("PLC")>>, <<"reply", T("PLC")>> >>)>> >>),
     O(<< <<"READ", O(<< <<"from", T("PLC")>> >>)>> >>),
     O(<< <<"READ", Route(T("PLC"), Arr(<<T("MAC01"), N(1)>>), T("PLC"))>> >>),
     O(<< <<"READ", Route(T("PLC"), Arr(<<T("MAC01"), T("MAC02")>>), T("PLC"))>>, <<"TEST01", ReadRoute>> >>),
     Arr(<<ReadRoute>>), O(<<>>) >>
Odd ==
  Each(OddDevices, LAMBDA d : Config(d, Routes))
  \o Each(OddRoutes, LAMBDA r : Config(O(<< <<"PLC", Server>> >>), r))
  \o << O(<<>>), Arr(<<>>), N(1), O(<< <<"devices", O(<< <<"PLC", Plc>> >>)>> >>) >>

\* Cut off before any token or in a string, and what may follow in the buffer.
Rests == << <<>>, <<Tk("}")>>, <<Tk("}"), Tk("}")>>, <<Tk("other")>>, <<Tk("open")>> >>
Cut(text) ==
  FlattenSeq([n \in 1 .. Len(text) |-> Each(Rests, LAMBDA rest : SubSeq(text, 1, n - 1) \o rest)])

\* Values of one token, alone, in an array and in an object.
Wrong(raw) == [t |-> "string", v |-> raw, wrong |-> TRUE]
Loose(raw) == [t |-> "string", v |-> raw]   \* taken nevertheless
Single ==
  << Wrong(<<92, 120>>), Wrong(<<65, 92, 117, 48>>), Wrong(Escape(56320)), Wrong(Escape(55296)),
     Wrong(Escape(55296) \o Escape(65)), Wrong(Escape(55296) \o <<65, 66, 48, 48, 48, 48>>),
     Wrong(Escape(55296) \o NoDigits),
     Loose(NoDigits), Loose(<<65, 92, 117, 52, 71, 49, 49, 66>>), Quoted(<<65, 0>>, TRUE),
     Tk("other"), Tk("bom"), Tk("open"), Tk(","), Tk("huge"), Tk("-huge"), Tk("-"), Tk("true") >>
Texts(s) == Each(s, LAMBDA text : Each(text, Tk))
Malformed ==
  Each(Single, LAMBDA tok : <<tok>>)
  \o Each(Single, LAMBDA tok : <<Tk("["), tok, Tk("]")>>)
  \o Each(Single, LAMBDA tok : <<Tk("{"), tok, Tk(":"), tok, Tk("}")>>)
  \o Texts(<< <<"[", "true", ",", "]">>, <<"[", "false", "}">>, <<"[", "[", "null">>,
              <<"[", "[", "[", "[", "[", "]", "]", "]", "]", "]">>,
              <<"bom">>, <<"bom", "[", "]">>, <<" ", "bom", "[", "]">> >>)

MCFiles == Range(
  << Busy(Empty), Whole(Shipped),
     Respelt(Shipped, Written(Shipped, TRUE)), Respelt(Shipped, Spaced(Written(Shipped, FALSE))),
     Respelt(Shipped, <<Tk("bom")>> \o Written(Shipped, FALSE) \o <<Tk("other")>>),
     Respelt(UpToNul, Nul), Respelt(UpToNul, NoNul) >>
  \o Each(Odd \o Each(Points, Named), Whole)
  \o Each(Cut(Written(Small, FALSE)) \o Malformed, File))
=============================================================================

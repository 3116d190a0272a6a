---------------------------- MODULE MCOperators ----------------------------
EXTENDS Operators, TLC

const_Suffix   == <<<<"0", "0">>, <<"0", "a">>, <<"0", "b">>>>
const_Reserved == {<<"l", "s">>}

(* Names of up to three characters, alone and in pairs of shorter ones;    *)
(* three targets with names that meet; two profiles.                       *)
Names(n)     == BoundedSeq({"a", "B", "-", ".", "~"}, n)
Meeting      == {<<"a">>, <<"A">>, <<"a", "~">>, <<"l", "s">>, <<"a", "-", "0", "b">>,
                 <<"a", ".", "b">>}
Listed(names) == [i \in DOMAIN names |-> [id |-> i, name |-> names[i]]]
Profile(name, names) == [name |-> name, targets |-> Listed(names)]
const_Configurations ==
  {<<Profile(<<"b">>, <<n>>)>> : n \in Names(4)}
    \union {<<Profile(<<"b">>, <<n[1], n[2]>>)>> : n \in Names(2) \X Names(2)}
    \union {<<Profile(<<"b">>, n)>> : n \in [1 .. 3 -> Meeting]}
    \union {<<Profile(<<"a">>, <<n[1]>>), Profile(<<"b">>, <<n[2]>>)>> :
              n \in Meeting \X Meeting}
const_ManualHosts == {{}, {<<"a">>}}

const_ArgumentLists ==
  BoundedSeq({<<"-", "p">>, <<"-", "p", "2">>, <<"-", "v">>, <<"-", "v", "p">>,
              <<"-", "-">>, <<"-">>, <<"x">>, <<>>}, 4)

const_Texts    == BoundedSeq({"I", "N", " ", "x"}, 6)
const_Startups == BoundedSeq({"S", "E", "N", "x"}, 7)

(* Three files of the user's that declare hosts and include each other     *)
Hosts(patterns)  == [kind |-> "host", patterns |-> patterns]
Include(file)    == [kind |-> "include", file |-> file]
Invalid          == [kind |-> "invalid"]
const_Paths      == {"root", "one", "two", "managed", "link", "missing"}
const_Patterns   == {"x", "X", "y", "z", "m", "*", "!x"}
Contents ==
  {<<Hosts({"x", "*"})>>, <<Hosts({"X", "!x"}), Include("one"), Include("two")>>,
   <<Include("root"), Hosts({"y"})>>, <<Include("link"), Include("one"), Hosts({"z"})>>,
   <<Include("two"), Include("managed"), Include("missing")>>, <<Hosts({"z"}), Invalid>>}
const_Trees ==
  {[links |-> links, unreadable |-> unreadable,
    files |-> [f \in {"root", "one", "two"} |-> c[f]]
                @@ [f \in {"managed", "link"} |-> <<Hosts({"m"})>>]] :
     c \in [{"root", "one", "two"} -> Contents], links \in {{"link"}, {"link", "root"}},
     unreadable \in {{}, {"two"}, {"managed"}}}
    \union {[links |-> {}, unreadable |-> {}, files |-> [f \in {"one"} |-> <<Hosts({"x"})>>]]}

(* Events with texts of up to four pieces, and nested ones                 *)
const_Markers == <<"cookie=", "bearer ", "token=">>
Text(text)    == [kind |-> "text", text |-> text]
List(items)   == [kind |-> "list", items |-> items]
Object(plain, secret) ==
  [kind |-> "object", fields |-> <<[key |-> "plain", value |-> plain],
                                   [key |-> "apiToken", value |-> secret]>>]
TextsOf(n)    == BoundedSeq({"cookie=", "bearer ", "token=", " ", "x", "*"}, n)
Number        == [kind |-> "number", number |-> 1]
const_Values  ==
  {Text(t) : t \in TextsOf(4)}
    \union UNION {{List(<<Text(t), Number>>), Object(Text(t), Number),
                   Object(List(<<Text(t)>>), List(<<Text(t)>>)),
                   List(<<Object(Text(t), Text(t)), Text(t)>>)} : t \in TextsOf(2)}

File(age, lines) == [age |-> age, lines |-> lines]
Nested == Object(Text(<<"token=", "x">>), Number)
const_Logs ==
  {[n \in {} |-> {}], [agent |-> File(1, <<Nested, Broken>>)],
   [agent |-> File(2, <<Nested>>), companion |-> File(1, <<Nested>>)],
   [companion |-> File(2, <<Nested>>), other |-> File(2, <<Nested>>)]}

const_Meanwhile == {<<>>, <<Nested>>, Pruned}

const_Schedules ==
  [interval: {0, 3, 6}, jitter: 0 .. 3, initial: 0 .. 3, maximum: {0, 1, 4, 9, 16}]
=============================================================================

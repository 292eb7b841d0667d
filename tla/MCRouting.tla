----------------------------- MODULE MCRouting -----------------------------
(* Projects of pages whose names, Go files, types and routes get in each   *)
(* other's way, built on another system than Windows.                      *)
EXTENDS Routing

MCNames == {"index", "a", "b", "a.b", "a__b", "4", "windows", "$p", "$q"}
MCDynamic == {"$p", "$q"}
MCSegments == {"a", "b", "a-b", "a.b", "a__b", "4", "static"}
MCRegex == [n \in MCNames \ MCDynamic |->
              IF n = "a.b" THEN {"a.b", "a-b"} ELSE {n} \cap MCSegments]
MCPieces == [n \in MCNames |-> IF n = "a__b" THEN <<"a", "b">> ELSE <<n>>]
MCWords == [n \in MCNames |->
              CASE n \in {"a.b", "a__b"} -> <<"A", "B">>
                [] n = "a" -> <<"A">>
                [] n = "b" -> <<"B">>
                [] n = "$p" -> <<"DollarSign", "P">>
                [] n = "$q" -> <<"DollarSign", "Q">>
                [] OTHER -> <<n>>]

MCWalk == << <<"$p", "$p">>, <<"$p">>, <<"4">>, <<"a", "$q">>, <<"a", "b">>,
             <<"a", "index">>, <<"a", "windows">>, <<"a.b">>, <<"a">>,
             <<"a__b">> >>
MCSorted == << <<"$p">>, <<"$p", "$p">>, <<"4">>, <<"a.b">>, <<"a">>,
               <<"a", "$q">>, <<"a", "b">>, <<"a", "index">>, <<"a", "windows">> >>
MCIgnored == {<<"a", "windows">>}
MCPartials == [f \in {MCWalk[i] : i \in DOMAIN MCWalk} |->
                 CASE f = <<"a">> -> << <<"b">> >>
                   [] f = <<"$p">> -> << <<"b", "a">>, <<"b">> >>
                   [] f = <<"a", "index">> -> << <<"a">> >>
                   [] OTHER -> <<>>]
MCPaths == {<<"a">>, <<"a", "">>, <<"a", "b">>, <<"a", "a">>, <<"a-b">>,
            <<"static", "a">>}
=============================================================================

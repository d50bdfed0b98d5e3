----------------------------- MODULE MCJourney ------------------------------
(* Every kind of signature and parameters, an older job of the same and of *)
(* another script; texts with characters of two bytes on either side of    *)
(* every cut; delays below, at and past the scaled widths.                 *)
EXTENDS Journey

MCDecl(async, first, fields) ==
    [async |-> async, first |-> first, ret |-> "result_unit", plain |-> TRUE,
     attr |-> "own", fn |-> "a_function", fields |-> fields]
MCDecls ==
    {MCDecl(TRUE, "box_ctx", f) : f \in {"unit", "optional", "required"}}
        \cup {MCDecl(TRUE, "str", "unit"), [MCDecl(TRUE, "box_ctx", "unit") EXCEPT !.attr = None]}

MCOlder(script) ==
    [script |-> script, kind |-> "cron", expr |-> "good", tz |-> None, at |-> "past",
     params |-> "empty", actor |-> "user", pool |-> "old", region |-> "old", misfire |-> "default",
     enabled |-> TRUE, limits |-> "ok", next |-> "cron"]
MCOlders == {MCOlder("own"), MCOlder("else")}

MCLines == {<<>>, <<"a">>, <<"a", "w">>}
MCMessages ==
    {<<"a">>,
     <<"a", " ", "a", "://", "a", "@", "a">>,
     <<"a", "://", "a", "@", "a", " ", "a", "://", "a", "@", "a">>,
     <<"w", "a", "://", "a">>, <<"w", " ", "a", "://", "a", "@", "w">>,
     <<"a", "://", "a", "@", "a", ",", "a", "://", "a", "@", "a">>,
     <<"a", "://", "a", "/", "a", "@", "a">>, <<"a", "://", "a", ",", "a", "@", "a">>,
     <<"a", "://", "a", "@", "a", "@", "a">>,
     <<"pw=", "a", "w">>, <<"pw=", "w", "a">>, <<"pw=", "a">>, <<"tk=", "pw=", "a", "a", "w">>,
     <<"a", "a", "a", "a", "a", "a", "a", "a", "a", "a", "a", "a">>}
MCPolicy(n, b, x, cap) == [max_attempts |-> n, base |-> b, multiplier |-> x, max_delay |-> cap]
MCPolicies ==
    {MCPolicy(1, 2, 3, 0), MCPolicy(2, 1, 6, 0), MCPolicy(2, 1, 9, 0), MCPolicy(2, 1, 9, 4),
     MCPolicy(2, 1, 20, 4), MCPolicy(2, 1, -3, 4)}
=============================================================================

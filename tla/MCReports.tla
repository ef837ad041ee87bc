----------------------------- MODULE MCReports -----------------------------
(***************************************************************************)
(* Bob replaces his contact list, which makes Ann trusted and then not;    *)
(* an older note of Ann's arrives after a newer one, or before it; a zap   *)
(* by a service; a relay list.                                             *)
(***************************************************************************)
EXTENDS Reports

CONSTANT null

Blank == [P |-> null, p |-> << >>, t |-> {}, r |-> << >>, client |-> null, bolt11 |-> null, request |-> null]
Ev(author, at, kind, more) == more @@ [author |-> author, at |-> at, kind |-> kind] @@ Blank

MCHash == [ann |-> [idx |-> 1, rank |-> 1], bob |-> [idx |-> 2, rank |-> 2], svc |-> [idx |-> 1, rank |-> 2]]
MCTierFloors == <<1, 3>>
Client(name, form) == [name |-> name, form |-> form]

Follow == Ev("bob", 4, "contacts", [p |-> <<"ann", "ann">>, client |-> Client("x", "plain")])
Unfollow == Ev("bob", 5, "contacts", [p |-> <<"bob">>, client |-> Client("x", "versioned")])
Note == Ev("ann", 5, "note", [t |-> {"tag"}, client |-> Client("y", "blank")])
Older == Ev("ann", 1, "note", [t |-> {"tag"}, client |-> Client("z", "plain")])
Zap == Ev("svc", 4, "zap", [P |-> "ann", p |-> <<"bob">>, bolt11 |-> 3000])
Lists == Ev("bob", 5, "relay_list", [r |-> <<[url |-> "h", form |-> "local"], [url |-> "u", form |-> "junk"],
                                             [url |-> "v", form |-> "plain"]>>])
Scenario(order, open, most) == [order |-> order, open |-> open, faults |-> most]
MCScenarios == {
    Scenario(<<Lists, Follow, Zap>>, FALSE, 1),
    Scenario(<<Follow, Note, Unfollow>>, FALSE, 1),
    Scenario(<<Follow>>, FALSE, 2),
    Scenario(<<Note, Older>>, FALSE, 2),
    Scenario(<<Note, Older>>, TRUE, 1) }
MCWatched == <<"new_users">>
=============================================================================

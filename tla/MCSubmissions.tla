---- MODULE MCSubmissions ----
EXTENDS Submissions, StrfryDump
CONSTANTS j1, j2, e1, e2

-----------------------------------------------------------------------------
(* Pages of database files. *)

Leaf(no, nodes) == [no |-> no, kind |-> "leaf", nodes |-> nodes, span |-> 1]
Branch(no, children) ==
    [no |-> no, kind |-> "branch", span |-> 1,
     nodes |-> [i \in DOMAIN children |-> [child |-> children[i]]]]
Overflow(no, span) == [no |-> no, kind |-> "overflow", nodes |-> <<>>, span |-> span]
Rec(key, flag, value) == [key |-> key, flag |-> flag, at |-> 0, size |-> 1, value |-> value]
Big(key, at, size, value) == [key |-> key, flag |-> "big", at |-> at, size |-> size, value |-> value]
Db(root, depth) == [root |-> root, depth |-> depth, entries |-> 1]
MetaPage(txn, root, last) == [magic |-> TRUE, txn |-> txn, last |-> last, db |-> Db(root, 1)]

-----------------------------------------------------------------------------
(* The database that is uploaded.  The second meta page is of a later        *)
(* transaction that is not in the file; of the payloads, one is raw and one  *)
(* needs a dictionary the database does not have.                            *)

MCDatabase ==
    [metas |-> <<MetaPage(1, 2, 5), MetaPage(2, 2, 9)>>,
     pages |-> <<Leaf(2, <<Rec("Meta", "sub", Db(3, 1)),
                           Rec("CompressionDictionary", "sub", Db(4, 1)),
                           Rec("EventPayload", "sub", Db(5, 1))>>),
                 Leaf(3, <<Rec(1, "none", [endian |-> 1, version |-> DbVersion])>>),
                 Leaf(4, <<Rec(7, "none", "dictionary")>>),
                 Leaf(5, <<Rec(1, "none", [tag |-> "zstd", dict |-> 7, sound |-> TRUE, json |-> e2]),
                           Rec(2, "none", [tag |-> "zstd", dict |-> 8, sound |-> TRUE, json |-> e1])>>)>>]

\* A dump with a bad line, and a database that repeats an event of it.
MCContent == (j1 :> <<e1, Bad, e2>>) @@ (j2 :> <<e2, Bad>>)

-----------------------------------------------------------------------------
(* Trees to walk: a branch over two leaves, the second with a value on an    *)
(* overflow page, the four pages in any places of the file; and the same     *)
(* trees with one page number replaced by any other.                         *)

Places == {p \in [{"root", "left", "right", "over"} -> 2..5] :
              \A a, b \in DOMAIN p : a # b => p[a] # p[b]}

Tree(p, left, right, over) ==
    LET at(n) == CHOOSE a \in DOMAIN p : p[a] = n
        page(n) ==
            CASE at(n) = "root" -> Branch(n, <<left, right>>)
              [] at(n) = "left" -> Leaf(n, <<Rec(1, "none", "a"), Rec(2, "none", "b")>>)
              [] at(n) = "right" -> Leaf(n, <<Rec(3, "none", "c"), Big(4, over, 1, "d"), Big(5, over, 1, "d")>>)
              [] at(n) = "over" -> Overflow(n, 1)
    IN [metas |-> <<MetaPage(1, p["root"], 5), MetaPage(0, p["root"], 5)>>,
        pages |-> [i \in 1..4 |-> page(i + 1)]]

Sound(p) == Tree(p, p["left"], p["right"], p["over"])
Twisted(p) == UNION {{Tree(p, n, p["right"], p["over"]), Tree(p, p["left"], n, p["over"]),
                      Tree(p, p["left"], p["right"], n)} : n \in 2..6}

MCTestTrees ==
    UNION {{[file |-> Sound(p), db |-> Db(p["root"], 2), sound |-> TRUE,
             holds |-> <<{"a"}, {"b"}, {"c"}, {"d"}, {"d"}>>]}
           \cup {[file |-> f, db |-> Db(p["root"], d), sound |-> FALSE, holds |-> <<>>] :
                     f \in Twisted(p), d \in 1..4} : p \in Places}

\* On a sound tree the walk of strfry.rs hands out every value, in order,
\* wherever its pages lie in the file; on any other it ends, and does not pass
\* for a reading of more pages than there are ("tree visits more pages than
\* the file holds"); and the content of the uploaded database is what it hands
\* out.  It is about files only, so it is looked at once.
WalkIsExact == Init =>
    /\ \A t \in TestTrees : WalksExactly(t)
    /\ ForEachEvent(MCDatabase) = [ok |-> TRUE, payloads |-> Content[j2]]
====

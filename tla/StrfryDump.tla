----------------------------- MODULE StrfryDump -----------------------------
(***************************************************************************)
(* Reading an uploaded strfry database: the LMDB tree walk and the tables  *)
(* of crates/nostrsearch-server/src/strfry.rs.                             *)
(*                                                                         *)
(* A file is [metas, pages]: two meta pages, and from number 2 on pages    *)
(* [no, kind, nodes, span] whose header may lie about their number.  A     *)
(* node of a branch is [child]; one of a leaf is [key, flag, at, size,     *)
(* value], `at' being the overflow page of a value that does not fit.  A   *)
(* read that leaves its page or the file is the flag or kind "torn".  What *)
(* a value decodes to is part of the value.                                *)
(***************************************************************************)
EXTENDS Integers, Sequences, FiniteSets, SequencesExt

CONSTANTS
    NoPage,             \* u64::MAX
    MaxDepth,           \* MAX_DEPTH
    MaxValue,           \* MAX_VALUE_BYTES, in pages
    MaxDicts,           \* MAX_DICTS
    DbVersion,          \* SUPPORTED_DB_VERSION
    Undecodable,        \* a payload that cannot be read
    TestTrees           \* trees to compare the walk with: [file, db, sound, holds]

Size(file) == Len(file.metas) + Len(file.pages)
At(file, pgno) == file.pages[pgno - Len(file.metas) + 1]
Failed == [ok |-> FALSE]

-----------------------------------------------------------------------------
(* Opening.                                                                *)

\* The meta page of the last transaction whose pages are all in the file.
Usable(file, m) == m.magic /\ m.last < Size(file) /\ (m.db.root = NoPage \/ m.db.root < Size(file))

OpenDatabase(file) ==
    LET usable == {i \in DOMAIN file.metas : Usable(file, file.metas[i])}
        newest == {i \in usable : \A j \in usable :
                      \/ file.metas[i].txn > file.metas[j].txn
                      \/ file.metas[i].txn = file.metas[j].txn /\ i <= j}
    IN IF file.metas[1].magic /\ Size(file) >= 3 /\ usable # {}
       THEN [ok |-> TRUE, main |-> file.metas[CHOOSE i \in newest : TRUE].db]
       ELSE Failed

-----------------------------------------------------------------------------
(* The walk.  Its state is what was visited and what was handed out.       *)

Start == [ok |-> TRUE, visited |-> 0, items |-> <<>>]
Fail(st) == [st EXCEPT !.ok = FALSE]
Give(st, node, value) == [st EXCEPT !.items = Append(@, [key |-> node.key, flag |-> node.flag, value |-> value])]

\* A tree cannot have more pages than its file.  (Fault: it is not counted.)
OverrunNever(file, visited) == FALSE
Overrun(file, visited) == visited > Size(file)

ReadPage(file, pgno) == pgno < Size(file) /\ pgno >= Len(file.metas) /\ At(file, pgno).no = pgno

\* A value of several pages; one that is too large is handed out as none.
ReadOverflow(file, node, st) ==
    LET p == At(file, node.at)
        seen == [st EXCEPT !.visited = @ + p.span]
    IN IF ~ReadPage(file, node.at) \/ p.kind # "overflow" THEN Fail(st)
       ELSE IF p.span = 0 \/ node.at + p.span > Size(file) \/ node.size > p.span THEN Fail(st)
       ELSE IF Overrun(file, seen.visited) THEN Fail(seen)
       ELSE Give(seen, node, IF node.size > MaxValue THEN {} ELSE {node.value})

WalkLeaf(file, node, st) ==
    CASE ~st.ok \/ node.flag \in {"dup", "torn"} -> Fail(st)
      [] node.flag = "big" -> ReadOverflow(file, node, st)
      [] OTHER -> Give(st, node, {node.value})

RECURSIVE WalkPage(_, _, _, _, _)
WalkPage(file, pgno, depth, cap, st) ==
    LET seen == [st EXCEPT !.visited = @ + 1]
        p == At(file, pgno)
        node(s, n) == IF ~s.ok THEN s
                      ELSE CASE p.kind = "branch" -> WalkPage(file, n.child, depth + 1, cap, s)
                             [] p.kind = "leaf" -> WalkLeaf(file, n, s)
                             [] OTHER -> Fail(s)
    IN IF depth >= cap THEN Fail(st)
       ELSE IF Overrun(file, seen.visited) \/ ~ReadPage(file, pgno) \/ p.kind = "torn" THEN Fail(seen)
       ELSE FoldLeft(node, seen, p.nodes)

Walk(file, db) ==
    IF db.root = NoPage \/ db.entries = 0 THEN Start
    ELSE WalkPage(file, db.root, 0, IF db.depth + 1 < MaxDepth THEN db.depth + 1 ELSE MaxDepth, Start)

-----------------------------------------------------------------------------
(* The tables of strfry.                                                   *)

\* The record of a table, the last if it is there twice.
Table(file, main, name) ==
    LET w == Walk(file, main)
        hits == SelectSeq(w.items, LAMBDA i : i.key = name /\ i.flag = "sub")
    IN IF ~w.ok \/ \E i \in DOMAIN hits : hits[i].value = {} THEN [ok |-> FALSE, found |-> {}]
       ELSE [ok |-> TRUE, found |-> IF hits = <<>> THEN {} ELSE Last(hits).value]

\* The first record says how the database was written.
CheckMeta(file, main) ==
    LET t == Table(file, main, "Meta") IN
    /\ t.ok
    /\ \E db \in t.found :
         LET w == Walk(file, db) IN
         /\ w.ok /\ w.items # <<>>
         /\ \E v \in w.items[1].value : v.endian = 1 /\ v.version = DbVersion

Dictionaries(file, main) ==
    LET t == Table(file, main, "CompressionDictionary")
        walks == {Walk(file, db) : db \in t.found}
        read(w) == SelectSeq(w.items, LAMBDA i : i.value # {})
        ids(w, n) == {read(w)[i].key : i \in 1..n}
        few(w) == \A n \in DOMAIN read(w) : Cardinality(ids(w, n - 1)) < MaxDicts
    IN [ok |-> t.ok /\ \A w \in walks : w.ok /\ few(w),
        ids |-> UNION {ids(w, Len(read(w))) : w \in walks}]

\* A payload is json, or json compressed with a dictionary.
Payload(value, dicts) ==
    IF \E v \in value : v.tag = "raw" \/ (v.tag = "zstd" /\ v.dict \in dicts /\ v.sound)
    THEN LET v == CHOOSE x \in value : TRUE IN v.json
    ELSE Undecodable

\* The payloads handed out before the end, or before an error.
ForEachEvent(file) ==
    LET o == OpenDatabase(file)
        d == Dictionaries(file, o.main)
        t == Table(file, o.main, "EventPayload")
        w == Walk(file, CHOOSE db \in t.found : TRUE)
    IN IF o.ok /\ CheckMeta(file, o.main) /\ d.ok /\ t.ok /\ t.found # {}
       THEN [ok |-> w.ok, payloads |-> [i \in DOMAIN w.items |-> Payload(w.items[i].value, d.ids)]]
       ELSE [ok |-> FALSE, payloads |-> <<>>]

-----------------------------------------------------------------------------
(* The walk against what trees are known to hold.                          *)

WalksExactly(t) ==
    LET w == Walk(t.file, t.db) IN
    /\ w.ok => w.visited <= Size(t.file)
    /\ t.sound => w.ok /\ [i \in DOMAIN w.items |-> w.items[i].value] = t.holds
=============================================================================

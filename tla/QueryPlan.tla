----------------------------- MODULE QueryPlan ------------------------------
(***************************************************************************)
(* From a search filter to a query and the monthly shards it runs on:      *)
(* crates/nostrsearch-core/src/query.rs (QueryPlanner), shard.rs (ShardId, *)
(* shards_in_range) and scoring.rs (the composite score), with the request *)
(* parameters of crates/nostrsearch-server/src/http.rs.                    *)
(*                                                                         *)
(* Optional values are sets of at most one element.  A filter is           *)
(*   [search, authors, kinds, tags, since, until, lang, limit]             *)
(* where search is None or Some sequence of tokens [op |-> .., v |-> ..],  *)
(* tags a set of <<field, value>>.  A token that does not parse carries    *)
(* v = {}, any other {value}.  Times are counted in units of which a month *)
(* has MonthLen; scores are scaled to integers.                            *)
(***************************************************************************)
EXTENDS EventIndex, Integers, FiniteSetsExt

CONSTANTS
    MonthLen,           \* units of time in a month
    HalfLife,           \* units over which recency decays to nothing
    FutureSkew,         \* units a clock may run ahead
    WotWeight,          \* twice wot_weight
    RecencyWeight,      \* recency_weight
    MaxLimit            \* most hits a request may ask for

ASSUME QueryPlanConstants ==
    /\ MonthLen \in Nat \ {0} /\ HalfLife \in Nat \ {0} /\ FutureSkew \in Nat
    /\ WotWeight \in Nat /\ RecencyWeight \in Nat /\ MaxLimit \in Nat \ {0}

None == {}
Some(v) == {v}
Or(a, b) == IF a # None THEN a ELSE b
The(opt) == CHOOSE v \in opt : TRUE

-----------------------------------------------------------------------------
(* Shards.                                                                 *)

FromTimestamp(ts) == ts \div MonthLen

\* (Fault: the month that holds until is left out.)
LastShardBefore(until, current) ==
    IF until = None THEN current ELSE FromTimestamp(The(until)) - 1

\* until is exclusive; a second is taken off it, but never below zero.
LastShard(until, current) ==
    IF until = None THEN current ELSE FromTimestamp(Max({The(until) - 1, 0}))

ShardsInRange(since, until, earliest, current) ==
    LET start == IF since = None THEN earliest ELSE FromTimestamp(The(since))
        end == LastShard(until, current)
    IN [i \in 1..(end - start + 1) |-> start + i - 1]

-----------------------------------------------------------------------------
(* The planner.                                                            *)

NormalizeAuthor(a) ==
    IF a.form \in {"hex", "HEX"} THEN {NormalizeHex(a)} ELSE DecodeHex(a, {"npub", "nprofile"})

NormalizeHost(h) == IF UrlHost(h) # {} THEN The(UrlHost(h)) ELSE Lower(h)

\* How a query's value is folded to what the indexer wrote.
Norm(field, v) ==
    CASE field \in {"tag_t", "tag_g", "lang"} -> Lower(v)
      [] field = "tag_p" -> The(Or(NormalizeAuthor(v), {Lower(v)}))
      [] field = "tag_e" -> The(Or(DecodeHex(v, {"note", "nevent"}), {NormalizeHex(v)}))
      [] field = "tag_a" -> NormalizeCoordinate(v)
      [] field = "tag_host" -> NormalizeHost(v)
      [] field = "nip05" -> NormalizeNip05(v)
      [] OTHER -> v

OfOp(tokens, ops) == SelectSeq(tokens, LAMBDA t : t.op \in ops)
Values(tokens, ops) == UNION {t.v : t \in ToSet(OfOp(tokens, ops))}

\* The last bound given wins, and one that does not parse is none.
Bound(tokens, op) ==
    LET given == OfOp(tokens, {op}) IN IF given = <<>> THEN None ELSE Last(given).v

ParseSearchString(tokens) ==
    [words   |-> Values(tokens, {"word"}),
     authors |-> Values(tokens, {"author"}),
     kinds   |-> Values(tokens, {"kind"}),
     since   |-> Bound(tokens, "since"),
     until   |-> Bound(tokens, "until"),
     tags    |-> UNION {{<<f[2], v>> : v \in Values(tokens, f[1])} :
                    f \in {<<{"#", "tag"}, "tag_t">>, <<{"geo"}, "tag_g">>, <<{"site"}, "tag_host">>,
                           <<{"nip05"}, "nip05">>}},
     lang    |-> Bound(tokens, "lang")]

\* A clause is a set of terms of which a document must have one; a clause
\* without any is the empty query.
AuthorTerms(a) == {Term("pubkey", hex) : hex \in NormalizeAuthor(a)}
KindTerm(k) == Term("kind", [form |-> "n", of |-> <<k>>])
NormTerm(f, v) == Term(f, Norm(f, v))

AuthorClause(authors) ==
    IF authors = {} THEN {} ELSE {UNION {AuthorTerms(a) : a \in authors}}

StructuredClauses(filter) ==
    UNION {AuthorClause(filter.authors),
           IF filter.kinds = {} THEN {} ELSE {{KindTerm(k) : k \in filter.kinds}},
           {{NormTerm(f, t[2]) : t \in {t \in filter.tags : t[1] = f}} :
               f \in {t[1] : t \in filter.tags}},
           {{NormTerm("lang", l)} : l \in filter.lang}}

ExtensionClauses(ext) ==
    UNION {{AuthorTerms(a) : a \in ext.authors},
           {{KindTerm(k)} : k \in ext.kinds},
           {{NormTerm(t[1], t[2])} : t \in ext.tags},
           {{NormTerm("lang", l)} : l \in ext.lang}}

Plan(filter, earliest, current) ==
    LET ext == ParseSearchString(IF filter.search = None THEN <<>> ELSE The(filter.search))
        since == Or(ext.since, filter.since)
        until == Or(ext.until, filter.until)
    IN [words   |-> {Analyze(w) : w \in ext.words},
        clauses |-> ExtensionClauses(ext) \cup StructuredClauses(filter),
        since   |-> since, until |-> until,
        shards  |-> ShardsInRange(since, until, earliest, current)]

-----------------------------------------------------------------------------
(* What the query selects in a shard, and how it ranks it.                 *)

\* Tokens of one search word at consecutive places of one text (a phrase).
Phrase(tokens, text) ==
    \E i \in 0..(Len(text) - Len(tokens)) : \A j \in DOMAIN tokens : text[i + j] = tokens[j]

InRange(q, doc) ==
    /\ \A t \in q.since : doc.created_at >= t
    /\ \A t \in q.until : doc.created_at < t

Selects(q, doc) ==
    /\ InRange(q, doc)
    /\ \A c \in q.clauses : c \cap doc.terms # {}
    /\ \A w \in q.words : \E text \in doc.texts : Phrase(w, text)

\* (Fault: an event of the future is brand new.)
RecencySaturating(created, now) == Max({HalfLife - Max({now - created, 0}), 0})

RecencyBoost(created, now) ==
    IF created > now + FutureSkew THEN 0
    ELSE Max({HalfLife - Max({now - created, 0}), 0})

\* bm25 * (1 + wot_weight * wot + recency_weight * recency)
Composite(doc, now) ==
    doc.bm25 * (2 * HalfLife + WotWeight * HalfLife * doc.wot
                 + 2 * RecencyWeight * RecencyBoost(doc.created_at, now))

\* Text queries are ordered by score, the others by time.
RankKey(filter, doc, now) == IF filter.search # None THEN Composite(doc, now) ELSE doc.created_at

\* A request asks for 50 hits unless it says otherwise, never for none.
ClampLimit(limit) == IF limit = None THEN Min({50, MaxLimit}) ELSE Min({Max({The(limit), 1}), MaxLimit})
=============================================================================

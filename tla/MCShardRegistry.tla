--------------------------- MODULE MCShardRegistry --------------------------
(***************************************************************************)
(* Six events in three months of two units, the clock in the third month.  *)
(* Event 1 arrives late, in a month older than any shard; event 5 is dated *)
(* past the skew of clocks.                                                *)
(***************************************************************************)
EXTENDS ShardRegistry

CONSTANTS s1, s2, w1, w2, w3, g1

V(form, of) == [form |-> form, of |-> of]
A(form) == V(form, <<1>>)
B(form) == V(form, <<2>>)
Ev(id, pubkey, kind, at, content, tags, lang, wot) ==
    [id |-> V("hex", <<id>>), pubkey |-> pubkey, kind |-> kind, created_at |-> at,
     content |-> content, tags |-> tags, lang |-> lang, wot |-> wot, bm25 |-> 1]

MCEvent == <<
    Ev(1, A("HEX"), 1, 1, <<1, 2>>, {<<"t", V("Mixed", <<7>>)>>}, {V("low", <<5>>)}, 0),
    Ev(2, A("hex"), 1, 2, <<10, 11, 12, 0, 1>>,
       {<<"e", V("HEX", <<9>>)>>, <<"p", B("HEX")>>, <<"a", B("HEX")>>, <<"g", V("Mixed", <<3, 1, 2, 4>>)>>}, {}, 1),
    Ev(3, B("HEX"), 0, 3, <<>>,
       {<<"nip05", V("root", <<6>>)>>, <<"website", V("www", <<6>>)>>, <<"title", <<5, 2, 0, 10>>>>}, {}, 0),
    Ev(4, B("hex"), 1, 4, <<1, 10, 11>>,
       {<<"t", V("low", <<7>>)>>, <<"r", V("url", <<6>>)>>, <<"d", V("Mixed", <<8>>)>>, <<"g", V("low", <<3, 1>>)>>},
       {V("low", <<5>>)}, 0),
    Ev(5, A("hex"), 1, 5, <<5, 0, 11>>, {<<"p", A("junk")>>, <<"u", V("junk", <<6>>)>>}, {}, 0),
    Ev(6, B("hex"), 4, 4, <<1>>, {<<"e", V("hex", <<9>>)>>}, {}, 0) >>

MCSettled == 1 :> {2, 3} @@ 2 :> {4, 5, 6}

All == NoFilter
Tok(op, v) == [op |-> op, v |-> {v}]
Bad(op) == [op |-> op, v |-> {}]
Search(toks) == [All EXCEPT !.search = {toks}]

MCFilters == {
    [All EXCEPT !.limit = {2}],
    [All EXCEPT !.limit = {0}, !.until = {6}, !.kinds = {0, 1}, !.lang = {V("Mixed", <<5>>)},
                !.tags = {<<"tag_host", V("Mixed", <<6>>)>>, <<"tag_t", V("Mixed", <<7>>)>>, <<"tag_t", V("low", <<1>>)>>}],
    [All EXCEPT !.authors = {A("npub"), B("junk")},
                !.tags = {<<"tag_e", V("note", <<9>>)>>, <<"tag_p", B("npub")>>, <<"tag_a", B("hex")>>,
                          <<"tag_g", V("Mixed", <<3, 1>>)>>}],
    [Search(<<Tok("word", <<5>>)>>) EXCEPT !.until = {6}],
    Search(<<Tok("nip05", V("Mixed", <<6>>)), Tok("word", <<10>>), Tok("author", B("npub")), Bad("kind"),
             Tok("since", 2)>>),
    Search(<<Tok("site", V("url", <<6>>)), Tok("geo", V("low", <<3, 1>>)), Tok("word", <<10, 11>>),
             Tok("until", 5), Tok("#", V("Mixed", <<7>>))>>) }

\* One request asks for anything, another keeps the cache busy: it finds
\* nothing, since nobody has the author it asks for.
MCFiltersOf == s1 :> MCFilters
                 @@ s2 :> {[All EXCEPT !.authors = {A("junk")}, !.since = {2}, !.until = {4}]}
MCWorkersOf == s1 :> {w1, w2} @@ s2 :> {w3}
\* What the theorems on results assume of filters and events.
ASSUME MCResultHypotheses == PlanningIsExact /\ RecencyCounts

WorkerSymmetry == Permutations({w1, w2})

=============================================================================

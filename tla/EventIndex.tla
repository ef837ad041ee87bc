----------------------------- MODULE EventIndex -----------------------------
(***************************************************************************)
(* What the index holds of an event: the tokenizer                         *)
(* (crates/nostrsearch-core/src/tokenizer.rs), the classification of kinds *)
(* (event.rs), NIP-19 decoding (bech32.rs) and the document built from an  *)
(* event (schema.rs).                                                      *)
(*                                                                         *)
(* A character is a number: 0 separates words; 1..9 are letters, 5..8      *)
(* being the capitals of 1..4; 10 and above belong to scripts written      *)
(* without spaces.  An identifier is written in some form:                 *)
(*   [form |-> "hex" | "HEX" | "npub" | "note" | "low" | "Mixed" | "url"   *)
(*             | "www" | "root" | "junk", of |-> a sequence]               *)
(* where `of' is what it names: two spellings of one thing differ in form  *)
(* only.  A geohash names a path of cells, the largest first.              *)
(***************************************************************************)
EXTENDS Naturals, Sequences, FiniteSets, SequencesExt

CONSTANTS
    MaxTokenBytes,      \* longest token kept
    MinGeohash,         \* precisions of a geohash that are indexed
    MaxGeohash,
    TextKinds           \* kinds whose content is prose

ASSUME EventIndexConstants ==
    /\ MaxTokenBytes \in Nat \ {0} /\ MinGeohash \in Nat \ {0} /\ MaxGeohash \in Nat
    /\ TextKinds \subseteq Nat

-----------------------------------------------------------------------------
(* The tokenizer.                                                          *)

IsScriptioContinua(c) == c >= 10
IsAlphanumeric(c) == c > 0

FlushWord(st) ==
    IF st.word = <<>> THEN st
    ELSE [st EXCEPT !.out = Append(@, st.word), !.word = <<>>]

\* The bigrams of a run, or its only character.
Windows(run) == [i \in 1..(Len(run) - 1) |-> <<run[i], run[i + 1]>>]

FlushCont(st) ==
    IF Len(st.cont) <= 1
    THEN [st EXCEPT !.out = IF st.cont = <<>> THEN @ ELSE Append(@, st.cont), !.cont = <<>>]
    ELSE [st EXCEPT !.out = @ \o Windows(st.cont), !.cont = <<>>]

TakeChar(st, c) ==
    IF IsScriptioContinua(c) THEN LET f == FlushWord(st) IN [f EXCEPT !.cont = Append(@, c)]
    ELSE IF IsAlphanumeric(c) THEN LET f == FlushCont(st) IN [f EXCEPT !.word = Append(@, c)]
    ELSE FlushCont(FlushWord(st))

Tokenize(text) ==
    FlushCont(FlushWord(FoldLeft(TakeChar, [out |-> <<>>, word |-> <<>>, cont |-> <<>>], text))).out

\* The filters behind the tokenizer: long tokens lose their place to a gap,
\* capitals are folded.
LowerChar(c) == IF c \in 5..8 THEN c - 4 ELSE c
Analyze(text) ==
    LET toks == Tokenize(text)
    IN [i \in DOMAIN toks |-> IF Len(toks[i]) > MaxTokenBytes THEN <<>>
                              ELSE [j \in DOMAIN toks[i] |-> LowerChar(toks[i][j])]]

-----------------------------------------------------------------------------
(* Identifiers.                                                            *)

Lower(v) == IF v.form = "Mixed" THEN [v EXCEPT !.form = "low"] ELSE v

\* Hex is folded to lower case, anything else is left alone.
NormalizeHex(v) == IF v.form = "HEX" THEN [v EXCEPT !.form = "hex"] ELSE v

\* The hex a NIP-19 entity stands for, if its prefix is an allowed one.
DecodeHex(v, allowed) == IF v.form \in allowed THEN {[v EXCEPT !.form = "hex"]} ELSE {}

\* kind:pubkey:d, of which only the pubkey is hex.
NormalizeCoordinate(v) == NormalizeHex(v)

\* "_@domain" is shown as "domain".
NormalizeNip05(v) == IF v.form = "root" THEN [v EXCEPT !.form = "low"] ELSE Lower(v)

\* The host of a url, or nothing if there is no dot in it.
UrlHost(v) == IF v.form \in {"url", "www", "Mixed", "low"} THEN {[v EXCEPT !.form = "low"]} ELSE {}

GeohashPrefixes(g) ==
    IF g.form = "junk" THEN {}
    ELSE {[form |-> "low", of |-> SubSeq(g.of, 1, n)] :
             n \in {k \in MinGeohash..MaxGeohash : k <= Len(g.of)}}

-----------------------------------------------------------------------------
(* Documents.                                                              *)

Fields == {"event_id", "pubkey", "kind", "lang", "nip05", "tag_t", "tag_e", "tag_p",
           "tag_a", "tag_d", "tag_g", "tag_url", "tag_host", "tag_l"}

IsTextKind(ev) == ev.kind \in TextKinds
TagValues(ev, name) == {t[2] : t \in {t \in ev.tags : t[1] = name}}
Term(field, v) == <<field, v>>

\* The terms an event is found by.  A profile (kind 0) carries its nip05 and
\* website in its content; the d tag is the first one of the event.
Terms(ev) ==
    LET under(field, S) == {Term(field, v) : v \in S}
        profile(name) == IF ev.kind = 0 THEN TagValues(ev, name) ELSE {}
        urls == TagValues(ev, "r") \cup TagValues(ev, "u")
    IN UNION {
        under("event_id", {NormalizeHex(ev.id)}),
        under("pubkey", {NormalizeHex(ev.pubkey)}),
        under("kind", {[form |-> "n", of |-> <<ev.kind>>]}),
        under("lang", ev.lang),
        under("nip05", {NormalizeNip05(v) : v \in profile("nip05")}),
        under("tag_t", {Lower(v) : v \in TagValues(ev, "t")}),
        under("tag_e", {NormalizeHex(v) : v \in TagValues(ev, "e")}),
        under("tag_p", {NormalizeHex(v) : v \in TagValues(ev, "p")}),
        under("tag_a", {NormalizeCoordinate(v) : v \in TagValues(ev, "a")}),
        under("tag_d", TagValues(ev, "d")),
        under("tag_g", UNION {GeohashPrefixes(v) : v \in TagValues(ev, "g")}),
        under("tag_url", urls),
        under("tag_host", UNION {UrlHost(v) : v \in urls \cup profile("website")}),
        under("tag_l", TagValues(ev, "l"))}

\* The analyzed texts of an event: title, summary and, for prose, content.
Texts(ev) ==
    {Analyze(t) : t \in TagValues(ev, "title") \cup TagValues(ev, "summary")
                          \cup (IF IsTextKind(ev) THEN {ev.content} ELSE {})}

ToDocument(ev) == [terms |-> Terms(ev), texts |-> Texts(ev), created_at |-> ev.created_at,
                   wot |-> ev.wot, bm25 |-> ev.bm25]
=============================================================================

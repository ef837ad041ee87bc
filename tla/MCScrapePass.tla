---------------------------- MODULE MCScrapePass ----------------------------
(* Instances of ScrapePass for TLC. *)
EXTENDS ScrapePass

FewAdvertisers == [u \in Urls |-> 1..(Cardinality(Urls) + 1 - u)]
=============================================================================

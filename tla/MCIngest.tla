------------------------------ MODULE MCIngest ------------------------------
(* Rows of five sources: three names that share a key, loaded before and     *)
(* after more trusted ones; a name of its own; prices observed and not; a    *)
(* blank entry; no name.                                                     *)
EXTENDS Ingest

CONSTANTS n1, n2, n3, n4, empty

MCName == {n1, n2, n3, n4, empty}
MCKey == {{n1, n2, n3}, {n4}, {empty}}

Plain(n, src) ==
    [name |-> n, source |-> src, url |-> None, notes |-> {src}, price |-> None]
Priced(n, src) == [Plain(n, src) EXCEPT !.price = src]

MCRows == {
    Plain(n1, "da_fragrance"), Priced(n2, "indian_brands"), Plain(n3, "india_mainstream"),
    Priced(n4, "india_mainstream"), Plain(n2, "nandini"),
    [Plain(n2, "fra_cleaned") EXCEPT !.url = "fra_cleaned"],
    [Plain(n1, "fra_perfumes") EXCEPT !.notes = @ \cup {Blank}],
    Plain(empty, "da_fragrance")}
=============================================================================

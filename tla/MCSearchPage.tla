---------------------------- MODULE MCSearchPage ----------------------------
(* Searches over pools of up to PoolSize perfumes with all combinations of   *)
(* brands and accords, up to the naming of the first one's; and, since a     *)
(* search hardly ever relaxes a cap, calls of _cap_by_key on their own, with *)
(* any list of brands, as the unit tests of cap_per_brand make them.         *)
EXTENDS SearchPage

CONSTANTS PoolSize, ListSize, FirstKey

MCItem == [rank : 1..PoolSize, brand : Key, accord : Key]

MCPools ==
    UNION {{s \in [1..n -> MCItem] :
               \A i \in 1..n : /\ s[i].rank = i
                               /\ i = 1 => s[i].brand = FirstKey /\ s[i].accord = FirstKey}
           : n \in 0..PoolSize}

Lists == [1..ListSize -> {r \in MCItem : r.rank = 1 /\ r.accord = FirstKey}]

AloneInit ==
    /\ stage = "alone"
    /\ args \in [limit : 0..ListSize, by : {"brand"}, maxPerKey : {1, 2}, backfill : BOOLEAN]
    /\ input \in Lists
    /\ output = <<>> /\ taken = {} /\ count = [k \in Key |-> 0]
    /\ cap = args.maxPerKey /\ pos = 1 /\ progressed = FALSE
    /\ limit = 1 /\ budget = FALSE /\ reference = FALSE
    /\ wide = <<>> /\ narrow = <<>> /\ enhanced = <<>> /\ page = <<>>

\* A handler, and a call, runs to its end; enhance_with_llm has a timeout.
MCSpec == (Init \/ AloneInit) /\ [][Next]_vars /\ WF_vars(Next)

\* Every search gets its page and every call returns: the loop that relaxes the
\* cap ends, whatever the list, the limit and the cap it starts from.
Served == <>(Done \/ (stage = "alone" /\ Returned))
=============================================================================

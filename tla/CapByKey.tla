------------------------------ MODULE CapByKey ------------------------------
(***************************************************************************)
(* _cap_by_key of backend/app/services/decision_engine.py: at most         *)
(* max_per_key results of a key (a brand, or a dominant accord) in rank    *)
(* order and, when backfill is asked for and they do not fill the limit,   *)
(* one more per key at a time.                                             *)
(*                                                                         *)
(* The while loop is modelled one result at a time.  An item has a rank in *)
(* the candidate pool, which identifies it, and its two keys.              *)
(***************************************************************************)
EXTENDS Integers, Sequences, FiniteSets

CONSTANTS
    Item,   \* results: records with the fields rank, brand and accord
    Key     \* lowercased brands and accords

ASSUME CapAssumption == \A r \in Item : r.brand \in Key /\ r.accord \in Key

VARIABLES
    args,       \* the arguments limit, by (the key_fn), maxPerKey and backfill
    input,      \* results
    output,     \* output
    taken,      \* the positions of input with added[i]
    count,      \* key_counts
    cap,        \* cap
    pos,        \* i, from 1; 1 also stands for the test of the while loop
    progressed  \* progressed

capVars == <<args, input, output, taken, count, cap, pos, progressed>>

Args == [limit : Nat, by : {"brand", "accord"}, maxPerKey : Nat \ {0}, backfill : BOOLEAN]

TypeOK ==
    /\ args \in Args
    /\ input \in Seq(Item)
    /\ output \in Seq(Item)
    /\ taken \subseteq 1..Len(input)
    /\ count \in [Key -> Nat]
    /\ cap \in Nat \ {0}
    /\ pos \in 1..(Len(input) + 1)
    /\ progressed \in BOOLEAN

\* _cap_by_key(results, limit, key_fn, max_per_key, backfill)
Call(a, results) ==
    /\ args' = a
    /\ input' = results
    /\ output' = <<>>
    /\ taken' = {}
    /\ count' = [k \in Key |-> 0]
    /\ cap' = a.maxPerKey
    /\ pos' = 1
    /\ progressed' = FALSE

Larger(m, n) == IF m >= n THEN m ELSE n

\* Variant: the cap is not relaxed beyond the limit, even if it starts there.
MaxCapLimitOnly == IF args.backfill THEN args.limit ELSE args.maxPerKey

MaxCap == IF args.backfill THEN Larger(args.limit, args.maxPerKey) ELSE args.maxPerKey

KeyAt(i) == input[i][args.by]
Full == Len(output) >= args.limit
InLoop == pos > 1 \/ (~Full /\ cap <= MaxCap)
Returned == (pos = 1 /\ ~InLoop) \/ (pos > Len(input) /\ ~args.backfill)

-----------------------------------------------------------------------------
Take ==
    /\ InLoop /\ pos <= Len(input)
    /\ pos \notin taken /\ ~Full /\ count[KeyAt(pos)] < cap
    /\ output' = Append(output, input[pos])
    /\ taken' = taken \cup {pos}
    /\ count' = [count EXCEPT ![KeyAt(pos)] = count[KeyAt(pos)] + 1]
    /\ progressed' = TRUE
    /\ pos' = pos + 1
    /\ UNCHANGED <<args, input, cap>>

Skip ==
    /\ InLoop /\ pos <= Len(input)
    /\ pos \in taken \/ Full \/ count[KeyAt(pos)] >= cap
    /\ pos' = pos + 1
    /\ UNCHANGED <<args, input, output, taken, count, cap, progressed>>

\* Variant: one pass with backfill, then whatever is left.
EndPassDumps ==
    /\ InLoop /\ pos > Len(input) /\ args.backfill
    /\ cap' = IF cap < MaxCap THEN MaxCap ELSE MaxCap + 1
    /\ pos' = 1
    /\ progressed' = FALSE
    /\ UNCHANGED <<args, input, output, taken, count>>

\* Variant: a pass without progress does not relax the cap.
EndPassKeepsCap ==
    /\ InLoop /\ pos > Len(input) /\ args.backfill
    /\ pos' = 1
    /\ progressed' = FALSE
    /\ UNCHANGED <<args, input, output, taken, count, cap>>

\* The end of the for loop; without backfill the while loop is left.
EndPass ==
    /\ InLoop /\ pos > Len(input) /\ args.backfill
    /\ cap' = IF progressed THEN cap ELSE cap + 1
    /\ pos' = 1
    /\ progressed' = FALSE
    /\ UNCHANGED <<args, input, output, taken, count>>

CapStep == Take \/ Skip \/ EndPass

CapInit ==
    /\ args \in Args
    /\ input \in Seq(Item)
    /\ output = <<>>
    /\ taken = {}
    /\ count = [k \in Key |-> 0]
    /\ cap = args.maxPerKey
    /\ pos = 1
    /\ progressed = FALSE

CapSpec == CapInit /\ [][CapStep]_capVars

-----------------------------------------------------------------------------
\* "spreading any forced extra fairly across every over-represented brand":
\* a key has more than max_per_key results only if every result left out is of
\* a key that has as many, give or take one.  (cap_per_brand's docstring.)
FairSpread ==
    \A k \in Key : count[k] > args.maxPerKey =>
        \A i \in (1..Len(input)) \ taken : count[KeyAt(i)] >= count[k] - 1

\* No key is over the cap, and the output is not over the limit.
WithinBounds == (\A k \in Key : count[k] <= cap) /\ Len(output) <= args.limit

\* key_counts, kept up to date by increments, is what counting the output anew
\* would give.
Counted == \A k \in Key : count[k] = Cardinality({i \in taken : KeyAt(i) = k})

\* Why the spread is fair: the cap is only relaxed once every result left out is
\* of a key that has reached it; within a pass, so is every result passed over.
PassedOver ==
    /\ cap > args.maxPerKey => \A i \in (1..Len(input)) \ taken : count[KeyAt(i)] >= cap - 1
    /\ ~Full => \A i \in (1..(pos - 1)) \ taken : count[KeyAt(i)] >= cap
    /\ pos > 1 /\ Full => progressed

CapInv == TypeOK /\ Counted /\ WithinBounds /\ PassedOver /\ cap >= args.maxPerKey
=============================================================================

----------------------------- MODULE MCMemoryRepo -----------------------------
(* An instance of MemoryRepo for TLC: two callers save and list steps, some for an
   identifier nobody has, or the metrics of two runs, or one caller lists several
   runs that have no data, deleted ones among them. *)
EXTENDS MemoryRepo, TLC

CONSTANT Lister              \* the caller that lists

One   == [number |-> 1, content |-> "a"]
One_b == [number |-> 1, content |-> "b"]
Two   == [number |-> 2, content |-> "a"]

MCReports == {<<"p", "q">>}

(* Two numbers in either order, and one number twice. *)
MCBatches == {<<One, Two>>, <<Two, One_b>>, <<One, One_b>>}

(* The filters of a model, of another, and of every run. *)
MCFilters == {{1, 2}, {3}, {1, 2, 3}}

NoSteps   == \A r \in Run : steps[r] = <<>>
NoMetrics == metrics = <<>> /\ \A c \in Caller : allowed[c] = NoList
Created   == {r \in Run : runs[r] # "none"}

WithSteps   == Created \subseteq {1} /\ created[1] <= 1 /\ runs[1] # "deleted" /\ NoMetrics
WithMetrics == /\ Created \subseteq {1, 2} /\ created[1] <= 1 /\ created[2] <= 1
               /\ runs[1] # "deleted" /\ NoSteps
ListingOnly == /\ NoSteps /\ NoMetrics
               /\ \A c \in Caller \ {Lister} : reply[c] = Blank /\ seen[c] = {}

InFocus == WithSteps \/ WithMetrics \/ ListingOnly

MCSpec == Init /\ [][Next /\ InFocus']_vars
=============================================================================

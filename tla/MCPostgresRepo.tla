---------------------------- MODULE MCPostgresRepo ----------------------------
(* An instance of PostgresRepo for TLC: either two callers save, read and delete
   the first run, or one caller lists several runs that have no data. *)
EXTENDS PostgresRepo, TLC

CONSTANT Lister              \* the caller that lists

One   == [number |-> 1, content |-> "a"]
One_b == [number |-> 1, content |-> "b"]
Two   == [number |-> 2, content |-> "a"]

(* An empty report and one of two points. *)
MCReports == {<<>>, <<"p", "q">>}

(* The same steps in opposite orders, and one number twice. *)
MCBatches == {<<One, Two>>, <<Two, One_b>>, <<One, One_b>>}

(* The filters of a model, of another, and of every run. *)
MCFilters == {{1, 2}, {3}, {1, 2, 3}}

Saving      == created[1] <= 1 /\ \A r \in Run \ {1} : rows[r] = "none"
ListingOnly == /\ points = {} /\ steps = {}
               /\ \A c \in Caller : ~Open(c)
               /\ \A c \in Caller \ {Lister} : reply[c] = Blank /\ seen[c] = {}

InFocus == Saving \/ ListingOnly

MCSpec == /\ Init /\ [][Next /\ InFocus']_vars
          /\ \A c \in Caller : SF_vars(Work(c))
=============================================================================

------------------------------ MODULE MCRunPages ------------------------------
(* An instance of RunPages for TLC: searches of any length are stored, those of up
   to four steps are also reported, failed and read.  With the default SLO either
   request is run as the same search, so one of them stands for both. *)
EXTENDS RunPages

CONSTANT MaxRead

Told == status # "ACTIVE" \/ accepting # "report" \/ reader # Idle

InFocus == Told => Cardinality(measured) <= MaxRead

MCInit == PagesInit /\ request = "search"

MCSpec == MCInit /\ [][PagesNext /\ InFocus']_pageVars
=============================================================================

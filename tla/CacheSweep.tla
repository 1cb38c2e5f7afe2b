----------------------------- MODULE CacheSweep -----------------------------
(***************************************************************************)
(* One trace simulated on two nway_caches that differ in the number of     *)
(* ways, and on a direct_mapped_cache: the comparison for which            *)
(* trace::simulate and the cache options exist.  The variables of Cache    *)
(* are those of the cache with more ways.                                  *)
(***************************************************************************)
EXTENDS Cache

CONSTANT FewWays

ASSUME SweepAssumption == FewWays \in Nat /\ 1 < FewWays /\ FewWays < Ways

VARIABLES
    way2, hits2, hitMru2,       \* the cache with FewWays
    tags, directHits            \* direct mapped

few  == <<way2, hits2, hitMru2>>
sweepVars == <<vars, few, tags, directHits>>

Few == INSTANCE Cache WITH
           Ways <- FewWays, way <- way2, hits <- hits2, hitMru <- hitMru2

SweepInit ==
    /\ Init /\ Few!Init
    /\ tags = [s \in Index |-> 0] /\ directHits = 0

\* direct_mapped_cache::access compares with the tag and never writes it
DirectAccess(line) ==
    /\ directHits' = directHits + Flag(tags[line % Sets] = line)
    /\ UNCHANGED tags

SweepAccess(line) == Access(line) /\ Few!Access(line) /\ DirectAccess(line)

SweepNext == \E line \in Lines : SweepAccess(line)

SweepSpec == SweepInit /\ [][SweepNext]_sweepVars

-----------------------------------------------------------------------------
LinesOf(w) == {Stack(w)[i] : i \in DOMAIN Stack(w)}

\* More ways never lose a line and never lose a hit, and how often the most
\* recent line is hit does not depend on the ways: the two results of a sweep
\* can be compared.
Inclusion ==
    /\ \A s \in Index : LinesOf(way2[s]) \subseteq LinesOf(way[s])
    /\ hits2 <= hits
    /\ hitMru2 = hitMru

\* "roofline hitrate", printed over the hit rate of whatever cache is given to
\* trace::simulate: no cache hits more often than one that never forgets.
DirectRoofline == directHits <= accesses - Cardinality(seen)
=============================================================================

--------------------------- MODULE GraphEnrichment ---------------------------
(***************************************************************************)
(* src/src/graph/enrichment.py: what a function writes, itself and through *)
(* the functions it calls, and which external entries reach it.            *)
(***************************************************************************)
EXTENDS GraphModel

StorageMutations ==
    FnPass("storage_mutations", [f \in Fns |-> [fn[f] EXCEPT !.direct = WriteEdges(f)]])

\* The cache of the searches: nothing of a function, or the variables found.
Unknown == [f \in Fns |-> {}]
Caches  == [Fns -> SUBSET SUBSET Svs]
Finds(found, cache) == [found |-> found, cache |-> cache]

\* A search: of a function, the ones on the way to it, and the cache.
Searches == [of : Fns, visited : SUBSET Fns, cache : Caches]
Search(f, visited, cache) == [of |-> f, visited |-> visited, cache |-> cache]

\* The search of f's callees; Deeper[s] is the search s one call deeper.
SearchCallees(f, visited, cache, Deeper) ==
    LET Through[k \in Nat] ==
            IF k = 0 THEN Finds(fn[f].direct, cache)
            ELSE LET acc == Through[k - 1]
                 IN IF k \notin Callees(f) THEN acc
                    ELSE LET r == Deeper[Search(k, visited \cup {f}, acc.cache)]
                         IN Finds(acc.found \cup r.found, r.cache)
        all == Through[Len(prog.fun)]
    IN Finds(all.found, [all.cache EXCEPT ![f] = {all.found}])

\* Mutant: a function whose result is known counts as visited.
VisitForgetful(f, visited, cache, Deeper) ==
    IF f \in visited \/ cache[f] # {} THEN Finds({}, cache)
    ELSE SearchCallees(f, visited, cache, Deeper)

\* _dfs: the variables found from f, and the cache shared by every search.
\* A function met again on the way gives nothing, and what was found without
\* it is cached all the same.
Visit(f, visited, cache, Deeper) ==
    IF cache[f] # {} THEN Finds(UNION cache[f], cache)
    ELSE IF f \in visited THEN Finds({}, cache)
    ELSE SearchCallees(f, visited, cache, Deeper)

\* The search n calls deep at most.
Dfs[n \in Nat] ==
    [s \in Searches |->
        IF n = 0 THEN Finds({}, s.cache) ELSE Visit(s.of, s.visited, s.cache, Dfs[n - 1])]

\* Every function in node order, with one cache.  No search is deeper than
\* there are functions to visit.
CacheAfter[k \in 0..Len(prog.fun)] ==
    IF k = 0 THEN Unknown
    ELSE Dfs[Len(prog.fun) + 1][Search(k, {}, CacheAfter[k - 1])].cache

PropagatedAll == [f \in Fns |-> UNION CacheAfter[Len(prog.fun)][f]]

\* Breadth first: the functions that f calls through d calls at most.
Calling(f) == Within({f}, [g \in Fns |-> Callees(g)])

\* The distance to the nearest callee that writes, 0 if none.
Nearest(f) ==
    LET writers == {d \in 1..Len(prog.fun) : \E g \in Calling(f)[d] \ {f} : fn[g].direct # {}}
    IN IF writers = {} THEN 0 ELSE Min(writers)

PropagateWrites ==
    LET all == PropagatedAll
        Indirect(f) == all[f] \ fn[f].direct # {}
    IN FnPass("propagate_writes",
              [f \in Fns |->
                 [fn[f] EXCEPT !.propagated = all[f], !.indirect = Indirect(f),
                               !.depth = IF Indirect(f) THEN Nearest(f) ELSE 0]])

\* _dfs_reachable: everything the search from f visits.
Visited(f) == Calling(f)[Len(prog.fun)]

Reachability ==
    FnPass("reachability",
           [f \in Fns |->
              [fn[f] EXCEPT !.entries = {e \in Fns : Entry(e) /\ f \in Visited(e)}]])

Reachable(f) == fn[f].entries # {}

\* Other passes ask "writes state" of a function by its own and its
\* propagated writes.
Mutates(f) == fn[f].direct # {} \/ fn[f].propagated # {}
=============================================================================

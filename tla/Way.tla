--------------------------------- MODULE Way ---------------------------------
(***************************************************************************)
(* One set of an nway_cache: the struct `way`, a record whose nodes are on *)
(* a doubly linked list in order of use, or on a free list.  An access     *)
(* returns the new record.                                                 *)
(***************************************************************************)
EXTENDS Integers, Sequences, FiniteSets, FiniteSetsExt

Null == 0
Nodes(ways) == 1 .. ways
Links(ways) == Nodes(ways) \cup {Null}

\* the records of a way with so many nodes that holds numbers of lines
Way(ways, lines) ==
    [ways : {ways},
     next : [Nodes(ways) -> Links(ways)], prev : [Nodes(ways) -> Links(ways)],
     addr : [Nodes(ways) -> lines],
     freelist : Links(ways), lrulist : Links(ways)]

\* way::way
NewWay(ways) ==
    [ways |-> ways,
     next |-> [n \in Nodes(ways) |-> IF n < ways THEN n + 1 ELSE Null],
     prev |-> [n \in Nodes(ways) |-> n - 1],
     addr |-> [n \in Nodes(ways) |-> 0],
     freelist |-> 1, lrulist |-> Null]

\* the nodes reached from head, in order
Walk(w, head) ==
    LET node[i \in 0 .. w.ways] ==
            IF i = 0 THEN head
            ELSE IF node[i - 1] = Null THEN Null ELSE w.next[node[i - 1]]
    IN  [i \in {k \in 1 .. w.ways : node[k - 1] # Null} |-> node[i - 1]]

Used(w) == Walk(w, w.lrulist)

\* the lines of a way, the one used last first
Stack(w) == [i \in DOMAIN Used(w) |-> w.addr[Used(w)[i]]]

\* p after the search loop: the first node that holds the line
Holders(w, line) == {i \in DOMAIN Stack(w) : Stack(w)[i] = line}
Found(w, line) == IF Holders(w, line) = {} THEN Null ELSE Used(w)[Min(Holders(w, line))]

\* l after a search that found nothing
LastUsed(w) == Used(w)[Len(Used(w))]

\* a node that is on no list becomes the head of the list in use
Push(w, n) ==
    [w EXCEPT !.lrulist = n,
              !.next = [@ EXCEPT ![n] = w.lrulist],
              !.prev = IF w.lrulist = Null THEN [@ EXCEPT ![n] = Null]
                       ELSE [@ EXCEPT ![n] = Null, ![w.lrulist] = n]]

\* a miss while nodes are free
Fill(w, line) ==
    Push([w EXCEPT !.addr[w.freelist] = line, !.freelist = w.next[w.freelist]], w.freelist)

\* Variant: a miss in a full set reuses the most recent node.
ReplaceMostRecent(w, line) == [w EXCEPT !.addr[w.lrulist] = line]

\* a miss in a full set: the last node takes the line
Replace(w, line) ==
    LET l == LastUsed(w)
    IN  Push([w EXCEPT !.addr[l] = line, !.next[w.prev[l]] = Null], l)

\* Variant: the node after the one that moves keeps its prev.
ToFrontKeepsPrev(w, p) == Push([w EXCEPT !.next[w.prev[p]] = w.next[p]], p)

\* Variant: a hit leaves the order alone.
ToFrontStays(w, p) == w

\* a hit below the head: the node leaves the list and becomes its head
ToFront(w, p) ==
    LET nx == w.next[p]
        pv == w.prev[p]
    IN  Push([w EXCEPT
                !.prev = IF nx # Null THEN [@ EXCEPT ![nx] = pv] ELSE @,
                !.next = IF pv # Null THEN [@ EXCEPT ![pv] = nx] ELSE @], p)

\* way::access
access(w, line) ==
    LET p == Found(w, line)
    IN  CASE p = Null /\ w.freelist # Null -> Fill(w, line)
          [] p = Null /\ w.freelist = Null -> Replace(w, line)
          [] p # Null /\ p # w.lrulist     -> ToFront(w, p)
          [] p # Null /\ p = w.lrulist     -> w

\* the result of way::access, and its mru
IsHit(w, line) == Found(w, line) # Null
IsMru(w, line) == IsHit(w, line) /\ Found(w, line) = w.lrulist
=============================================================================

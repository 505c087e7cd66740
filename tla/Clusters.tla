-------------------------------- MODULE Clusters --------------------------------
(***************************************************************************)
(* Difference hashes of pictures and their clusters (xnative/media/        *)
(* phash.py): cluster_similar_hashes compares every pair once and joins    *)
(* near duplicates in a forest of parents with path halving.               *)
(***************************************************************************)
EXTENDS Integers, Sequences, FiniteSets, SequencesExt

CONSTANTS
    Size,       \* hash_size
    Pictures,   \* grey pictures of Size rows and Size + 1 columns
    Foreign,    \* sets of bits that another algorithm has made
    Threshold,
    MaxHashes   \* bound: hashes in a batch

ASSUME ClustersAssumption == MaxHashes \in Nat

VARIABLES
    hashes,
    parent,     \* the forest, on the indices of hashes
    pair,       \* the indices that are compared next
    clustering  \* "comparing", "done", or "failed" by a ValueError

clustersVars == <<hashes, parent, pair, clustering>>

\* A bit is set where a pixel is brighter than the one on its right.
DifferenceHash(picture) ==
    [algorithm |-> "dhash",
     bits |-> {at \in (1 .. Size) \X (1 .. Size) :
                  picture[at[1]][at[2]] > picture[at[1]][at[2] + 1]}]

Hashes ==
    {DifferenceHash(p) : p \in Pictures} \cup {[algorithm |-> "hex", bits |-> b] : b \in Foreign}

HammingDistance(a, b) == Cardinality((a.bits \ b.bits) \cup (b.bits \ a.bits))

NearDuplicate(a, b) == HammingDistance(a, b) <= Threshold

ClustersInit ==
    /\ hashes \in BoundedSeq(Hashes, MaxHashes)
    /\ parent = [i \in DOMAIN hashes |-> i]
    /\ pair = <<1, 2>>
    /\ clustering = "comparing"

\* One round of find's loop: the index is hung under its grandparent.
Halve(find) ==
    LET up == find.parent[find.parent[find.index]]
    IN IF find.parent[find.index] = find.index THEN find
       ELSE [parent |-> [find.parent EXCEPT ![find.index] = up], index |-> up]

\* No path is longer than the batch.
Find(forest, i) ==
    LET round[n \in 0 .. Len(hashes)] ==
            IF n = 0 THEN [parent |-> forest, index |-> i] ELSE Halve(round[n - 1])
    IN round[Len(hashes)]

\* Mutant: the right hash is joined alone, and not the tree it stands in.
JoinAlone(forest, left, right) ==
    [Find(forest, left).parent EXCEPT ![right] = Find(forest, left).index]

Join(forest, left, right) ==
    LET first == Find(forest, left)
        second == Find(first.parent, right)
    IN [second.parent EXCEPT ![second.index] = first.index]

Compare ==
    /\ clustering = "comparing"
    /\ pair[2] <= Len(hashes)
    /\ hashes[pair[1]].algorithm = hashes[pair[2]].algorithm
    /\ parent' = IF NearDuplicate(hashes[pair[1]], hashes[pair[2]])
                 THEN Join(parent, pair[1], pair[2]) ELSE parent
    /\ pair' = IF pair[2] < Len(hashes) THEN <<pair[1], pair[2] + 1>>
               ELSE <<pair[1] + 1, pair[1] + 2>>
    /\ UNCHANGED <<hashes, clustering>>

\* hamming_distance_hex raises: the batch has no clusters.
Mismatch ==
    /\ clustering = "comparing"
    /\ pair[2] <= Len(hashes)
    /\ hashes[pair[1]].algorithm # hashes[pair[2]].algorithm
    /\ clustering' = "failed"
    /\ UNCHANGED <<hashes, parent, pair>>

FinishClusters ==
    /\ clustering = "comparing"
    /\ pair[2] > Len(hashes)
    /\ clustering' = "done"
    /\ UNCHANGED <<hashes, parent, pair>>

ClustersNext == Compare \/ Mismatch \/ FinishClusters

ClustersSpec == ClustersInit /\ [][ClustersNext]_clustersVars

Roots == [i \in DOMAIN hashes |-> Find(parent, i).index]

\* groups.setdefault(find(index), []).append(index); a group is known by the
\* root of its first hash.
AddToGroup(groups, roots, i) ==
    LET own(g) == roots[groups[g][1]] = roots[i]
    IN IF \E g \in DOMAIN groups : own(g)
       THEN [g \in DOMAIN groups |-> IF own(g) THEN Append(groups[g], i) ELSE groups[g]]
       ELSE Append(groups, <<i>>)

Groups ==
    LET roots == Roots
        upTo[n \in 0 .. Len(hashes)] ==
            IF n = 0 THEN <<>> ELSE AddToGroup(upTo[n - 1], roots, n)
    IN upTo[Len(hashes)]

-----------------------------------------------------------------------------

\* The pairs of near duplicates, and those that have been compared.
Near ==
    {e \in (DOMAIN hashes) \X (DOMAIN hashes) :
        e[1] < e[2] /\ NearDuplicate(hashes[e[1]], hashes[e[2]])}

NearCompared ==
    {e \in Near : e[1] < pair[1] \/ (e[1] = pair[1] /\ e[2] < pair[2])}

\* A component is in such a set or outside it.
Closed(links) == {s \in SUBSET DOMAIN hashes : \A e \in links : e[1] \in s <=> e[2] \in s}

\* Each index is in one group, and groups and indices are in ascending order.
GroupsInOrder(groups) ==
    /\ \A i \in DOMAIN hashes :
          \E g \in DOMAIN groups : \E m \in DOMAIN groups[g] : groups[g][m] = i
    /\ \A g \in DOMAIN groups :
          /\ groups[g] # <<>>
          /\ \A m, n \in DOMAIN groups[g] : m < n => groups[g][m] < groups[g][n]
    /\ \A g, h \in DOMAIN groups :
          g < h => groups[g][1] < groups[h][1] /\ ToSet(groups[g]) \cap ToSet(groups[h]) = {}

\* After any number of comparisons two hashes have one root exactly when a chain
\* of near duplicates leads from one to the other, whatever trees were joined at
\* which end; at last they are in one group exactly when a chain of any near
\* duplicates does so, and the groups are an ordered partition.
ClustersAreComponents ==
    LET roots == Roots
        closed == Closed(NearCompared)
    IN /\ \A i, j \in DOMAIN hashes :
              roots[i] = roots[j] <=> \A s \in closed : i \in s => j \in s
       /\ clustering = "done" =>
              LET groups == Groups
              IN /\ GroupsInOrder(groups)
                 /\ \A i, j \in DOMAIN hashes :
                       (\E g \in DOMAIN groups : {i, j} \subseteq ToSet(groups[g]))
                       <=> \A s \in Closed(Near) : i \in s => j \in s

=============================================================================

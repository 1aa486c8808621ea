---------------------------- MODULE WebccProofs -----------------------------
(***************************************************************************)
(* Proofs about Webcc: the routing of RestDispatch for any services, URLs  *)
(* and order of bindings, the map of ClientPool for any sessions and       *)
(* servers, the codecs of Base64 for inputs of any length, the headers     *)
(* that RequestAssembly sends, and the queries and targets of QueryObject  *)
(* and RequestTarget for any texts.                                        *)
(***************************************************************************)
EXTENDS Webcc, SequenceTheorems, WellFoundedInduction, TLAPS

\* A step of the whole is a step of each part, or leaves it alone.
LEMMA PartSteps ==
    [Next]_vars => /\ [Codec!Next]_Codec!vars
                   /\ [Query!Next]_Query!vars
                   /\ [Target!Next]_Target!vars
                   /\ [Assembly!Next]_Assembly!vars
                   /\ [Pool!Next]_Pool!vars
                   /\ [Dispatch!Next]_Dispatch!vars
BY DEF Next, vars, codec, query, target, assembly, pool, dispatch, Codec!vars,
       Query!vars, Target!vars, Assembly!vars, Pool!vars, Dispatch!vars

-----------------------------------------------------------------------------
\* A set of natural numbers has a least one.
LEMMA LeastNatural ==
    ASSUME NEW T \in SUBSET Nat, T # {}
    PROVE  \E m \in T : \A n \in T : m <= n
<1> DEFINE Below == OpToRel(<, Nat)
<1>1. IsWellFoundedOn(Below, Nat)
    BY NatLessThanWellFounded
<1>2. \A m, n \in Nat : <<n, m>> \in Below <=> n < m
    BY DEF OpToRel
<1> HIDE DEF Below
<1>3. PICK m \in T : \A n \in T : <<n, m>> \notin Below
    BY <1>1, WFMin
<1>4. ASSUME NEW n \in T PROVE m <= n
    <2>1. m \in Nat /\ n \in Nat
        OBVIOUS
    <2>2. ~(n < m)
        BY <1>2, <1>3, <2>1, Zenon
    <2>3. QED
        BY <2>1, <2>2
<1>5. QED
    BY <1>4

\* GetService gives the first item that matches, and 0 when none does.
LEMMA FirstMatch ==
    ASSUME NEW path, Len(items) \in Nat
    PROVE  LET i == Dispatch!GetService(path) IN
           \/ i = 0 /\ \A k \in 1..Len(items) : ~Dispatch!Matches(items[k], path)
           \/ /\ i \in 1..Len(items) /\ Dispatch!Matches(items[i], path)
              /\ \A k \in 1..i - 1 : ~Dispatch!Matches(items[k], path)
<1> DEFINE found == {i \in 1..Len(items) : Dispatch!Matches(items[i], path)}
<1>1. CASE found = {}
    <2>1. Dispatch!GetService(path) = 0
        BY <1>1 DEF Dispatch!GetService
    <2>2. QED
        BY <1>1, <2>1
<1>2. CASE found # {}
    <2>0. found \in SUBSET Nat
        OBVIOUS
    <2>1. \E m \in found : \A n \in found : m <= n
        <3> HIDE DEF found
        <3> QED
            BY <1>2, <2>0, LeastNatural
    <2>2. PICK m \in found : Dispatch!GetService(path) = m /\ \A n \in found : m <= n
        BY <1>2, <2>1 DEF Dispatch!GetService, Dispatch!Min
    <2>3. ASSUME NEW k \in 1..m - 1 PROVE ~Dispatch!Matches(items[k], path)
        BY <2>2
    <2>4. QED
        BY <2>2, <2>3
<1>3. QED
    BY <1>1, <1>2

-----------------------------------------------------------------------------
Bindings == [service : Services, url : BoundUrls, is_regex : BOOLEAN]
Valid(b) == b.is_regex => b.url \in DOMAIN Captures

\* The items are the bindings that succeeded, and in their order: an item comes
\* after every earlier binding that succeeded.
EveryBound ==
    \A k \in 1..Len(bound) : Valid(bound[k]) => \E i \in 1..Len(items) : items[i] = bound[k]
InOrder ==
    \A i \in 1..Len(items) : \E k \in 1..Len(bound) :
        /\ bound[k] = items[i] /\ Valid(bound[k])
        /\ \A j \in 1..k - 1 : Valid(bound[j]) => \E h \in 1..i - 1 : items[h] = bound[j]

\* The last request went to the first match among the items of then, which are
\* still where they were.
RoutedFirst ==
    routed.item # 0 =>
        /\ routed.item \in 1..Len(items)
        /\ Dispatch!Matches(items[routed.item], routed.path)
        /\ \A h \in 1..routed.item - 1 : ~Dispatch!Matches(items[h], routed.path)
        /\ routed.matches = Dispatch!UrlMatches(routed.item, routed.path)

DispatchInv ==
    /\ items \in Seq(Bindings) /\ bound \in Seq(Bindings)
    /\ EveryBound /\ InOrder /\ RoutedFirst

\* Bind keeps the invariant, whether or not its expression compiles.
LEMMA AddServiceStep ==
    ASSUME DispatchInv, NEW s \in Services, NEW u \in BoundUrls, NEW r \in BOOLEAN,
           Dispatch!AddService(s, u, r)
    PROVE  DispatchInv'
<1> DEFINE b == Dispatch!Item(s, u, r)
<1>1. b \in Bindings /\ b.is_regex = r /\ b.url = u
    BY DEF Dispatch!Item, Bindings
<1>2. /\ bound' = Append(bound, b) /\ routed' = routed
      /\ Valid(b) => items' = Append(items, b)
      /\ ~Valid(b) => items' = items
    BY <1>1 DEF Dispatch!AddService, Valid
<1> HIDE DEF b
<1> USE DEF DispatchInv
<1>3. items' \in Seq(Bindings) /\ bound' \in Seq(Bindings)
    <2>1. Append(items, b) \in Seq(Bindings) /\ Append(bound, b) \in Seq(Bindings)
        BY <1>1
    <2>2. QED
        BY <1>2, <2>1
<1>4. /\ Len(bound') = Len(bound) + 1 /\ bound'[Len(bound) + 1] = b
      /\ \A k \in 1..Len(bound) : bound'[k] = bound[k]
      /\ \A i \in 1..Len(items) : items'[i] = items[i]
      /\ Len(items') \in Nat /\ Len(items) <= Len(items')
      /\ Valid(b) => Len(items') = Len(items) + 1 /\ items'[Len(items) + 1] = b
      /\ ~Valid(b) => items' = items
    BY <1>1, <1>2
<1>5. EveryBound'
    BY <1>4 DEF EveryBound, Valid
<1>6. InOrder'
    <2> SUFFICES ASSUME NEW i \in 1..Len(items')
                 PROVE  \E k \in 1..Len(bound') :
                            /\ bound'[k] = items'[i] /\ Valid(bound'[k])
                            /\ \A j \in 1..k - 1 : Valid(bound'[j]) =>
                                   \E h \in 1..i - 1 : items'[h] = bound'[j]
        BY DEF InOrder, Valid
    <2>1. CASE i \in 1..Len(items)
        <3>1. PICK k \in 1..Len(bound) :
                  /\ bound[k] = items[i] /\ Valid(bound[k])
                  /\ \A j \in 1..k - 1 : Valid(bound[j]) => \E h \in 1..i - 1 : items[h] = bound[j]
            BY <2>1 DEF InOrder
        <3>2. ASSUME NEW j \in 1..k - 1, Valid(bound'[j])
              PROVE  \E h \in 1..i - 1 : items'[h] = bound'[j]
            <4>1. bound'[j] = bound[j]
                BY <1>4
            <4>2. PICK h \in 1..i - 1 : items[h] = bound[j]
                BY <3>1, <3>2, <4>1
            <4>3. items'[h] = items[h]
                BY <1>4, <2>1
            <4>4. QED
                BY <4>1, <4>2, <4>3
        <3>3. bound'[k] = bound[k] /\ items'[i] = items[i] /\ k \in 1..Len(bound')
            BY <1>4, <2>1
        <3>4. QED
            BY <3>1, <3>2, <3>3
    <2>2. CASE i \notin 1..Len(items)
        <3>1. Valid(b) /\ i = Len(items) + 1 /\ items'[i] = b
            BY <1>4, <2>2
        <3>2. ASSUME NEW j \in 1..Len(bound), Valid(bound'[j])
              PROVE  \E h \in 1..i - 1 : items'[h] = bound'[j]
            BY <1>4, <3>1, <3>2 DEF EveryBound
        <3>3. Len(bound') \in 1..Len(bound') /\ Len(bound') - 1 = Len(bound) /\ bound'[Len(bound')] = b
            BY <1>4
        <3>4. QED
            BY <3>1, <3>2, <3>3
    <2>3. QED
        BY <2>1, <2>2
<1>7. RoutedFirst'
    <2> SUFFICES ASSUME routed.item # 0
                 PROVE  /\ routed.item \in 1..Len(items')
                        /\ Dispatch!Matches(items'[routed.item], routed.path)
                        /\ \A h \in 1..routed.item - 1 : ~Dispatch!Matches(items'[h], routed.path)
                        /\ routed.matches = Dispatch!UrlMatches(routed.item, routed.path)'
        BY <1>2 DEF RoutedFirst, Dispatch!Matches, Dispatch!UrlMatches
    <2>1. /\ routed.item \in 1..Len(items)
          /\ Dispatch!Matches(items[routed.item], routed.path)
          /\ \A h \in 1..routed.item - 1 : ~Dispatch!Matches(items[h], routed.path)
          /\ routed.matches = Dispatch!UrlMatches(routed.item, routed.path)
        BY DEF RoutedFirst
    <2>2. items'[routed.item] = items[routed.item]
        BY <1>4, <2>1
    <2>3. \A h \in 1..routed.item - 1 : items'[h] = items[h]
        BY <1>4, <2>1
    <2>4. Dispatch!UrlMatches(routed.item, routed.path)' = Dispatch!UrlMatches(routed.item, routed.path)
        BY <1>2, <2>2 DEF Dispatch!UrlMatches
    <2>5. QED
        BY <1>4, <2>1, <2>2, <2>3, <2>4
<1>8. QED
    BY <1>3, <1>5, <1>6, <1>7

\* So does every step of the dispatch.
LEMMA DispatchStep == DispatchInv /\ [Dispatch!Next]_Dispatch!vars => DispatchInv'
<1> SUFFICES ASSUME DispatchInv, [Dispatch!Next]_Dispatch!vars PROVE DispatchInv'
    OBVIOUS
<1>1. ASSUME NEW p \in Paths, NEW m \in Dispatch!Methods, Dispatch!HandleConnection(p, m)
      PROVE  DispatchInv'
    <2>1. /\ items' = items /\ bound' = bound /\ routed'.path = p
          /\ routed'.item = Dispatch!GetService(p)
          /\ routed'.item # 0 => routed'.matches = Dispatch!UrlMatches(routed'.item, p)
        BY <1>1 DEF Dispatch!HandleConnection
    <2>2. Len(items) \in Nat
        BY DEF DispatchInv
    <2>3. RoutedFirst'
        BY <2>1, <2>2, FirstMatch DEF RoutedFirst, Dispatch!UrlMatches
    <2>4. QED
        BY <2>1, <2>3 DEF DispatchInv, EveryBound, InOrder
<1>2. CASE UNCHANGED Dispatch!vars
    BY <1>2 DEF Dispatch!vars, DispatchInv, EveryBound, InOrder, RoutedFirst,
                Dispatch!UrlMatches
<1>3. QED
    BY <1>1, <1>2, AddServiceStep DEF Dispatch!Next

\* Whatever was bound and in whatever order, a path has a service when some binding
\* that succeeded covers it, and a request went to the first URL bound that does.
THEOREM RoutedSafe == Spec => []RoutedAsBound
<1>1. Dispatch!Init => DispatchInv
    BY DEF Dispatch!Init, DispatchInv, EveryBound, InOrder, RoutedFirst
<1>2. DispatchInv => Dispatch!RoutedAsBound
    <2> SUFFICES ASSUME DispatchInv PROVE Dispatch!RoutedAsBound
        OBVIOUS
    <2> USE DEF DispatchInv
    <2>1. ASSUME NEW p \in Paths, Dispatch!GetService(p) = 0,
                 NEW k \in 1..Len(bound), Dispatch!Covers(bound[k], p)
          PROVE  FALSE
        <3>1. PICK i \in 1..Len(items) : items[i] = bound[k]
            BY <2>1 DEF EveryBound, Valid, Dispatch!Covers
        <3>2. Len(items) \in Nat
            OBVIOUS
        <3>3. ~Dispatch!Matches(items[i], p)
            BY <2>1, <3>2, FirstMatch
        <3>4. QED
            BY <2>1, <3>1, <3>3 DEF Dispatch!Covers
    <2>2. ASSUME routed.item # 0
          PROVE  \E k \in 1..Len(bound) :
                     /\ bound[k] = items[routed.item]
                     /\ Dispatch!Covers(bound[k], routed.path)
                     /\ ~\E j \in 1..k - 1 : /\ bound[j].url # bound[k].url
                                             /\ Dispatch!Covers(bound[j], routed.path)
                     /\ routed.matches = IF bound[k].is_regex
                                         THEN Captures[bound[k].url][routed.path] ELSE <<>>
        <3>1. /\ routed.item \in 1..Len(items)
              /\ Dispatch!Matches(items[routed.item], routed.path)
              /\ \A h \in 1..routed.item - 1 : ~Dispatch!Matches(items[h], routed.path)
              /\ routed.matches = Dispatch!UrlMatches(routed.item, routed.path)
            BY <2>2 DEF RoutedFirst
        <3>2. PICK k \in 1..Len(bound) :
                  /\ bound[k] = items[routed.item] /\ Valid(bound[k])
                  /\ \A j \in 1..k - 1 : Valid(bound[j]) =>
                         \E h \in 1..routed.item - 1 : items[h] = bound[j]
            BY <3>1 DEF InOrder
        <3>3. ASSUME NEW j \in 1..k - 1, Dispatch!Covers(bound[j], routed.path) PROVE FALSE
            BY <3>1, <3>2, <3>3 DEF Dispatch!Covers, Valid
        <3>4. Dispatch!Covers(bound[k], routed.path)
            BY <3>1, <3>2 DEF Dispatch!Covers, Valid
        <3>5. QED
            BY <3>1, <3>2, <3>3, <3>4 DEF Dispatch!UrlMatches
    <2>3. QED
        BY <2>1, <2>2 DEF Dispatch!RoutedAsBound
<1>3. QED
    BY <1>1, <1>2, DispatchStep, PartSteps, PTL DEF Spec, Init, RoutedAsBound

-----------------------------------------------------------------------------
Servers == [scheme : Nat, host : Nat, port : Nat]
Nodes == [key : keys, client : Clients]

\* operator< tells any two servers apart, if not always in one direction.
LEMMA LessFacts ==
    ASSUME NEW a \in Servers, NEW b \in Servers
    PROVE  /\ ~Pool!Less(a, a)
           /\ ~Pool!Less(a, b) /\ ~Pool!Less(b, a) => a = b
BY DEF Servers, Pool!Less

\* A node is one of this session's.
PoolTypes ==
    /\ keys \subseteq Servers
    /\ root \in Nodes \cup {Pool!Nil}
    /\ left \in Nodes \cup {Pool!Nil}
    /\ right \in Nodes \cup {Pool!Nil}
    /\ kept \in [keys -> Clients \cup {"none"}]

\* The tree: at most one child, on the side operator< puts it.
Tree ==
    /\ root = Pool!Nil => left = Pool!Nil /\ right = Pool!Nil
    /\ left = Pool!Nil \/ right = Pool!Nil
    /\ left # Pool!Nil => Pool!Less(left.key, root.key)
    /\ right # Pool!Nil => Pool!Less(root.key, right.key)

\* Its nodes are the clients that were kept.
NodeOf(k, node) == node # Pool!Nil /\ node.key = k
Kept ==
    /\ \A node \in {root, left, right} \ {Pool!Nil} : kept[node.key] = node.client
    /\ \A k \in keys : kept[k] # "none" => \E node \in {root, left, right} : NodeOf(k, node)

PoolInv == PoolTypes /\ (Pool!Ordered => Tree /\ Kept)

\* find gives a node of the tree with the key that was asked for, or none.
LEMMA GetFacts ==
    ASSUME PoolTypes, NEW k \in keys
    PROVE  /\ Pool!Get(k) \in {root, left, right, Pool!Nil}
           /\ Pool!Get(k) # Pool!Nil => Pool!Get(k).key = k
<1>1. Pool!LowerBound(k) \in {root, left, right, Pool!Nil}
    BY DEF Pool!LowerBound
<1>2. Pool!LowerBound(k) # Pool!Nil => ~Pool!Less(Pool!LowerBound(k).key, k)
    BY DEF Pool!LowerBound
<1>3. Pool!LowerBound(k) # Pool!Nil => Pool!LowerBound(k).key \in Servers
    BY <1>1 DEF PoolTypes, Nodes
<1>4. k \in Servers
    BY DEF PoolTypes
<1>5. QED
    BY <1>1, <1>2, <1>3, <1>4, LessFacts DEF Pool!Get

\* While operator< orders the servers, find gives the node of the key.
LEMMA FindFacts ==
    ASSUME PoolTypes, Pool!Ordered, Tree, NEW k \in keys,
           NEW node \in {root, left, right}, NodeOf(k, node)
    PROVE  Pool!Get(k) = node
<1>1. \A a, b \in keys : ~Pool!Less(a, a) /\ ~(Pool!Less(a, b) /\ Pool!Less(b, a))
    BY LessFacts DEF PoolTypes, Pool!Ordered
<1>2. /\ root # Pool!Nil => root.key \in keys
      /\ left # Pool!Nil => left.key \in keys
      /\ right # Pool!Nil => right.key \in keys
    BY DEF PoolTypes, Nodes
<1>3. CASE node = root
    BY <1>1, <1>2, <1>3 DEF NodeOf, Tree, Pool!Get, Pool!LowerBound
<1>4. CASE node = left
    BY <1>1, <1>2, <1>4 DEF NodeOf, Tree, Pool!Get, Pool!LowerBound
<1>5. CASE node = right
    BY <1>1, <1>2, <1>5 DEF NodeOf, Tree, Pool!Get, Pool!LowerBound
<1>6. QED
    BY <1>3, <1>4, <1>5

\* A Send that leaves its client open: the pool has it already, or gets it.
LEMMA SendKeptStep ==
    ASSUME PoolInv, NEW k \in keys, Pool!SendKept(k)
    PROVE  PoolInv'
<1>1. CASE UNCHANGED Pool!vars
    BY <1>1 DEF PoolInv, PoolTypes, Nodes, Pool!Ordered, Tree, Kept, Pool!vars
<1>2. CASE ~UNCHANGED Pool!vars
    <2>1. PICK c \in Clients : /\ Pool!Get(k) = Pool!Nil /\ Pool!Add(k, c)
                               /\ kept' = [kept EXCEPT ![k] = c] /\ keys' = keys
        BY <1>2 DEF Pool!SendKept
    <2> DEFINE node == [key |-> k, client |-> c]
    <2>2. node \in Nodes /\ node # Pool!Nil /\ node.key = k /\ node.client = c
        BY <2>1, PoolAssumption DEF Nodes, Pool!Nil
    <2>3. /\ left = Pool!Nil /\ right = Pool!Nil
          /\ \/ root = Pool!Nil /\ root' = node /\ left' = left /\ right' = right
             \/ /\ root # Pool!Nil /\ Pool!Less(k, root.key)
                /\ root' = root /\ left' = node /\ right' = right
             \/ /\ root # Pool!Nil /\ ~Pool!Less(k, root.key)
                /\ root' = root /\ left' = left /\ right' = node
        BY <2>1 DEF Pool!Add
    <2> HIDE DEF node
    <2>4. PoolTypes'
        BY <2>1, <2>2, <2>3 DEF PoolInv, PoolTypes, Nodes
    <2>5. ASSUME Pool!Ordered' PROVE Tree' /\ Kept'
        <3>1. Pool!Ordered /\ Tree /\ Kept /\ PoolTypes
            BY <2>1, <2>5 DEF PoolInv, Pool!Ordered
        <3>2. root # Pool!Nil => root.key # k /\ root.key \in keys
            BY <2>1, <3>1, FindFacts DEF NodeOf, PoolTypes, Nodes
        <3>3. root # Pool!Nil /\ ~Pool!Less(k, root.key) => Pool!Less(root.key, k)
            BY <3>1, <3>2, LessFacts DEF PoolTypes
        <3>4. Tree'
            BY <2>2, <2>3, <3>1, <3>3 DEF Tree
        <3>5. Kept'
            <4>1. \A x \in keys : kept'[x] = IF x = k THEN c ELSE kept[x]
                BY <2>1, <3>1 DEF PoolTypes
            <4>2. root # Pool!Nil => kept[root.key] = root.client
                BY <3>1 DEF Kept
            <4>3. \A x \in {root', left', right'} \ {Pool!Nil} : kept'[x.key] = x.client
                BY <2>2, <2>3, <3>2, <4>1, <4>2
            <4>4. ASSUME NEW x \in keys, kept'[x] # "none"
                  PROVE  \E n \in {root', left', right'} : NodeOf(x, n)
                <5>1. CASE x = k
                    BY <2>2, <2>3, <5>1 DEF NodeOf
                <5>2. CASE x # k
                    <6>1. kept[x] # "none"
                        BY <4>1, <4>4, <5>2
                    <6>2. NodeOf(x, root)
                        BY <2>3, <3>1, <6>1 DEF Kept, NodeOf
                    <6>3. root' = root
                        BY <2>3, <6>2 DEF NodeOf
                    <6>4. QED
                        BY <6>2, <6>3
                <5>3. QED
                    BY <5>1, <5>2
            <4>5. QED
                BY <2>1, <4>3, <4>4 DEF Kept, NodeOf
        <3>6. QED
            BY <3>4, <3>5
    <2>6. QED
        BY <2>4, <2>5 DEF PoolInv
<1>3. QED
    BY <1>1, <1>2

\* A Send whose client is closed at the end: the pool no longer has it.
LEMMA SendClosedStep ==
    ASSUME PoolInv, NEW k \in keys, Pool!SendClosed(k)
    PROVE  PoolInv'
<1>1. kept' = [kept EXCEPT ![k] = "none"] /\ keys' = keys /\ PoolTypes
    BY DEF Pool!SendClosed, PoolInv
<1>2. PICK node \in {root, left, right, Pool!Nil} : node = Pool!Get(k)
    BY <1>1, GetFacts
<1>3. CASE node = Pool!Nil
    <2>1. root' = root /\ left' = left /\ right' = right
        BY <1>2, <1>3 DEF Pool!SendClosed
    <2>2. PoolTypes'
        BY <1>1, <2>1 DEF PoolTypes, Nodes
    <2>3. ASSUME Pool!Ordered' PROVE Tree' /\ Kept'
        <3>1. Pool!Ordered /\ Tree /\ Kept
            BY <1>1, <2>3 DEF PoolInv, Pool!Ordered
        <3>2. \A n \in {root, left, right} : ~NodeOf(k, n)
            BY <1>1, <1>2, <1>3, <3>1, FindFacts DEF NodeOf
        <3>3. \A x \in keys : kept'[x] = IF x = k THEN "none" ELSE kept[x]
            BY <1>1 DEF PoolTypes
        <3>4. \A n \in {root, left, right} \ {Pool!Nil} : n.key \in keys
            BY <1>1 DEF PoolTypes, Nodes
        <3>5. QED
            BY <1>1, <2>1, <3>1, <3>2, <3>3, <3>4 DEF Tree, Kept, NodeOf
    <2>4. QED
        BY <2>2, <2>3 DEF PoolInv
<1>4. CASE node # Pool!Nil
    <2>1. /\ root' = IF node # root THEN root ELSE IF left # Pool!Nil THEN left ELSE right
          /\ left' = IF node \in {left, root} THEN Pool!Nil ELSE left
          /\ right' = IF node \in {right, root} THEN Pool!Nil ELSE right
        BY <1>2, <1>4 DEF Pool!SendClosed, Pool!Remove
    <2>2. PoolTypes'
        BY <1>1, <2>1 DEF PoolTypes, Nodes
    <2>3. ASSUME Pool!Ordered' PROVE Tree' /\ Kept'
        <3>1. Pool!Ordered /\ Tree /\ Kept
            BY <1>1, <2>3 DEF PoolInv, Pool!Ordered
        <3>2. NodeOf(k, node) /\ node \in {root, left, right}
            BY <1>1, <1>2, <1>4, GetFacts DEF NodeOf
        <3>3. \A n \in {root, left, right} : NodeOf(k, n) => n = node
            BY <1>1, <1>2, <3>1, FindFacts
        <3>4. {root', left', right'} \ {Pool!Nil} = {root, left, right} \ {node, Pool!Nil}
            <4>1. (left # Pool!Nil => left # root) /\ (right # Pool!Nil => right # root)
                BY <1>1, <3>1, LessFacts DEF Tree, PoolTypes, Nodes
            <4>2. \/ left = Pool!Nil /\ right = Pool!Nil
                  \/ root # Pool!Nil /\ (left = Pool!Nil \/ right = Pool!Nil)
                BY <3>1 DEF Tree
            <4>3. CASE node = root
                BY <1>4, <2>1, <4>1, <4>2, <4>3
            <4>4. CASE node = left /\ node # root
                BY <1>4, <2>1, <4>1, <4>2, <4>4
            <4>5. CASE node = right /\ node # root
                BY <1>4, <2>1, <4>1, <4>2, <4>5
            <4>6. QED
                BY <3>2, <4>3, <4>4, <4>5
        <3>5. Tree'
            BY <1>4, <2>1, <3>1, <3>2 DEF Tree
        <3>6. \A x \in keys : kept'[x] = IF x = k THEN "none" ELSE kept[x]
            BY <1>1 DEF PoolTypes
        <3>7. \A n \in {root', left', right'} \ {Pool!Nil} : n.key \in keys /\ n.key # k
            BY <1>1, <3>3, <3>4 DEF PoolTypes, Nodes, NodeOf
        <3>8. \A n \in {root', left', right'} \ {Pool!Nil} : kept'[n.key] = n.client
            BY <3>1, <3>4, <3>6, <3>7 DEF Kept
        <3>9. ASSUME NEW x \in keys, kept'[x] # "none"
              PROVE  \E n \in {root', left', right'} : NodeOf(x, n)
            <4>1. x # k /\ kept[x] # "none"
                BY <3>6, <3>9
            <4>2. PICK n \in {root, left, right} : NodeOf(x, n)
                BY <3>1, <4>1 DEF Kept
            <4>3. n # node /\ n # Pool!Nil
                BY <3>2, <4>1, <4>2 DEF NodeOf
            <4>4. QED
                BY <3>4, <4>2, <4>3
        <3>10. QED
            BY <1>1, <3>5, <3>8, <3>9 DEF Kept, NodeOf
    <2>4. QED
        BY <2>2, <2>3 DEF PoolInv
<1>5. QED
    BY <1>3, <1>4

\* A new session begins with an empty pool.
LEMMA EmptyPool ==
    ASSUME keys \in Sessions, root = Pool!Nil, left = Pool!Nil,
           right = Pool!Nil, kept = [k \in keys |-> "none"]
    PROVE  PoolInv
BY PoolAssumption DEF PoolInv, PoolTypes, Tree, Kept, Servers

\* Whatever servers a session talks to and in whatever order, a Send never gets the
\* client of another server; and while operator< orders the servers it gets the one
\* that was kept.
THEOREM KeptSafe == Spec => []KeptIsFound
<1>1. Pool!Init => PoolInv
    BY EmptyPool DEF Pool!Init
<1>2. PoolInv /\ [Pool!Next]_Pool!vars => PoolInv'
    <2> SUFFICES ASSUME PoolInv, [Pool!Next]_Pool!vars PROVE PoolInv'
        OBVIOUS
    <2>1. CASE Pool!Destroy
        BY <2>1, PoolAssumption DEF Pool!Destroy, PoolInv, PoolTypes, Tree, Kept, Servers
    <2>2. CASE UNCHANGED Pool!vars
        BY <2>2 DEF PoolInv, PoolTypes, Nodes, Pool!Ordered, Tree, Kept, Pool!vars
    <2>3. QED
        BY <2>1, <2>2, SendKeptStep, SendClosedStep DEF Pool!Next
<1>3. PoolInv => Pool!KeptIsFound
    <2> SUFFICES ASSUME PoolInv, NEW k \in keys
                 PROVE  /\ Pool!Get(k) # Pool!Nil => Pool!Get(k).key = k
                        /\ Pool!Ordered => Pool!Get(k).client = kept[k]
        BY DEF Pool!KeptIsFound
    <2>1. PoolTypes
        BY DEF PoolInv
    <2>2. ASSUME Pool!Ordered PROVE Pool!Get(k).client = kept[k]
        <3>1. Tree /\ Kept
            BY <2>2 DEF PoolInv
        <3>2. CASE Pool!Get(k) = Pool!Nil
            <4>1. kept[k] = "none"
                BY <2>1, <2>2, <3>1, <3>2, FindFacts DEF Kept, NodeOf
            <4>2. QED
                BY <3>2, <4>1 DEF Pool!Nil
        <3>3. CASE Pool!Get(k) # Pool!Nil
            BY <2>1, <3>1, <3>3, GetFacts DEF Kept
        <3>4. QED
            BY <3>2, <3>3
    <2>3. QED
        BY <2>1, <2>2, GetFacts
<1>4. QED
    BY <1>1, <1>2, <1>3, PartSteps, PTL DEF Spec, Init, KeptIsFound

-----------------------------------------------------------------------------
\* What the codecs read and write: a byte, the index of a letter, a letter or '=',
\* and any character.
Byte == 0..255
Letter == 0..63
Symbol == 0..64
Char == 0..65

\* An element, and zero after the last one; the g-th three bytes and four letters,
\* counted from zero.
At(s, k) == IF k \in 1..Len(s) THEN s[k] ELSE 0
Three(s, g) == <<At(s, 3 * g + 1), At(s, 3 * g + 2), At(s, 3 * g + 3)>>
Four(s, g) == <<At(s, 4 * g + 1), At(s, 4 * g + 2), At(s, 4 * g + 3), At(s, 4 * g + 4)>>
\* A function on 1..n is a sequence of length n.
LEMMA FunctionSeq ==
    ASSUME NEW S, NEW n \in Nat, NEW f \in [1..n -> S]
    PROVE  f \in Seq(S) /\ Len(f) = n
OBVIOUS

\* Four symbols are a sequence.
LEMMA FourSymbols ==
    \A T \in [1..4 -> Symbol] : T \in Seq(Symbol) /\ Len(T) = 4
<1>1. \A n \in Nat : \A T \in [1..n -> Symbol] : T \in Seq(Symbol) /\ Len(T) = n
    BY FunctionSeq, Zenon
<1>2. 4 \in Nat
    OBVIOUS
<1>3. QED
    BY <1>1, <1>2, Zenon

\* The elements of a part of a sequence.
LEMMA PartOf ==
    ASSUME NEW S, NEW s \in Seq(S), NEW a \in Nat, NEW n \in Nat, a + n <= Len(s)
    PROVE  \A k \in 1..n : SubSeq(s, a + 1, a + n)[k] = s[a + k]
OBVIOUS

\* The characters of the whole groups of three bytes.
LEMMA QuadGroups ==
    ASSUME NEW in \in Seq(Byte), NEW q \in Nat, q = Len(in) \div 3
    PROVE  LET out == Codec!Groups(in, 3, 4, Codec!Quad) IN
           /\ out = [i \in 1..(4 * q) |-> out[i]]
           /\ \A g \in 0..(q - 1) :
                LET b == <<in[3 * g + 1], in[3 * g + 2], in[3 * g + 3]>> IN
                /\ out[4 * g + 1] = Codec!Quad(b)[1]
                /\ out[4 * g + 2] = Codec!Quad(b)[2]
                /\ out[4 * g + 3] = Codec!Quad(b)[3]
                /\ out[4 * g + 4] = Codec!Quad(b)[4]
<1> DEFINE out == Codec!Groups(in, 3, 4, Codec!Quad)
<1>1. out = [i \in 1..(4 * q) |->
                Codec!Quad(Codec!Group(in, 3, ((i - 1) \div 4) + 1))[((i - 1) % 4) + 1]]
    BY DEF Codec!Groups
<1>2. ASSUME NEW g \in 0..(q - 1)
      PROVE  LET b == <<in[3 * g + 1], in[3 * g + 2], in[3 * g + 3]>> IN
                /\ out[4 * g + 1] = Codec!Quad(b)[1]
                /\ out[4 * g + 2] = Codec!Quad(b)[2]
                /\ out[4 * g + 3] = Codec!Quad(b)[3]
                /\ out[4 * g + 4] = Codec!Quad(b)[4]
    <2> DEFINE s == Codec!Group(in, 3, g + 1)
    <2>1. /\ s[1] = in[3 * g + 1] /\ s[2] = in[3 * g + 2] /\ s[3] = in[3 * g + 3]
        <3>1. 3 * ((g + 1) - 1) + 1 = 3 * g + 1 /\ 3 * (g + 1) = 3 * g + 3 /\ 3 * g + 3 <= Len(in)
            OBVIOUS
        <3>2. s = SubSeq(in, 3 * g + 1, 3 * g + 3)
            BY <3>1 DEF Codec!Group
        <3> HIDE DEF s
        <3>3. 3 * g \in Nat /\ 3 \in Nat
            OBVIOUS
        <3>4. \A k \in 1..3 : s[k] = in[3 * g + k]
            BY <3>1, <3>2, <3>3, PartOf, ZenonT(60)
        <3>5. QED
            BY <3>4
    <2>2. /\ ((4 * g + 1) - 1) \div 4 = g /\ ((4 * g + 2) - 1) \div 4 = g
          /\ ((4 * g + 3) - 1) \div 4 = g /\ ((4 * g + 4) - 1) \div 4 = g
          /\ ((4 * g + 1) - 1) % 4 = 0 /\ ((4 * g + 2) - 1) % 4 = 1
          /\ ((4 * g + 3) - 1) % 4 = 2 /\ ((4 * g + 4) - 1) % 4 = 3
          /\ 4 * g + 1 \in 1..(4 * q) /\ 4 * g + 2 \in 1..(4 * q) /\ 4 * g + 3 \in 1..(4 * q)
          /\ 4 * g + 4 \in 1..(4 * q)
        OBVIOUS
    <2> HIDE DEF out
    <2>3. /\ out[4 * g + 1] = Codec!Quad(s)[1] /\ out[4 * g + 2] = Codec!Quad(s)[2] 
          /\ out[4 * g + 3] = Codec!Quad(s)[3] /\ out[4 * g + 4] = Codec!Quad(s)[4] 
        <3> HIDE DEF s
        <3> QED BY <1>1, <2>2 DEF s
    <2> HIDE DEF s
    <2>4. QED
        BY <2>1, <2>3 DEF Codec!Quad
<1>3. QED
    BY <1>1, <1>2

\* The elements after the last whole group.
LEMMA RestOf ==
    ASSUME NEW S, NEW s \in Seq(S), NEW n \in {3, 4}
    PROVE  /\ Codec!Rest(s, n) \in Seq(S)
           /\ Len(Codec!Rest(s, n)) = Len(s) % n
           /\ \A k \in 1..(Len(s) % n) : Codec!Rest(s, n)[k] = s[n * (Len(s) \div n) + k]
<1>1. PICK q \in Nat : q = n * (Len(s) \div n) /\ Len(s) = q + (Len(s) % n) /\ Len(s) % n \in Nat
    <2>1. CASE n = 3
        BY <2>1
    <2>2. CASE n = 4
        BY <2>2
    <2>3. QED
        BY <2>1, <2>2
<1>2. Codec!Rest(s, n) = SubSeq(s, q + 1, Len(s))
    BY <1>1 DEF Codec!Rest
<1>3. PICK r \in Nat : r = Len(s) % n
    BY <1>1
<1>4. /\ SubSeq(s, q + 1, Len(s)) \in Seq(S)
      /\ Len(SubSeq(s, q + 1, Len(s))) = r
      /\ \A k \in 1..r : SubSeq(s, q + 1, Len(s))[k] = s[q + k]
    BY <1>1, <1>3
<1>5. QED
    BY <1>1, <1>2, <1>3, <1>4

\* The characters of the bytes after the last group of three.
TailOf(r, T) ==
    /\ Len(r) = 0 => T = <<>>
    /\ Len(r) = 1 => /\ T \in Seq(Symbol) /\ Len(T) = 4
                     /\ T[1] = r[1] \div 4 /\ T[2] = (r[1] % 4) * 16
                     /\ T[3] = Codec!Pad /\ T[4] = Codec!Pad
    /\ Len(r) = 2 => /\ T \in Seq(Symbol) /\ Len(T) = 4
                     /\ T[1] = r[1] \div 4 /\ T[2] = (r[1] % 4) * 16 + (r[2] \div 16)
                     /\ T[3] = (r[2] % 16) * 4 /\ T[4] = Codec!Pad

\* Both encoders write the groups of four characters and a tail.
LEMMA Texts ==
    ASSUME NEW in \in Seq(Byte), NEW out \in {Codec!Encode(in), Codec!base64_encode(in)}
    PROVE  \E T : TailOf(Codec!Rest(in, 3), T) /\ out = Codec!Groups(in, 3, 4, Codec!Quad) \o T
<1> DEFINE r == Codec!Rest(in, 3)
           c == Codec!Quad(Codec!Filled(r, 3, 0))
<1>1. r \in Seq(Byte) /\ Len(r) \in {0, 1, 2}
    <2>1. r \in Seq(Byte) /\ Len(r) = Len(in) % 3
        BY RestOf, Zenon
    <2>2. Len(in) % 3 \in {0, 1, 2}
        OBVIOUS
    <2>3. QED
        BY <2>1, <2>2
<1>2. Codec!Pad = 64
    BY DEF Codec!Pad
<1>3. Len(r) >= 1 => \E x \in 0..255, a, b \in 0..63 : r[1] = x /\ a = x \div 4 /\ b = (x % 4) * 16
    <2> HIDE DEF r
    <2> SUFFICES ASSUME Len(r) >= 1
                 PROVE  \E x \in 0..255, a, b \in 0..63 : r[1] = x /\ a = x \div 4 /\ b = (x % 4) * 16
        OBVIOUS
    <2>1. r[1] \in Byte
        BY <1>1
    <2>2. PICK x \in 0..255 : r[1] = x
        BY <2>1 DEF Byte
    <2>3. x \div 4 \in 0..63 /\ (x % 4) * 16 \in 0..63
        OBVIOUS
    <2>4. QED
        BY <2>2, <2>3
<1>4. Len(r) = 2 => \E x, y \in 0..255, a, b, d \in 0..63 :
            /\ r[1] = x /\ r[2] = y
            /\ a = x \div 4 /\ b = (x % 4) * 16 + (y \div 16) /\ d = (y % 16) * 4
    <2> HIDE DEF r
    <2> SUFFICES ASSUME Len(r) = 2
                 PROVE  \E x, y \in 0..255, a, b, d \in 0..63 :
                            /\ r[1] = x /\ r[2] = y
                            /\ a = x \div 4 /\ b = (x % 4) * 16 + (y \div 16) /\ d = (y % 16) * 4
        OBVIOUS
    <2>1. r[1] \in Byte /\ r[2] \in Byte
        BY <1>1, ElementOfSeq, 1 \in 1..Len(r), 2 \in 1..Len(r)
    <2>2. PICK x \in 0..255, y \in 0..255 : r[1] = x /\ r[2] = y
        BY <2>1 DEF Byte
    <2>3. /\ x \div 4 \in 0..63 /\ (x % 4) * 16 + (y \div 16) \in 0..63
          /\ (y % 16) * 4 \in 0..63
        OBVIOUS
    <2>4. QED
        BY <2>2, <2>3
<1>5. CASE out = Codec!Encode(in)
    <2> DEFINE T == CASE Len(r) = 2 -> <<r[1] \div 4, (r[1] % 4) * 16 + r[2] \div 16,
                                         (r[2] % 16) * 4, Codec!Pad>>
                      [] Len(r) = 1 -> <<r[1] \div 4, (r[1] % 4) * 16, Codec!Pad, Codec!Pad>>
                      [] OTHER -> <<>>
    <2>1. out = Codec!Groups(in, 3, 4, Codec!Quad) \o T
        BY <1>5 DEF Codec!Encode
    <2> HIDE DEF r
    <2>2. TailOf(r, T)
        <3>1. CASE Len(r) = 0
            BY <3>1 DEF TailOf
        <3>2. CASE Len(r) = 1
            <4>1. PICK x \in 0..255, a, b \in 0..63 : r[1] = x /\ a = x \div 4 /\ b = (x % 4) * 16
                BY <1>3, <3>2
            <4>2. T = <<a, b, 64, 64>>
                BY <1>2, <3>2, <4>1
            <4> HIDE DEF T
            <4>3. a \in Symbol /\ b \in Symbol /\ 64 \in Symbol
                BY DEF Symbol
            <4>4. QED
                BY <1>2, <3>2, <4>1, <4>2, <4>3 DEF TailOf
        <3>3. CASE Len(r) = 2
            <4>1. PICK x, y \in 0..255, a, b, d \in 0..63 :
                    /\ r[1] = x /\ r[2] = y
                    /\ a = x \div 4 /\ b = (x % 4) * 16 + (y \div 16) /\ d = (y % 16) * 4
                BY <1>4, <3>3
            <4>2. T = <<a, b, d, 64>>
                BY <1>2, <3>3, <4>1
            <4> HIDE DEF T
            <4>3. a \in Symbol /\ b \in Symbol /\ d \in Symbol /\ 64 \in Symbol
                BY DEF Symbol
            <4>4. QED
                BY <1>2, <3>3, <4>1, <4>2, <4>3 DEF TailOf
        <3>4. QED
            BY <1>1, <3>1, <3>2, <3>3
    <2> HIDE DEF T
    <2>3. QED
        BY <2>1, <2>2 DEF r
<1>6. CASE out = Codec!base64_encode(in)
    <2> DEFINE T == IF r = <<>> THEN <<>> ELSE [k \in 1..4 |-> IF k <= Len(r) + 1 THEN c[k] ELSE Codec!Pad]
    <2>1. out = Codec!Groups(in, 3, 4, Codec!Quad) \o T
        BY <1>6 DEF Codec!base64_encode
    <2> HIDE DEF r
    <2>2. TailOf(r, T)
        <3>1. CASE Len(r) = 0
            BY <1>1, <3>1 DEF TailOf
        <3>2. CASE Len(r) = 1
            <4>1. PICK x \in 0..255, a, b \in 0..63 : r[1] = x /\ a = x \div 4 /\ b = (x % 4) * 16
                BY <1>3, <3>2
            <4>2. Codec!Filled(r, 3, 0) = <<x, 0, 0>>
                BY <1>1, <3>2, <4>1 DEF Codec!Filled
            <4>3. c = <<a, b, 0, 0>>
                BY <4>1, <4>2 DEF Codec!Quad
            <4> HIDE DEF c
            <4>4. r # <<>> /\ Len(r) + 1 = 2
                BY <1>1, <3>2
            <4>5. T = [k \in 1..4 |-> IF k <= 2 THEN c[k] ELSE 64]
                <5>1. T = [k \in 1..4 |-> IF k <= Len(r) + 1 THEN c[k] ELSE Codec!Pad]
                    BY <4>4
                <5>2. QED
                    BY <1>2, <4>4, <5>1
            <4> HIDE DEF T
            <4>6. c[1] = a /\ c[2] = b
                BY <4>3
            <4>7. T[1] = a /\ T[2] = b /\ T[3] = 64 /\ T[4] = 64
                BY <4>5, <4>6
            <4>8. T \in [1..4 -> Symbol]
                <5>1. \A k \in 1..4 : T[k] \in Symbol
                    <6>1. T[1] \in Symbol /\ T[2] \in Symbol /\ T[3] \in Symbol /\ T[4] \in Symbol
                        BY <4>7 DEF Symbol
                    <6>2. QED
                        BY <6>1
                <5>2. QED
                    BY <4>5, <5>1
            <4>9. T \in Seq(Symbol) /\ Len(T) = 4
                BY <4>8, FourSymbols, Zenon
            <4>10. QED
                BY <1>2, <3>2, <4>1, <4>7, <4>9 DEF TailOf
        <3>3. CASE Len(r) = 2
            <4>1. PICK x, y \in 0..255, a, b, d \in 0..63 :
                    /\ r[1] = x /\ r[2] = y
                    /\ a = x \div 4 /\ b = (x % 4) * 16 + (y \div 16) /\ d = (y % 16) * 4
                BY <1>4, <3>3
            <4>2. Codec!Filled(r, 3, 0) = <<x, y, 0>>
                BY <1>1, <3>3, <4>1 DEF Codec!Filled
            <4>3. c = <<a, b, d, 0>>
                BY <4>1, <4>2 DEF Codec!Quad
            <4> HIDE DEF c
            <4>4. r # <<>> /\ Len(r) + 1 = 3
                BY <3>3
            <4>5. T = [k \in 1..4 |-> IF k <= 3 THEN c[k] ELSE 64]
                <5>1. T = [k \in 1..4 |-> IF k <= Len(r) + 1 THEN c[k] ELSE Codec!Pad]
                    BY <4>4
                <5>2. QED
                    BY <1>2, <4>4, <5>1
            <4> HIDE DEF T
            <4>6. c[1] = a /\ c[2] = b /\ c[3] = d
                BY <4>3
            <4>7. T[1] = a /\ T[2] = b /\ T[3] = d /\ T[4] = 64
                BY <4>5, <4>6
            <4>8. T \in [1..4 -> Symbol]
                <5>1. \A k \in 1..4 : T[k] \in Symbol
                    <6>1. T[1] \in Symbol /\ T[2] \in Symbol /\ T[3] \in Symbol /\ T[4] \in Symbol
                        BY <4>7 DEF Symbol
                    <6>2. QED
                        BY <6>1
                <5>2. QED
                    BY <4>5, <5>1
            <4>9. T \in Seq(Symbol) /\ Len(T) = 4
                BY <4>8, FourSymbols, Zenon
            <4>10. QED
                BY <1>2, <3>3, <4>1, <4>7, <4>9 DEF TailOf
        <3>4. QED
            BY <1>1, <3>1, <3>2, <3>3
    <2> HIDE DEF T
    <2>3. QED
        BY <2>1, <2>2 DEF r
<1>7. QED
    BY <1>5, <1>6

\* A text of the encoders, character by character.
Written(out, in, g) ==
    LET b1 == At(in, 3 * g + 1)
        b2 == At(in, 3 * g + 2)
        b3 == At(in, 3 * g + 3)
    IN  /\ out[4 * g + 1] = b1 \div 4
        /\ out[4 * g + 2] = (b1 % 4) * 16 + (b2 \div 16)
        /\ out[4 * g + 3] = IF 3 * g + 2 <= Len(in) THEN (b2 % 16) * 4 + (b3 \div 64) ELSE Codec!Pad
        /\ out[4 * g + 4] = IF 3 * g + 3 <= Len(in) THEN b3 % 64 ELSE Codec!Pad

\* Both encoders write a text of that size and of those characters.
LEMMA EncodersWrite ==
    ASSUME NEW in \in Seq(Byte), NEW out \in {Codec!Encode(in), Codec!base64_encode(in)}
    PROVE  /\ Len(out) = Codec!EncodedSize(Len(in))
           /\ \A g \in 0..(((Len(in) + 2) \div 3) - 1) : Written(out, in, g)
<1> DEFINE G == Codec!Groups(in, 3, 4, Codec!Quad)
           r == Codec!Rest(in, 3)
<1>1. PICK T : TailOf(r, T) /\ out = G \o T
    BY Texts
<1>2. PICK q \in Nat : q = Len(in) \div 3 /\ Len(in) = 3 * q + (Len(in) % 3)
    OBVIOUS
<1>3. /\ G = [i \in 1..(4 * q) |-> G[i]]
      /\ \A g \in 0..(q - 1) :
            LET b == <<in[3 * g + 1], in[3 * g + 2], in[3 * g + 3]>> IN
            /\ G[4 * g + 1] = Codec!Quad(b)[1]
            /\ G[4 * g + 2] = Codec!Quad(b)[2]
            /\ G[4 * g + 3] = Codec!Quad(b)[3]
            /\ G[4 * g + 4] = Codec!Quad(b)[4]
    BY <1>2, QuadGroups, Zenon
<1>4. /\ r \in Seq(Byte) /\ Len(r) = Len(in) % 3 /\ Len(r) \in {0, 1, 2}
      /\ Len(r) > 0 => r[1] = in[3 * q + 1]
      /\ Len(r) = 2 => r[2] = in[3 * q + 2]
    <2>1. /\ r \in Seq(Byte) /\ Len(r) = Len(in) % 3
          /\ \A k \in 1..(Len(in) % 3) : r[k] = in[3 * (Len(in) \div 3) + k]
        BY RestOf, Zenon
    <2> HIDE DEF r
    <2>2. Len(in) % 3 \in {0, 1, 2}
        OBVIOUS
    <2>3. QED
        BY <1>2, <2>1, <2>2
<1> HIDE DEF G, r
<1>5. PICK S : G \in Seq(S) /\ T \in Seq(S) /\ Len(G) = 4 * q /\ Len(T) = IF Len(r) = 0 THEN 0 ELSE 4
    <2> DEFINE S == Symbol \cup {G[i] : i \in 1..(4 * q)}
    <2>1. G \in [1..(4 * q) -> S]
        BY <1>3
    <2>2. G \in Seq(S) /\ Len(G) = 4 * q
        <3> HIDE DEF S
        <3> QED BY <2>1, FunctionSeq, 4 * q \in Nat
    <2>3. T \in Seq(Symbol) /\ Len(T) = IF Len(r) = 0 THEN 0 ELSE 4
        BY <1>1, <1>4 DEF TailOf
    <2>4. Symbol \subseteq S
        OBVIOUS
    <2> HIDE DEF S
    <2>5. T \in Seq(S)
        BY <2>3, <2>4, SeqMonotonic, Zenon
    <2>6. QED
        BY <2>2, <2>3, <2>5
<1>6. /\ Len(out) = 4 * q + Len(T)
      /\ \A i \in 1..(4 * q) : out[i] = G[i]
      /\ \A i \in 1..Len(T) : out[4 * q + i] = T[i]
    <2>1. /\ Len(out) = Len(G) + Len(T)
          /\ \A i \in 1..Len(G) : out[i] = G[i]
          /\ \A i \in 1..Len(T) : out[Len(G) + i] = T[i]
        <3>1. G \in Seq(S) /\ T \in Seq(S)
            BY <1>5
        <3>2. Len(G \o T) = Len(G) + Len(T)
            BY <3>1
        <3>3. ASSUME NEW i \in 1..Len(G) PROVE (G \o T)[i] = G[i]
            BY <3>1
        <3>4. ASSUME NEW i \in 1..Len(T) PROVE (G \o T)[Len(G) + i] = T[i]
            BY <3>1
        <3>5. QED
            BY <1>1, <3>2, <3>3, <3>4
    <2>2. QED
        BY <1>5, <2>1
<1>7. Len(out) = Codec!EncodedSize(Len(in))
    <2>1. Len(r) = 0 => (Len(in) + 2) \div 3 = q
        BY <1>2, <1>4
    <2>2. Len(r) # 0 => (Len(in) + 2) \div 3 = q + 1
        BY <1>2, <1>4
    <2>3. Len(r) = 0 => Len(out) = 4 * q
        BY <1>5, <1>6
    <2>4. Len(r) # 0 => Len(out) = 4 * (q + 1)
        BY <1>5, <1>6
    <2>5. QED
        BY <2>1, <2>2, <2>3, <2>4, Zenon DEF Codec!EncodedSize
<1>8. ASSUME NEW g \in 0..(q - 1) PROVE Written(out, in, g)
    <2>1. /\ out[4 * g + 1] = G[4 * g + 1] /\ out[4 * g + 2] = G[4 * g + 2]
          /\ out[4 * g + 3] = G[4 * g + 3] /\ out[4 * g + 4] = G[4 * g + 4]
        BY <1>6
    <2>2. 3 * g + 3 <= Len(in) /\ 3 * g + 2 <= Len(in) /\ 3 * g + 1 <= Len(in)
        BY <1>2
    <2>3. /\ At(in, 3 * g + 1) = in[3 * g + 1] /\ At(in, 3 * g + 2) = in[3 * g + 2]
          /\ At(in, 3 * g + 3) = in[3 * g + 3]
        BY <2>2 DEF At
    <2>4. /\ G[4 * g + 1] = in[3 * g + 1] \div 4
          /\ G[4 * g + 2] = (in[3 * g + 1] % 4) * 16 + (in[3 * g + 2] \div 16)
          /\ G[4 * g + 3] = (in[3 * g + 2] % 16) * 4 + (in[3 * g + 3] \div 64)
          /\ G[4 * g + 4] = in[3 * g + 3] % 64
        BY <1>3 DEF Codec!Quad
    <2>5. QED
        BY <2>1, <2>2, <2>3, <2>4, Zenon DEF Written
<1>9. ASSUME Len(r) > 0 PROVE Written(out, in, q)
    <2>1. /\ out[4 * q + 1] = T[1] /\ out[4 * q + 2] = T[2]
          /\ out[4 * q + 3] = T[3] /\ out[4 * q + 4] = T[4]
        BY <1>5, <1>6, <1>9
    <2>2. At(in, 3 * q + 1) = r[1] /\ At(in, 3 * q + 3) = 0
        BY <1>2, <1>4, <1>9 DEF At
    <2>3. CASE Len(r) = 1
        <3>0. Len(in) = 3 * q + 1
            BY <1>2, <1>4, <2>3
        <3>1. At(in, 3 * q + 2) = 0 /\ ~(3 * q + 2 <= Len(in)) /\ ~(3 * q + 3 <= Len(in))
            BY <3>0 DEF At
        <3>2. r[1] \in Byte
            BY <1>4, <1>9
        <3>3. QED
            <4>1. PICK x \in 0..255 : r[1] = x
                BY <3>2 DEF Byte
            <4>2. (x % 4) * 16 + (0 \div 16) = (x % 4) * 16
                OBVIOUS
            <4>3. QED
                BY <1>1, <2>1, <2>2, <2>3, <3>1, <4>1, <4>2 DEF Written, TailOf
    <2>4. CASE Len(r) = 2
        <3>0. Len(in) = 3 * q + 2
            BY <1>2, <1>4, <2>4
        <3>1. At(in, 3 * q + 2) = r[2] /\ 3 * q + 2 <= Len(in) /\ ~(3 * q + 3 <= Len(in))
            BY <1>4, <2>4, <3>0 DEF At
        <3>2. r[1] \in Byte /\ r[2] \in Byte
            <4>1. 1 \in 1..Len(r) /\ 2 \in 1..Len(r)
                BY <2>4
            <4>2. QED
                BY <1>4, <4>1, ElementOfSeq, Zenon
        <3>3. QED
            <4>1. PICK x \in 0..255, y \in 0..255 : r[1] = x /\ r[2] = y
                BY <3>2 DEF Byte
            <4>2. (y % 16) * 4 + (0 \div 64) = (y % 16) * 4
                OBVIOUS
            <4>3. QED
                BY <1>1, <2>1, <2>2, <2>4, <3>1, <4>1, <4>2 DEF Written, TailOf
    <2>5. QED
        BY <1>4, <1>9, <2>3, <2>4
<1>10. ASSUME NEW g \in 0..(((Len(in) + 2) \div 3) - 1) PROVE Written(out, in, g)
    <2>1. g \in 0..(q - 1) \/ (g = q /\ Len(r) > 0)
        BY <1>2, <1>4
    <2>2. QED
        BY <1>8, <1>9, <2>1
<1>11. QED
    BY <1>7, <1>10

\* Where a bit of a group of four characters, or of three bytes, is.
LEMMA BitPlaces ==
    ASSUME NEW s, NEW g \in Nat
    PROVE  /\ \A j \in 0..3, d \in 0..5 :
                  Codec!BitAt(s, 6, 24 * g + 6 * j + d) = Codec!Bit(s[4 * g + j + 1], 6, d + 1)
           /\ \A j \in 0..2, d \in 0..7 :
                  Codec!BitAt(s, 8, 24 * g + 8 * j + d) = Codec!Bit(s[3 * g + j + 1], 8, d + 1)
<1>1. ASSUME NEW j \in 0..3, NEW d \in 0..5
      PROVE  /\ (24 * g + 6 * j + d) \div 6 = 4 * g + j
             /\ (24 * g + 6 * j + d) % 6 = d
    OBVIOUS
<1>2. ASSUME NEW j \in 0..2, NEW d \in 0..7
      PROVE  /\ (24 * g + 8 * j + d) \div 8 = 3 * g + j
             /\ (24 * g + 8 * j + d) % 8 = d
    OBVIOUS
<1>3. QED
    BY <1>1, <1>2 DEF Codec!BitAt

\* The bits of the four characters of three bytes.
LEMMA QuadBits ==
    ASSUME NEW b1 \in Byte, NEW b2 \in Byte, NEW b3 \in Byte,
           NEW c1, c1 = b1 \div 4, NEW c2, c2 = (b1 % 4) * 16 + (b2 \div 16),
           NEW c3, c3 = (b2 % 16) * 4 + (b3 \div 64), NEW c4, c4 = b3 % 64
    PROVE  /\ c1 \in 0..63 /\ c2 \in 0..63 /\ c3 \in 0..63 /\ c4 \in 0..63
           /\ \A d \in 0..5 : Codec!Bit(c1, 6, d + 1) = Codec!Bit(b1, 8, d + 1)
           /\ \A d \in 0..1 : Codec!Bit(c2, 6, d + 1) = Codec!Bit(b1, 8, d + 7)
           /\ \A d \in 2..5 : Codec!Bit(c2, 6, d + 1) = Codec!Bit(b2, 8, d - 1)
           /\ \A d \in 0..3 : Codec!Bit(c3, 6, d + 1) = Codec!Bit(b2, 8, d + 5)
           /\ \A d \in 4..5 : Codec!Bit(c3, 6, d + 1) = Codec!Bit(b3, 8, d - 3)
           /\ \A d \in 0..5 : Codec!Bit(c4, 6, d + 1) = Codec!Bit(b3, 8, d + 3)
<1>1. c1 \in 0..63 /\ c2 \in 0..63 /\ c3 \in 0..63 /\ c4 \in 0..63
    <2>1. c1 \in 0..63
        BY DEF Byte
    <2>2. c2 \in 0..63
        BY DEF Byte
    <2>3. c3 \in 0..63
        BY DEF Byte
    <2>4. c4 \in 0..63
        BY DEF Byte
    <2>5. QED
        BY <2>1, <2>2, <2>3, <2>4
<1>2. b1 \in Nat /\ b2 \in Nat /\ b3 \in Nat /\ c1 \in Nat /\ c2 \in Nat /\ c3 \in Nat /\ c4 \in Nat
    BY <1>1 DEF Byte
<1>3. ASSUME NEW d \in 0..5 PROVE Codec!Bit(c1, 6, d + 1) = Codec!Bit(b1, 8, d + 1)
    <2>1. Codec!Bit(c1, 6, 1) = Codec!Bit(b1, 8, 1)
        BY <1>2 DEF Byte, Codec!Bit
    <2>2. Codec!Bit(c1, 6, 2) = Codec!Bit(b1, 8, 2)
        BY <1>2 DEF Byte, Codec!Bit
    <2>3. Codec!Bit(c1, 6, 3) = Codec!Bit(b1, 8, 3)
        BY <1>2 DEF Byte, Codec!Bit
    <2>4. Codec!Bit(c1, 6, 4) = Codec!Bit(b1, 8, 4)
        BY <1>2 DEF Byte, Codec!Bit
    <2>5. Codec!Bit(c1, 6, 5) = Codec!Bit(b1, 8, 5)
        BY <1>2 DEF Byte, Codec!Bit
    <2>6. Codec!Bit(c1, 6, 6) = Codec!Bit(b1, 8, 6)
        BY <1>2 DEF Byte, Codec!Bit
    <2>7. QED
        BY <2>1, <2>2, <2>3, <2>4, <2>5, <2>6
<1>4. ASSUME NEW d \in 0..1 PROVE Codec!Bit(c2, 6, d + 1) = Codec!Bit(b1, 8, d + 7)
    <2>1. Codec!Bit(c2, 6, 1) = Codec!Bit(b1, 8, 7)
        BY <1>2 DEF Byte, Codec!Bit
    <2>2. Codec!Bit(c2, 6, 2) = Codec!Bit(b1, 8, 8)
        BY <1>2 DEF Byte, Codec!Bit
    <2>3. QED
        BY <2>1, <2>2
<1>5. ASSUME NEW d \in 2..5 PROVE Codec!Bit(c2, 6, d + 1) = Codec!Bit(b2, 8, d - 1)
    <2>1. Codec!Bit(c2, 6, 3) = Codec!Bit(b2, 8, 1)
        BY <1>2 DEF Byte, Codec!Bit
    <2>2. Codec!Bit(c2, 6, 4) = Codec!Bit(b2, 8, 2)
        BY <1>2 DEF Byte, Codec!Bit
    <2>3. Codec!Bit(c2, 6, 5) = Codec!Bit(b2, 8, 3)
        BY <1>2 DEF Byte, Codec!Bit
    <2>4. Codec!Bit(c2, 6, 6) = Codec!Bit(b2, 8, 4)
        BY <1>2 DEF Byte, Codec!Bit
    <2>5. QED
        BY <2>1, <2>2, <2>3, <2>4
<1>6. ASSUME NEW d \in 0..3 PROVE Codec!Bit(c3, 6, d + 1) = Codec!Bit(b2, 8, d + 5)
    <2>1. Codec!Bit(c3, 6, 1) = Codec!Bit(b2, 8, 5)
        BY <1>2 DEF Byte, Codec!Bit
    <2>2. Codec!Bit(c3, 6, 2) = Codec!Bit(b2, 8, 6)
        BY <1>2 DEF Byte, Codec!Bit
    <2>3. Codec!Bit(c3, 6, 3) = Codec!Bit(b2, 8, 7)
        BY <1>2 DEF Byte, Codec!Bit
    <2>4. Codec!Bit(c3, 6, 4) = Codec!Bit(b2, 8, 8)
        BY <1>2 DEF Byte, Codec!Bit
    <2>5. QED
        BY <2>1, <2>2, <2>3, <2>4
<1>7. ASSUME NEW d \in 4..5 PROVE Codec!Bit(c3, 6, d + 1) = Codec!Bit(b3, 8, d - 3)
    <2>1. Codec!Bit(c3, 6, 5) = Codec!Bit(b3, 8, 1)
        BY <1>2 DEF Byte, Codec!Bit
    <2>2. Codec!Bit(c3, 6, 6) = Codec!Bit(b3, 8, 2)
        BY <1>2 DEF Byte, Codec!Bit
    <2>3. QED
        BY <2>1, <2>2
<1>8. ASSUME NEW d \in 0..5 PROVE Codec!Bit(c4, 6, d + 1) = Codec!Bit(b3, 8, d + 3)
    <2>1. Codec!Bit(c4, 6, 1) = Codec!Bit(b3, 8, 3)
        BY <1>2 DEF Byte, Codec!Bit
    <2>2. Codec!Bit(c4, 6, 2) = Codec!Bit(b3, 8, 4)
        BY <1>2 DEF Byte, Codec!Bit
    <2>3. Codec!Bit(c4, 6, 3) = Codec!Bit(b3, 8, 5)
        BY <1>2 DEF Byte, Codec!Bit
    <2>4. Codec!Bit(c4, 6, 4) = Codec!Bit(b3, 8, 6)
        BY <1>2 DEF Byte, Codec!Bit
    <2>5. Codec!Bit(c4, 6, 5) = Codec!Bit(b3, 8, 7)
        BY <1>2 DEF Byte, Codec!Bit
    <2>6. Codec!Bit(c4, 6, 6) = Codec!Bit(b3, 8, 8)
        BY <1>2 DEF Byte, Codec!Bit
    <2>7. QED
        BY <2>1, <2>2, <2>3, <2>4, <2>5, <2>6
<1>9. QED
    BY <1>1, <1>3, <1>4, <1>5, <1>6, <1>7, <1>8

\* Bit by bit, four characters are the three bytes they are made of.
LEMMA SameBits ==
    ASSUME NEW b, b[1] \in Byte, b[2] \in Byte, b[3] \in Byte
    PROVE  \A j \in 0..3, d \in 0..5, h \in 0..2, e \in 0..7 :
               6 * j + d = 8 * h + e =>
                   Codec!Bit(Codec!Quad(b)[j + 1], 6, d + 1) = Codec!Bit(b[h + 1], 8, e + 1)
<1>1. /\ \A x \in 0..5 : Codec!Bit(Codec!Quad(b)[1], 6, x + 1) = Codec!Bit(b[1], 8, x + 1)
      /\ \A x \in 0..1 : Codec!Bit(Codec!Quad(b)[2], 6, x + 1) = Codec!Bit(b[1], 8, x + 7)
      /\ \A x \in 2..5 : Codec!Bit(Codec!Quad(b)[2], 6, x + 1) = Codec!Bit(b[2], 8, x - 1)
      /\ \A x \in 0..3 : Codec!Bit(Codec!Quad(b)[3], 6, x + 1) = Codec!Bit(b[2], 8, x + 5)
      /\ \A x \in 4..5 : Codec!Bit(Codec!Quad(b)[3], 6, x + 1) = Codec!Bit(b[3], 8, x - 3)
      /\ \A x \in 0..5 : Codec!Bit(Codec!Quad(b)[4], 6, x + 1) = Codec!Bit(b[3], 8, x + 3)
    BY QuadBits DEF Codec!Quad
<1> TAKE j \in 0..3, d \in 0..5, h \in 0..2, e \in 0..7
<1> HAVE 6 * j + d = 8 * h + e
<1>2. \/ j = 0 /\ h = 0 /\ e = d
      \/ j = 1 /\ d \in 0..1 /\ h = 0 /\ e + 1 = d + 7
      \/ j = 1 /\ d \in 2..5 /\ h = 1 /\ e + 1 = d - 1
      \/ j = 2 /\ d \in 0..3 /\ h = 1 /\ e + 1 = d + 5
      \/ j = 2 /\ d \in 4..5 /\ h = 2 /\ e + 1 = d - 3
      \/ j = 3 /\ h = 2 /\ e + 1 = d + 3
    OBVIOUS
<1>3. QED
    BY <1>1, <1>2

\* The bits of a byte, and the zeroes after the last one.
LEMMA PaddedBit ==
    ASSUME NEW s \in Seq(Byte), NEW g \in Nat, NEW h \in 0..2, NEW e \in 0..7
    PROVE  Codec!Bit(At(s, 3 * g + h + 1), 8, e + 1)
                = IF 24 * g + 8 * h + e < 8 * Len(s) THEN Codec!BitAt(s, 8, 24 * g + 8 * h + e) ELSE 0
<1>1. CASE 3 * g + h + 1 <= Len(s)
    <2>1. At(s, 3 * g + h + 1) = s[3 * g + h + 1] /\ 24 * g + 8 * h + e < 8 * Len(s)
        BY <1>1 DEF At
    <2>2. Codec!BitAt(s, 8, 24 * g + 8 * h + e) = Codec!Bit(s[3 * g + h + 1], 8, e + 1)
        BY BitPlaces, Zenon
    <2>3. QED
        BY <2>1, <2>2
<1>2. CASE ~(3 * g + h + 1 <= Len(s))
    <2>1. At(s, 3 * g + h + 1) = 0 /\ ~(24 * g + 8 * h + e < 8 * Len(s))
        BY <1>2 DEF At
    <2>2. \A k \in 1..8 : Codec!Bit(0, 8, k) = 0
        <3>1. /\ Codec!Bit(0, 8, 1) = 0 /\ Codec!Bit(0, 8, 2) = 0 /\ Codec!Bit(0, 8, 3) = 0
              /\ Codec!Bit(0, 8, 4) = 0 /\ Codec!Bit(0, 8, 5) = 0 /\ Codec!Bit(0, 8, 6) = 0
              /\ Codec!Bit(0, 8, 7) = 0 /\ Codec!Bit(0, 8, 8) = 0
            BY DEF Codec!Bit
        <3>2. QED
            BY <3>1
    <2>3. e + 1 \in 1..8
        OBVIOUS
    <2>4. QED
        BY <2>1, <2>2, <2>3
<1>3. QED
    BY <1>1, <1>2

\* No letter is '='.
LEMMA NotPad ==
    \A c : /\ c[1] \in 0..63 /\ c[2] \in 0..63 /\ c[3] \in 0..63 /\ c[4] \in 0..63
           => \A j \in 0..3 : c[j + 1] # Codec!Pad
BY DEF Codec!Pad

\* What the encoders write carries the bits of what they are given.
LEMMA EncodersCarry ==
    ASSUME NEW in \in Seq(Byte), NEW out \in {Codec!Encode(in), Codec!base64_encode(in)}
    PROVE  Codec!Carries(out, in)
<1> DEFINE n == Len(in)
           chars == (8 * n + 5) \div 6
           last == ((n + 2) \div 3) - 1
<1>1. Len(out) = 4 * ((n + 2) \div 3) /\ Len(out) = Codec!EncodedSize(n)
    BY EncodersWrite DEF Codec!EncodedSize
<1>2. ASSUME NEW g \in Nat
      PROVE  /\ Three(in, g)[1] \in Byte /\ Three(in, g)[2] \in Byte /\ Three(in, g)[3] \in Byte
             /\ Codec!Quad(Three(in, g))[1] \in 0..63 /\ Codec!Quad(Three(in, g))[2] \in 0..63
             /\ Codec!Quad(Three(in, g))[3] \in 0..63 /\ Codec!Quad(Three(in, g))[4] \in 0..63
    <2>1. \A k \in Nat : At(in, k) \in Byte
        <3>1. 0 \in Byte
            BY DEF Byte
        <3>2. QED
            BY <3>1 DEF At
    <2>2. PICK b1 \in Byte, b2 \in Byte, b3 \in Byte :
            b1 = At(in, 3 * g + 1) /\ b2 = At(in, 3 * g + 2) /\ b3 = At(in, 3 * g + 3)
        BY <2>1
    <2>3. Three(in, g)[1] = b1 /\ Three(in, g)[2] = b2 /\ Three(in, g)[3] = b3
        BY <2>2 DEF Three
    <2>4. QED
        BY <2>3, QuadBits DEF Codec!Quad
<1>3. ASSUME NEW k \in 1..Len(out)
      PROVE  \E g \in 0..last, j \in 0..3 :
                 /\ k = 4 * g + j + 1
                 /\ out[k] = IF k <= chars THEN Codec!Quad(Three(in, g))[j + 1] ELSE Codec!Pad
    <2>1. PICK g \in 0..last, j \in 0..3 : k = 4 * g + j + 1
        <3>1. /\ (k - 1) \div 4 \in 0..last /\ (k - 1) % 4 \in 0..3
              /\ k = 4 * ((k - 1) \div 4) + ((k - 1) % 4) + 1
            BY <1>1
        <3>2. QED
            BY <3>1
    <2>2. Written(out, in, g)
        BY EncodersWrite
    <2>3. /\ k <= chars <=> 3 * g + j <= n
          /\ 3 * g + 1 <= n
        BY <2>1
    <2>4. CASE j = 0
        BY <2>1, <2>2, <2>3, <2>4 DEF Written, Three, Codec!Quad
    <2>5. CASE j = 1
        BY <2>1, <2>2, <2>3, <2>5 DEF Written, Three, Codec!Quad
    <2>6. CASE j = 2
        BY <2>1, <2>2, <2>3, <2>6 DEF Written, Three, Codec!Quad
    <2>7. CASE j = 3
        BY <2>1, <2>2, <2>3, <2>7 DEF Written, Three, Codec!Quad
    <2>8. QED
        BY <2>1, <2>4, <2>5, <2>6, <2>7
<1>4. ASSUME NEW k \in 1..Len(out) PROVE (out[k] = Codec!Pad) <=> (k > chars)
    <2>1. PICK g \in 0..last, j \in 0..3 :
            out[k] = IF k <= chars THEN Codec!Quad(Three(in, g))[j + 1] ELSE Codec!Pad
        BY <1>3
    <2>2. Codec!Quad(Three(in, g))[j + 1] # Codec!Pad
        <3>1. /\ Codec!Quad(Three(in, g))[1] \in 0..63 /\ Codec!Quad(Three(in, g))[2] \in 0..63
              /\ Codec!Quad(Three(in, g))[3] \in 0..63 /\ Codec!Quad(Three(in, g))[4] \in 0..63
            BY <1>2, g \in Nat, Zenon
        <3>2. QED
            BY <3>1, NotPad, Zenon
    <2>3. QED
        BY <1>1, <2>1, <2>2
<1>5. ASSUME NEW i \in 0..(6 * chars - 1)
      PROVE  Codec!BitAt(out, 6, i) = IF i < 8 * n THEN Codec!BitAt(in, 8, i) ELSE 0
    <2>1. PICK g \in 0..last, j \in 0..3, d \in 0..5 : i = 24 * g + 6 * j + d
        <3>1. /\ i \div 24 \in 0..last /\ (i % 24) \div 6 \in 0..3 /\ i % 6 \in 0..5
              /\ i = 24 * (i \div 24) + 6 * ((i % 24) \div 6) + (i % 6)
            OBVIOUS
        <3>2. QED
            BY <3>1
    <2>0. g \in Nat
        OBVIOUS
    <2>2. PICK h \in 0..2, e \in 0..7 : 6 * j + d = 8 * h + e
        OBVIOUS
    <2>3. out[4 * g + j + 1] = Codec!Quad(Three(in, g))[j + 1]
        <3>1. 4 * g + j + 1 \in 1..Len(out) /\ 4 * g + j + 1 <= chars
            BY <1>1, <2>1
        <3>2. PICK x \in 0..last, y \in 0..3 :
                 /\ 4 * g + j + 1 = 4 * x + y + 1
                 /\ out[4 * g + j + 1] = Codec!Quad(Three(in, x))[y + 1]
            BY <1>3, <3>1
        <3>3. x = g /\ y = j
            BY <3>2, SMTT(30)
        <3>4. QED
            BY <3>2, <3>3
    <2>4. Codec!BitAt(out, 6, 24 * g + 6 * j + d) = Codec!Bit(out[4 * g + j + 1], 6, d + 1)
        BY <2>0, BitPlaces, ZenonT(60)
    <2>5. Codec!Bit(Codec!Quad(Three(in, g))[j + 1], 6, d + 1) = Codec!Bit(Three(in, g)[h + 1], 8, e + 1)
        <3>1. Three(in, g)[1] \in Byte /\ Three(in, g)[2] \in Byte /\ Three(in, g)[3] \in Byte
            BY <1>2, <2>0, Zenon
        <3>2. QED
            BY <2>2, <3>1, SameBits, Zenon
    <2>6. Three(in, g)[h + 1] = At(in, 3 * g + h + 1)
        BY DEF Three
    <2>7. Codec!Bit(At(in, 3 * g + h + 1), 8, e + 1)
            = IF 24 * g + 8 * h + e < 8 * n THEN Codec!BitAt(in, 8, 24 * g + 8 * h + e) ELSE 0
        BY <2>0, PaddedBit, Zenon
    <2>8. i = 24 * g + 8 * h + e
        BY <2>1, <2>2
    <2>9. QED
        BY <2>1, <2>3, <2>4, <2>5, <2>6, <2>7, <2>8
<1>6. QED
    BY <1>1, <1>4, <1>5 DEF Codec!Carries

\* The characters in front of the first '=' or stranger.
LEMMA TakenIs ==
    ASSUME NEW src \in Seq(Char)
    PROVE  LET m == Len(Codec!Taken(src)) IN
           /\ m \in 0..Len(src) /\ Codec!Taken(src) \in Seq(Letter)
           /\ \A k \in 1..m : Codec!Taken(src)[k] = src[k]
           /\ Codec!Max({k \in 0..Len(src) : \A i \in 1..k : src[i] < Codec!Pad}) = m
<1> DEFINE stops == {k \in 1..Len(src) : src[k] \in {Codec!Pad, Codec!Other}}
           whole == {k \in 0..Len(src) : \A i \in 1..k : src[i] < Codec!Pad}
<1>1. Codec!Pad = 64 /\ Codec!Other = 65
    BY DEF Codec!Pad, Codec!Other
<1>2. \A k \in 1..Len(src) : /\ src[k] \in Int
                             /\ k \notin stops <=> src[k] \in Letter
                             /\ src[k] < 64 <=> src[k] \in Letter
    <2>1. ASSUME NEW k \in 1..Len(src) PROVE src[k] \in Char
        BY ElementOfSeq
    <2>2. ASSUME NEW k \in 1..Len(src)
          PROVE  /\ src[k] \in Int
                 /\ k \notin stops <=> src[k] \in Letter
                 /\ src[k] < 64 <=> src[k] \in Letter
        <3>1. PICK v \in 0..65 : src[k] = v
            BY <2>1 DEF Char
        <3>2. k \in stops <=> v \in {64, 65}
            BY <1>1, <3>1
        <3>3. QED
            BY <3>1, <3>2 DEF Letter
    <2>3. QED
        BY <2>2
<1>3. PICK m \in 0..Len(src) :
        /\ \A k \in 1..m : k \notin stops
        /\ m < Len(src) => m + 1 \in stops
        /\ Codec!Taken(src) = IF m = Len(src) THEN src ELSE SubSeq(src, 1, m)
    <2>1. CASE stops = {}
        BY <2>1 DEF Codec!Taken
    <2>2. CASE stops # {}
        <3>0. stops \in SUBSET Nat
            OBVIOUS
        <3>1. \E x \in stops : \A y \in stops : x <= y
            <4> HIDE DEF stops
            <4> QED
                BY <2>2, <3>0, LeastNatural
        <3>2. PICK x \in stops : Codec!Min(stops) = x /\ \A y \in stops : x <= y
            BY <3>1 DEF Codec!Min
        <3>3. Codec!Taken(src) = SubSeq(src, 1, x - 1)
            BY <2>2, <3>2 DEF Codec!Taken
        <3>4. x - 1 \in 0..Len(src) /\ x - 1 # Len(src) /\ (x - 1) + 1 \in stops
            OBVIOUS
        <3>5. \A k \in 1..(x - 1) : k \notin stops
            BY <3>2
        <3>6. QED
            BY <3>3, <3>4, <3>5
    <2>3. QED
        BY <2>1, <2>2
<1> HIDE DEF stops
<1>4. /\ Codec!Taken(src) \in Seq(Letter) /\ Len(Codec!Taken(src)) = m
      /\ \A k \in 1..m : Codec!Taken(src)[k] = src[k]
    <2>1. \A k \in 1..m : src[k] \in Letter
        BY <1>2, <1>3
    <2>2. CASE m = Len(src)
        <3>1. src \in [1..m -> Letter]
            BY <2>1, <2>2
        <3>2. src \in Seq(Letter)
            BY <3>1, FunctionSeq
        <3>3. QED
            BY <1>3, <2>2, <3>2
    <2>3. CASE m # Len(src)
        BY <1>3, <2>1, <2>3, SubSeqProperties
    <2>4. QED
        BY <2>2, <2>3
<1>5. m \in whole /\ \A k \in whole : k <= m
    <2>1. m \in whole
        BY <1>1, <1>2, <1>3
    <2>2. ASSUME NEW k \in whole, k > m PROVE FALSE
        <3>1. m + 1 \in 1..k /\ m + 1 \in 1..Len(src) /\ m + 1 \in stops
            BY <1>3, <2>2
        <3>2. src[m + 1] < 64
            BY <1>1, <3>1
        <3>3. QED
            BY <1>2, <3>1, <3>2
    <2>3. QED
        BY <2>1, <2>2
<1>6. Codec!Max(whole) = m
    <2> HIDE DEF whole
    <2>1. \A k \in whole : k \in Int
        BY DEF whole
    <2>2. \E x \in whole : \A y \in whole : x >= y
        BY <1>5, <2>1
    <2>3. PICK x \in whole : Codec!Max(whole) = x /\ \A y \in whole : x >= y
        BY <2>2 DEF Codec!Max
    <2>4. QED
        BY <1>5, <2>1, <2>3
<1>7. QED
    BY <1>3, <1>4, <1>6

\* The bytes of the whole groups of four characters.
LEMMA TripleGroups ==
    ASSUME NEW in \in Seq(Letter), NEW q \in Nat, q = Len(in) \div 4
    PROVE  LET out == Codec!Groups(in, 4, 3, Codec!Triple) IN
           /\ out = [i \in 1..(3 * q) |-> out[i]]
           /\ \A g \in 0..(q - 1) :
                LET c == <<in[4 * g + 1], in[4 * g + 2], in[4 * g + 3], in[4 * g + 4]>> IN
                /\ out[3 * g + 1] = Codec!Triple(c)[1]
                /\ out[3 * g + 2] = Codec!Triple(c)[2]
                /\ out[3 * g + 3] = Codec!Triple(c)[3]
<1> DEFINE out == Codec!Groups(in, 4, 3, Codec!Triple)
<1>1. out = [i \in 1..(3 * q) |->
                Codec!Triple(Codec!Group(in, 4, ((i - 1) \div 3) + 1))[((i - 1) % 3) + 1]]
    BY DEF Codec!Groups
<1>2. ASSUME NEW g \in 0..(q - 1)
      PROVE  LET c == <<in[4 * g + 1], in[4 * g + 2], in[4 * g + 3], in[4 * g + 4]>> IN
                /\ out[3 * g + 1] = Codec!Triple(c)[1]
                /\ out[3 * g + 2] = Codec!Triple(c)[2]
                /\ out[3 * g + 3] = Codec!Triple(c)[3]
    <2> DEFINE s == Codec!Group(in, 4, g + 1)
    <2>1. /\ s[1] = in[4 * g + 1] /\ s[2] = in[4 * g + 2] /\ s[3] = in[4 * g + 3]
          /\ s[4] = in[4 * g + 4]
        <3>1. 4 * ((g + 1) - 1) + 1 = 4 * g + 1 /\ 4 * (g + 1) = 4 * g + 4 /\ 4 * g + 4 <= Len(in)
            OBVIOUS
        <3>2. s = SubSeq(in, 4 * g + 1, 4 * g + 4)
            BY <3>1 DEF Codec!Group
        <3> HIDE DEF s
        <3>3. 4 * g \in Nat /\ 4 \in Nat
            OBVIOUS
        <3>4. \A k \in 1..4 : s[k] = in[4 * g + k]
            BY <3>1, <3>2, <3>3, PartOf, ZenonT(60)
        <3>5. QED
            BY <3>4
    <2>2. /\ ((3 * g + 1) - 1) \div 3 = g /\ ((3 * g + 2) - 1) \div 3 = g
          /\ ((3 * g + 3) - 1) \div 3 = g
          /\ ((3 * g + 1) - 1) % 3 = 0 /\ ((3 * g + 2) - 1) % 3 = 1 /\ ((3 * g + 3) - 1) % 3 = 2
          /\ 3 * g + 1 \in 1..(3 * q) /\ 3 * g + 2 \in 1..(3 * q) /\ 3 * g + 3 \in 1..(3 * q)
        OBVIOUS
    <2> HIDE DEF out, s
    <2>3. /\ out[3 * g + 1] = Codec!Triple(s)[1] /\ out[3 * g + 2] = Codec!Triple(s)[2]
          /\ out[3 * g + 3] = Codec!Triple(s)[3]
        BY <1>1, <2>2 DEF s
    <2>4. QED
        BY <2>1, <2>3 DEF Codec!Triple
<1>3. QED
    BY <1>1, <1>2

\* Three bytes made of four characters are the bytes those characters are made of.
LEMMA QuadOfTriple ==
    ASSUME NEW c, c[1] \in Letter, c[2] \in Letter, c[3] \in Letter, c[4] \in Letter
    PROVE  LET b == Codec!Triple(c) IN
           /\ b[1] \in Byte /\ b[2] \in Byte /\ b[3] \in Byte
           /\ \A j \in 0..3 : Codec!Quad(b)[j + 1] = c[j + 1]
<1>1. PICK c1 \in 0..63, c2 \in 0..63, c3 \in 0..63, c4 \in 0..63 :
        c[1] = c1 /\ c[2] = c2 /\ c[3] = c3 /\ c[4] = c4
    BY DEF Letter
<1>2. PICK b1, b2, b3 : /\ b1 = (c1 * 4 + ((c2 % 64) \div 16)) % 256
                        /\ b2 = ((c2 % 16) * 16 + ((c3 % 64) \div 4)) % 256
                        /\ b3 = ((c3 % 4) * 64 + c4) % 256
    OBVIOUS
<1>3. /\ Codec!Triple(c)[1] = b1 /\ Codec!Triple(c)[2] = b2 /\ Codec!Triple(c)[3] = b3
    BY <1>1, <1>2 DEF Codec!Triple
<1>4. b1 \in 0..255 /\ b2 \in 0..255 /\ b3 \in 0..255
    BY <1>2
<1>5. b1 = c1 * 4 + (c2 \div 16)
    BY <1>2
<1>6. b2 = (c2 % 16) * 16 + (c3 \div 4)
    BY <1>2
<1>7. b3 = (c3 % 4) * 64 + c4
    BY <1>2
<1>8. b1 \div 4 = c1 /\ b3 % 64 = c4
    BY <1>5, <1>7
<1>9. (b1 % 4) * 16 + (b2 \div 16) = c2
    <2>1. b1 % 4 = c2 \div 16
        BY <1>5
    <2>2. b2 \div 16 = c2 % 16
        BY <1>6
    <2>3. QED
        BY <2>1, <2>2
<1>10. (b2 % 16) * 4 + (b3 \div 64) = c3
    <2>1. b2 % 16 = c3 \div 4
        BY <1>6
    <2>2. b3 \div 64 = c3 % 4
        BY <1>7
    <2>3. QED
        BY <2>1, <2>2
<1>11. /\ Codec!Quad(Codec!Triple(c))[1] = c[1] /\ Codec!Quad(Codec!Triple(c))[2] = c[2]
       /\ Codec!Quad(Codec!Triple(c))[3] = c[3] /\ Codec!Quad(Codec!Triple(c))[4] = c[4]
    BY <1>1, <1>3, <1>8, <1>9, <1>10 DEF Codec!Quad
<1>12. QED
    BY <1>3, <1>4, <1>11 DEF Byte

\* What the decoders give of the characters they take, byte by byte.
Read(out, in, g) ==
    \A h \in 0..2 : 3 * g + h + 1 <= Len(out) => out[3 * g + h + 1] = Codec!Triple(Four(in, g))[h + 1]

\* The first n elements.
LEMMA Front ==
    ASSUME NEW S, NEW t, NEW n \in Nat, \A i \in 1..n : t[i] \in S
    PROVE  /\ SubSeq(t, 1, n) \in Seq(S) /\ Len(SubSeq(t, 1, n)) = n
           /\ \A i \in 1..n : SubSeq(t, 1, n)[i] = t[i]
BY SubSeqProperties

\* Both decoders give those bytes, and as many as the characters carry whole,
\* whatever junk is.
LEMMA DecodersRead ==
    ASSUME NEW in, NEW src \in Seq(Letter), src = Codec!Taken(in), NEW junk,
           NEW out \in {Codec!Decode(in, junk), Codec!base64_decode(in, junk)}
    PROVE  /\ Len(out) = (6 * Len(src)) \div 8
           /\ \A g \in 0..(Len(src) \div 4) : Read(out, src, g)
<1> DEFINE G == Codec!Groups(src, 4, 3, Codec!Triple)
           r == Codec!Rest(src, 4)
           t == Codec!Triple(Codec!Filled(r, 4, junk))
           T == IF r = <<>> THEN <<>> ELSE SubSeq(t, 1, Len(r) - 1)
<1>1. out = G \o T
    BY DEF Codec!Decode, Codec!base64_decode
<1>2. PICK q \in Nat : q = Len(src) \div 4 /\ Len(src) = 4 * q + (Len(src) % 4)
    OBVIOUS
<1>3. /\ G = [i \in 1..(3 * q) |-> G[i]]
      /\ \A g \in 0..(q - 1) :
            LET c == <<src[4 * g + 1], src[4 * g + 2], src[4 * g + 3], src[4 * g + 4]>> IN
            /\ G[3 * g + 1] = Codec!Triple(c)[1]
            /\ G[3 * g + 2] = Codec!Triple(c)[2]
            /\ G[3 * g + 3] = Codec!Triple(c)[3]
    BY <1>2, TripleGroups, Zenon
<1>4. /\ r \in Seq(Letter) /\ Len(r) = Len(src) % 4 /\ Len(r) \in {0, 1, 2, 3}
      /\ \A k \in 1..Len(r) : r[k] = src[4 * q + k]
    <2>1. /\ r \in Seq(Letter) /\ Len(r) = Len(src) % 4
          /\ \A k \in 1..(Len(src) % 4) : r[k] = src[4 * (Len(src) \div 4) + k]
        BY RestOf, Zenon
    <2> HIDE DEF r
    <2>2. Len(src) % 4 \in {0, 1, 2, 3}
        OBVIOUS
    <2>3. QED
        BY <1>2, <2>1, <2>2
<1> HIDE DEF G, r, t
<1>5. PICK S : /\ G \in Seq(S) /\ T \in Seq(S) /\ Len(G) = 3 * q
               /\ Len(T) = IF Len(r) = 0 THEN 0 ELSE Len(r) - 1
               /\ \A k \in 1..Len(T) : T[k] = t[k]
    <2> DEFINE S == {t[i] : i \in 1..3} \cup {G[i] : i \in 1..(3 * q)}
    <2>1. G \in [1..(3 * q) -> S]
        BY <1>3
    <2>2. G \in Seq(S) /\ Len(G) = 3 * q
        <3> HIDE DEF S
        <3> QED
            BY <2>1, FunctionSeq, 3 * q \in Nat
    <2>3. CASE Len(r) = 0
        <3> HIDE DEF S
        <3>1. T = <<>>
            BY <1>4, <2>3
        <3>2. QED
            BY <2>2, <2>3, <3>1
    <2>4. CASE Len(r) # 0
        <3>1. \A k \in 1..(Len(r) - 1) : t[k] \in S
            BY <1>4
        <3>2. T = SubSeq(t, 1, Len(r) - 1)
            BY <2>4, <1>4
        <3>3. PICK n \in Nat : n = Len(r) - 1
            <4>1. Len(r) \in {1, 2, 3}
                BY <1>4, <2>4, Zenon
            <4>2. \A x \in {1, 2, 3} : x - 1 \in Nat
                OBVIOUS
            <4>3. Len(r) - 1 \in Nat
                BY <4>1, <4>2, Zenon
            <4>4. QED
                BY <4>3, Zenon
        <3> HIDE DEF S, T
        <3>4. /\ T \in Seq(S) /\ Len(T) = n /\ \A k \in 1..n : T[k] = t[k]
            <4>1. T = SubSeq(t, 1, n) /\ \A k \in 1..n : t[k] \in S
                BY <3>1, <3>2, <3>3
            <4>2. /\ SubSeq(t, 1, n) \in Seq(S) /\ Len(SubSeq(t, 1, n)) = n
                  /\ \A i \in 1..n : SubSeq(t, 1, n)[i] = t[i]
                BY <4>1, Front
            <4>3. QED
                BY <4>1, <4>2, Zenon
        <3>5. QED
            BY <2>2, <2>4, <3>3, <3>4
    <2>5. QED
        BY <2>3, <2>4
<1> HIDE DEF T
<1>6. /\ Len(out) = 3 * q + Len(T)
      /\ \A i \in 1..(3 * q) : out[i] = G[i]
      /\ \A i \in 1..Len(T) : out[3 * q + i] = T[i]
    <2>1. G \in Seq(S) /\ T \in Seq(S)
        BY <1>5
    <2>2. Len(G \o T) = Len(G) + Len(T)
        BY <2>1
    <2>3. ASSUME NEW i \in 1..Len(G) PROVE (G \o T)[i] = G[i]
        BY <2>1
    <2>4. ASSUME NEW i \in 1..Len(T) PROVE (G \o T)[Len(G) + i] = T[i]
        BY <2>1
    <2>5. Len(G) = 3 * q
        BY <1>5
    <2>6. QED
        BY <1>1, <2>2, <2>3, <2>4, <2>5
<1>7. Len(out) = (6 * Len(src)) \div 8
    <2>1. Len(src) = 4 * q + Len(r)
        BY <1>2, <1>4
    <2>2. Len(out) = 3 * q + IF Len(r) = 0 THEN 0 ELSE Len(r) - 1
        BY <1>5, <1>6
    <2>3. CASE Len(r) = 0
        BY <2>1, <2>2, <2>3
    <2>4. CASE Len(r) = 1
        BY <2>1, <2>2, <2>4
    <2>5. CASE Len(r) = 2
        BY <2>1, <2>2, <2>5
    <2>6. CASE Len(r) = 3
        BY <2>1, <2>2, <2>6
    <2>7. QED
        BY <1>4, <2>3, <2>4, <2>5, <2>6
<1>8. ASSUME NEW g \in 0..(q - 1) PROVE Read(out, src, g)
    <2>1. /\ out[3 * g + 1] = G[3 * g + 1] /\ out[3 * g + 2] = G[3 * g + 2]
          /\ out[3 * g + 3] = G[3 * g + 3]
        BY <1>6
    <2>2. 4 * g + 4 <= Len(src)
        BY <1>2
    <2>3. /\ At(src, 4 * g + 1) = src[4 * g + 1] /\ At(src, 4 * g + 2) = src[4 * g + 2]
          /\ At(src, 4 * g + 3) = src[4 * g + 3] /\ At(src, 4 * g + 4) = src[4 * g + 4]
        BY <2>2 DEF At
    <2>4. Four(src, g) = <<src[4 * g + 1], src[4 * g + 2], src[4 * g + 3], src[4 * g + 4]>>
        BY <2>3 DEF Four
    <2>5. \A h \in 0..2 : out[3 * g + h + 1] = Codec!Triple(Four(src, g))[h + 1]
        <3>1. /\ G[3 * g + 1] = Codec!Triple(Four(src, g))[1]
              /\ G[3 * g + 2] = Codec!Triple(Four(src, g))[2]
              /\ G[3 * g + 3] = Codec!Triple(Four(src, g))[3]
            BY <1>3, <2>4, Zenon
        <3>2. QED
            BY <2>1, <3>1
    <2>6. QED
        BY <2>5 DEF Read
<1>9. Read(out, src, q)
    <2>1. ASSUME NEW h \in 0..2, 3 * q + h + 1 <= Len(out)
          PROVE  out[3 * q + h + 1] = Codec!Triple(Four(src, q))[h + 1]
        <3>0. PICK z \in 0..3 : z = Len(r) /\ Len(src) = 4 * q + z /\ Len(T) = IF z = 0 THEN 0 ELSE z - 1
            <4>1. Len(r) \in 0..3 /\ Len(src) = 4 * q + Len(r)
                BY <1>2, <1>4
            <4>2. Len(T) = IF Len(r) = 0 THEN 0 ELSE Len(r) - 1
                BY <1>5
            <4>3. QED
                BY <4>1, <4>2
        <3>1. h + 1 \in 1..Len(T) /\ h + 2 <= z /\ h \in {0, 1}
            <4>1. Len(out) = 3 * q + Len(T) /\ Len(T) \in Nat
                BY <1>6, <3>0
            <4>2. h + 1 <= Len(T)
                BY <2>1, <4>1
            <4>3. z # 0
                BY <3>0, <4>2
            <4>4. Len(T) = z - 1
                BY <3>0, <4>3
            <4>5. QED
                BY <4>2, <4>4
        <3>2. out[3 * q + h + 1] = t[h + 1]
            <4>1. out[3 * q + (h + 1)] = T[h + 1] /\ T[h + 1] = t[h + 1]
                BY <1>5, <1>6, <3>1
            <4>2. QED
                BY <4>1
        <3>3. /\ Codec!Filled(r, 4, junk)[h + 1] = At(src, 4 * q + h + 1)
              /\ Codec!Filled(r, 4, junk)[h + 2] = At(src, 4 * q + h + 2)
            <4>1. Codec!Filled(r, 4, junk)[h + 1] = r[h + 1] /\ Codec!Filled(r, 4, junk)[h + 2] = r[h + 2]
                BY <3>0, <3>1 DEF Codec!Filled
            <4>2. r[h + 1] = src[4 * q + (h + 1)] /\ r[h + 2] = src[4 * q + (h + 2)]
                BY <1>4, <3>0, <3>1
            <4>3. /\ At(src, 4 * q + h + 1) = src[4 * q + (h + 1)]
                  /\ At(src, 4 * q + h + 2) = src[4 * q + (h + 2)]
                BY <3>0, <3>1 DEF At
            <4>4. QED
                BY <4>1, <4>2, <4>3
        <3>4. CASE h = 0
            BY <3>2, <3>3, <3>4 DEF t, Four, Codec!Triple
        <3>5. CASE h = 1
            BY <3>2, <3>3, <3>5 DEF t, Four, Codec!Triple
        <3>6. QED
            BY <3>1, <3>4, <3>5
    <2>2. QED
        BY <2>1 DEF Read
<1>10. QED
    BY <1>2, <1>7, <1>8, <1>9

\* What the decoders give are the bits of the characters they take.
LEMMA DecodersCarry ==
    ASSUME NEW in \in Seq(Char), NEW junk,
           NEW out \in {Codec!Decode(in, junk), Codec!base64_decode(in, junk)}
    PROVE  Codec!Reads(out, in)
<1>1. PICK src \in Seq(Letter) :
        /\ src = Codec!Taken(in) /\ Len(src) \in 0..Len(in)
        /\ \A k \in 1..Len(src) : src[k] = in[k]
        /\ Codec!Max({k \in 0..Len(in) : \A i \in 1..k : in[i] < Codec!Pad}) = Len(src)
    BY TakenIs, Zenon
<1>2. PICK m \in Nat : m = Len(src)
    OBVIOUS
<1>3. Len(out) = (6 * m) \div 8 /\ \A g \in 0..(m \div 4) : Read(out, src, g)
    BY <1>1, <1>2, DecodersRead
<1>4. ASSUME NEW i \in 0..(8 * Len(out) - 1)
      PROVE  Codec!BitAt(out, 8, i) = Codec!BitAt(in, 6, i)
    <2>1. PICK g \in Nat, h \in 0..2, e \in 0..7 : i = 24 * g + 8 * h + e
        <3>1. /\ i \div 24 \in Nat /\ (i % 24) \div 8 \in 0..2 /\ i % 8 \in 0..7
              /\ i = 24 * (i \div 24) + 8 * ((i % 24) \div 8) + (i % 8)
            OBVIOUS
        <3>2. QED
            BY <3>1
    <2>2. PICK j \in 0..3, d \in 0..5 : 6 * j + d = 8 * h + e
        <3>1. /\ (8 * h + e) \div 6 \in 0..3 /\ (8 * h + e) % 6 \in 0..5
              /\ 6 * ((8 * h + e) \div 6) + ((8 * h + e) % 6) = 8 * h + e
            OBVIOUS
        <3>2. QED
            BY <3>1
    <2>3. i < 6 * m /\ i < 8 * Len(out)
        BY <1>3
    <2>4. 4 * g + j + 1 \in 1..m /\ g \in 0..(m \div 4) /\ 3 * g + h + 1 <= Len(out)
        BY <1>3, <2>1, <2>2, <2>3
    <2>5. out[3 * g + h + 1] = Codec!Triple(Four(src, g))[h + 1]
        BY <1>3, <2>4 DEF Read
    <2>6. /\ Four(src, g)[1] \in Letter /\ Four(src, g)[2] \in Letter
          /\ Four(src, g)[3] \in Letter /\ Four(src, g)[4] \in Letter
        <3>1. 0 \in Letter
            BY DEF Letter
        <3>2. \A k \in Nat : At(src, k) \in Letter
            BY <3>1 DEF At
        <3>3. QED
            BY <3>2 DEF Four
    <2>7. Four(src, g)[j + 1] = in[4 * g + j + 1]
        <3>1. At(src, 4 * g + j + 1) = in[4 * g + j + 1]
            BY <1>1, <1>2, <2>4 DEF At
        <3>2. Four(src, g)[j + 1] = At(src, 4 * g + j + 1)
            <4>1. /\ Four(src, g)[1] = At(src, 4 * g + 1) /\ Four(src, g)[2] = At(src, 4 * g + 2)
                  /\ Four(src, g)[3] = At(src, 4 * g + 3) /\ Four(src, g)[4] = At(src, 4 * g + 4)
                BY DEF Four
            <4>2. CASE j = 0
                BY <4>1, <4>2
            <4>3. CASE j = 1
                BY <4>1, <4>3
            <4>4. CASE j = 2
                BY <4>1, <4>4
            <4>5. CASE j = 3
                BY <4>1, <4>5
            <4>6. QED
                BY <4>2, <4>3, <4>4, <4>5
        <3>3. QED
            BY <3>1, <3>2
    <2>8. /\ Codec!Triple(Four(src, g))[1] \in Byte /\ Codec!Triple(Four(src, g))[2] \in Byte
          /\ Codec!Triple(Four(src, g))[3] \in Byte
          /\ Codec!Quad(Codec!Triple(Four(src, g)))[j + 1] = Four(src, g)[j + 1]
        BY <2>6, QuadOfTriple, Zenon
    <2>9. Codec!Bit(Codec!Quad(Codec!Triple(Four(src, g)))[j + 1], 6, d + 1)
            = Codec!Bit(Codec!Triple(Four(src, g))[h + 1], 8, e + 1)
        BY <2>2, <2>8, SameBits, Zenon
    <2>10. Codec!BitAt(out, 8, 24 * g + 8 * h + e) = Codec!Bit(out[3 * g + h + 1], 8, e + 1)
        BY BitPlaces, ZenonT(60)
    <2>11. Codec!BitAt(in, 6, 24 * g + 6 * j + d) = Codec!Bit(in[4 * g + j + 1], 6, d + 1)
        BY BitPlaces, ZenonT(60)
    <2>12. i = 24 * g + 8 * h + e /\ i = 24 * g + 6 * j + d
        BY <2>1, <2>2
    <2>13. QED
        BY <2>5, <2>7, <2>8, <2>9, <2>10, <2>11, <2>12, Zenon
<1>5. QED
    BY <1>1, <1>2, <1>3, <1>4, Zenon DEF Codec!Reads

\* A text of whole groups has room for what Decode makes of it, which is then what
\* Base64Decode gives.
LEMMA DecodedFits ==
    ASSUME NEW in \in Seq(Char), NEW junk, Len(in) % 4 = 0
    PROVE  /\ Len(Codec!Decode(in, junk)) <= Codec!DecodedSize(Len(in))
           /\ Codec!Reads(Codec!Base64Decode(in, junk), in)
<1> DEFINE out == Codec!Decode(in, junk)
           dst == Codec!Base64Decode(in, junk)
           set == {k \in 0..Len(in) : \A i \in 1..k : in[i] < Codec!Pad}
<1>1. Codec!Reads(out, in)
    BY DecodersCarry
<1>2. PICK m \in 0..Len(in) : Codec!Max(set) = m
    <2>1. PICK src \in Seq(Letter) : Len(src) \in 0..Len(in) /\ Codec!Max(set) = Len(src)
        BY TakenIs, Zenon
    <2>2. QED
        BY <2>1
<1> HIDE DEF set
<1>3. /\ Len(out) = (6 * m) \div 8
      /\ \A i \in 0..(8 * Len(out) - 1) : Codec!BitAt(out, 8, i) = Codec!BitAt(in, 6, i)
    BY <1>1, <1>2, Zenon DEF Codec!Reads, set
<1> HIDE DEF out
<1>4. Len(in) \in Nat /\ m \in Nat /\ m <= Len(in) /\ Len(out) \in Nat
    BY <1>2, <1>3
<1>5. Len(out) <= Codec!DecodedSize(Len(in))
    BY <1>3, <1>4 DEF Codec!DecodedSize
<1>6. dst = [k \in 1..Len(out) |-> IF k <= Codec!DecodedSize(Len(in)) THEN out[k] ELSE 0]
    BY DEF Codec!Base64Decode, out
<1> HIDE DEF dst
<1>7. \A k \in 1..Len(out) : k <= Codec!DecodedSize(Len(in))
    BY <1>4, <1>5 DEF Codec!DecodedSize
<1>8. Len(dst) = Len(out) /\ \A k \in 1..Len(out) : dst[k] = out[k]
    BY <1>4, <1>6, <1>7
<1>9. ASSUME NEW i \in 0..(8 * Len(dst) - 1)
      PROVE  Codec!BitAt(dst, 8, i) = Codec!BitAt(in, 6, i)
    <2>1. i \in 0..(8 * Len(out) - 1) /\ (i \div 8) + 1 \in 1..Len(out)
        BY <1>4, <1>8, <1>9
    <2>2. dst[(i \div 8) + 1] = out[(i \div 8) + 1]
        BY <1>8, <2>1
    <2>3. Codec!BitAt(dst, 8, i) = Codec!BitAt(out, 8, i)
        BY <2>2, Zenon DEF Codec!BitAt
    <2>4. QED
        BY <1>3, <2>1, <2>3
<1>10. Codec!Reads(dst, in)
    BY <1>2, <1>3, <1>8, <1>9, Zenon DEF Codec!Reads, set
<1>11. QED
    BY <1>5, <1>10 DEF out, dst

\* Inputs of the codecs are sequences of bytes and of characters.
CodecInv == data \in Seq(Byte) /\ text \in Seq(Char)

\* The machine keeps its inputs to them.
LEMMA CodecInvariant == Spec => []CodecInv
<1>1. Init => CodecInv
    BY DEF Init, Codec!Init, CodecInv
<1>2. CodecInv /\ [Next]_vars => CodecInv'
    <2> SUFFICES ASSUME CodecInv, [Codec!Next]_Codec!vars
                 PROVE  CodecInv'
        BY PartSteps
    <2>1. Bytes \subseteq Byte /\ Letters \cup {Codec!Pad, Codec!Other} \subseteq Char
        BY CodecAssumption DEF Byte, Char, Codec!Pad, Codec!Other
    <2>2. CASE Codec!AddByte
        BY <2>1, <2>2 DEF Codec!AddByte, CodecInv
    <2>3. CASE Codec!AddChar
        BY <2>1, <2>3 DEF Codec!AddChar, CodecInv
    <2>4. CASE UNCHANGED Codec!vars
        BY <2>4 DEF Codec!vars, CodecInv
    <2>5. QED
        BY <2>2, <2>3, <2>4 DEF Codec!Next
<1>3. QED
    BY <1>1, <1>2, PTL DEF Spec

\* For byte strings of any length: base64_encode of the detector and Encode of webcc
\* write the bits of the bytes in order, zeroes after the last one, '=' up to a
\* multiple of four characters and EncodedSize characters in all.
THEOREM EncodeSafe == Spec => []EncodesBits
<1>1. CodecInv => EncodesBits
    BY EncodersCarry DEF CodecInv, EncodesBits, Codec!EncodesBits
<1>2. QED
    BY <1>1, CodecInvariant, PTL

\* For texts of any length, padded, cut or with strangers in them, base64_decode, and
\* for those whose length is a multiple of four Base64Decode, give the bytes that the
\* characters in front of the first '=' or stranger carry whole, whatever the elements
\* of their arrays hold that were not assigned; and then Decode stays within the bytes
\* that Base64Decode reserved.
THEOREM DecodeSafe == Spec => []DecodesBits
<1>1. CodecInv => DecodesBits
    <2> SUFFICES ASSUME text \in Seq(Char), NEW junk \in Junk
                 PROVE  /\ Codec!Reads(Codec!base64_decode(text, junk), text)
                        /\ Len(text) % 4 = 0 =>
                               /\ Len(Codec!Decode(text, junk)) <= Codec!DecodedSize(Len(text))
                               /\ Codec!Reads(Codec!Base64Decode(text, junk), text)
        BY DEF CodecInv, DecodesBits, Codec!DecodesBits
    <2>1. Codec!Reads(Codec!base64_decode(text, junk), text)
        BY DecodersCarry
    <2>2. QED
        BY <2>1, DecodedFits
<1>2. QED
    BY <1>1, CodecInvariant, PTL

-----------------------------------------------------------------------------
\* Induction over a set of natural numbers.
LEMMA EveryNatural ==
    ASSUME NEW T, 0 \in T, \A n \in Nat : n \in T => n + 1 \in T
    PROVE  Nat \subseteq T
<1>1. SUFFICES ASSUME Nat \ T # {} PROVE FALSE
    OBVIOUS
<1>2. PICK m \in Nat \ T : \A n \in Nat \ T : m <= n
    BY <1>1, LeastNatural
<1>3. m # 0 /\ m - 1 \in Nat
    OBVIOUS
<1>4. m - 1 \in T
    BY <1>2, <1>3
<1>5. (m - 1) + 1 = m
    BY <1>3
<1>6. QED
    BY <1>3, <1>4, <1>5

\* A loop of N rounds that starts with base has a result after every round.
Steps(step, N, X) == step \in [1..N -> [X -> X]]
Runs(f, base, step, N, X) ==
    f \in [0..N -> X] /\ f[0] = base /\ \A i \in 1..N : f[i] = step[i][f[i - 1]]

LEMMA Iterated ==
    ASSUME NEW N \in Nat, NEW X, NEW base \in X, NEW step, Steps(step, N, X)
    PROVE  \E f : Runs(f, base, step, N, X)
<1> DEFINE Rounds(n) == {f \in [0..n -> X] : /\ f[0] = base
                                             /\ \A i \in 1..n : f[i] = step[i][f[i - 1]]}
           T == {n \in Nat : n <= N => Rounds(n) # {}}
<1>1. 0 \in T
    <2>1. [n \in 0..0 |-> base] \in Rounds(0)
        OBVIOUS
    <2>2. QED
        BY <2>1
<1>2. ASSUME NEW n \in Nat, n \in T PROVE n + 1 \in T
    <2>1. CASE n + 1 <= N
        <3>1. PICK f \in Rounds(n) : TRUE
            BY <1>2, <2>1
        <3> DEFINE g == [i \in 0..n + 1 |-> IF i <= n THEN f[i] ELSE step[n + 1][f[n]]]
        <3>2. step[n + 1][f[n]] \in X
            <4>1. f[n] \in X /\ n + 1 \in 1..N
                BY <2>1, <3>1
            <4>2. QED
                BY <4>1 DEF Steps
        <3>3. g \in [0..n + 1 -> X]
            BY <3>1, <3>2
        <3>4. g[0] = base
            BY <3>1
        <3>5. ASSUME NEW i \in 1..n + 1 PROVE g[i] = step[i][g[i - 1]]
            <4>1. CASE i <= n
                BY <3>1, <4>1
            <4>2. CASE ~(i <= n)
                <5>1. i = n + 1 /\ i - 1 = n
                    BY <4>2
                <5>2. g[i] = step[n + 1][f[n]] /\ g[i - 1] = f[n]
                    BY <4>2, <5>1
                <5>3. QED
                    BY <5>1, <5>2
            <4>3. QED
                BY <4>1, <4>2
        <3>6. g \in Rounds(n + 1)
            BY <3>3, <3>4, <3>5
        <3> HIDE DEF g
        <3>7. Rounds(n + 1) # {}
            BY <3>6
        <3> HIDE DEF Rounds
        <3>8. QED
            BY <3>7
    <2>2. QED
        BY <2>1
<1>3. N \in T
    <2> HIDE DEF T
    <2> QED
        BY <1>1, <1>2, EveryNatural
<1>4. QED
    BY <1>3 DEF Runs

-----------------------------------------------------------------------------
\* The headers of the session and of messages, and what they may hold.
FieldNames == HeaderNames \cup {"Accept", "Connection", "Content-Length", "Content-Type", "Host"}
FieldValues == HeaderValues \cup {"*/*", "Keep-Alive", "Close", "json", "host"}
                            \cup {Assembly!Std!ToString(n) : n \in Nat}
Field == [name : FieldNames, spelling : Assembly!Spellings, value : FieldValues]
Named(hs) == {hs[i].name : i \in 1..Len(hs)}

\* Headers of which no two have the same name.
Tables == {hs \in Seq(Field) :
               \A i, j \in 1..Len(hs) : i # j => hs[i].name # hs[j].name}

\* Find gives the place of the header, 0 when there is none.
LEMMA FindIs ==
    ASSUME NEW hs \in Seq(Field), NEW h
    PROVE  \/ Assembly!FindHeader(hs, h) = 0 /\ h.name \notin Named(hs)
           \/ /\ Assembly!FindHeader(hs, h) \in 1..Len(hs)
              /\ hs[Assembly!FindHeader(hs, h)].name = h.name
              /\ h.name \in Named(hs)
<1> DEFINE at == {i \in 1..Len(hs) : hs[i].name = h.name}
<1>1. CASE at = {}
    <2>1. Assembly!FindHeader(hs, h) = 0
        BY <1>1 DEF Assembly!FindHeader
    <2>2. QED
        BY <1>1, <2>1 DEF Named
<1>2. CASE at # {}
    <2>1. at \in SUBSET Nat
        OBVIOUS
    <2>2. \E m \in at : \A n \in at : m <= n
        <3> HIDE DEF at
        <3> QED
            BY <1>2, <2>1, LeastNatural
    <2>3. PICK m \in at : Assembly!FindHeader(hs, h) = m
        BY <1>2, <2>2 DEF Assembly!FindHeader, Assembly!S!Min
    <2>4. QED
        BY <2>3 DEF Named
<1>3. QED
    BY <1>1, <1>2

\* In a table a name has one value, "none" without it.
LEMMA ValueIs ==
    ASSUME NEW hs \in Tables, NEW n
    PROVE  /\ \A i \in 1..Len(hs) : hs[i].name = n => Assembly!Value(hs, n) = hs[i].value
           /\ n \notin Named(hs) => Assembly!Value(hs, n) = "none"
<1> DEFINE h == Assembly!Standard(n, "")
<1>1. h.name = n
    BY DEF Assembly!Standard, Assembly!Header
<1>2. hs \in Seq(Field)
    BY DEF Tables
<1>3. Assembly!Value(hs, n) = IF Assembly!FindHeader(hs, h) = 0 THEN "none"
                              ELSE hs[Assembly!FindHeader(hs, h)].value
    BY DEF Assembly!Value
<1> HIDE DEF h
<1>4. ASSUME NEW i \in 1..Len(hs), hs[i].name = n PROVE Assembly!Value(hs, n) = hs[i].value
    <2>1. n \in Named(hs)
        BY <1>4 DEF Named
    <2>2. PICK k \in 1..Len(hs) : k = Assembly!FindHeader(hs, h) /\ hs[k].name = n
        BY <1>1, <1>2, <2>1, FindIs, Zenon
    <2>3. k = i
        BY <1>4, <2>2 DEF Tables
    <2>4. k # 0
        OBVIOUS
    <2>5. QED
        BY <1>3, <2>2, <2>3, <2>4
<1>5. ASSUME n \notin Named(hs) PROVE Assembly!Value(hs, n) = "none"
    BY <1>1, <1>2, <1>3, <1>5, FindIs, Zenon
<1>6. QED
    BY <1>4, <1>5

\* A table with one more name.
LEMMA AppendIs ==
    ASSUME NEW hs \in Tables, NEW h \in Field, h.name \notin Named(hs)
    PROVE  /\ Append(hs, h) \in Tables
           /\ Named(Append(hs, h)) = Named(hs) \cup {h.name}
           /\ Assembly!Value(Append(hs, h), h.name) = h.value
           /\ \A n : n # h.name => Assembly!Value(Append(hs, h), n) = Assembly!Value(hs, n)
<1> DEFINE new == Append(hs, h)
<1>1. hs \in Seq(Field) /\ Len(hs) \in Nat
    BY DEF Tables
<1>2. /\ new \in Seq(Field) /\ Len(new) = Len(hs) + 1 /\ new[Len(hs) + 1] = h
      /\ \A i \in 1..Len(hs) : new[i] = hs[i]
    BY <1>1
<1> HIDE DEF new
<1>3. \A i \in 1..Len(hs) : hs[i].name # h.name
    BY DEF Named
<1>4. new \in Tables
    <2>1. ASSUME NEW i \in 1..Len(new), NEW j \in 1..Len(new), i # j
          PROVE  new[i].name # new[j].name
        <3>1. CASE i \in 1..Len(hs) /\ j \in 1..Len(hs)
            BY <1>2, <2>1, <3>1 DEF Tables
        <3>2. CASE i = Len(hs) + 1 /\ j \in 1..Len(hs)
            BY <1>2, <1>3, <3>2
        <3>3. CASE j = Len(hs) + 1 /\ i \in 1..Len(hs)
            BY <1>2, <1>3, <3>3
        <3>4. QED
            BY <1>1, <1>2, <2>1, <3>1, <3>2, <3>3
    <2>2. QED
        BY <1>2, <2>1 DEF Tables
<1>5. Named(new) = Named(hs) \cup {h.name}
    BY <1>1, <1>2 DEF Named
<1>6. Len(hs) + 1 \in 1..Len(new)
    BY <1>1, <1>2
<1>7. Assembly!Value(new, h.name) = h.value
    BY <1>2, <1>4, <1>6, ValueIs, Zenon
<1>8. ASSUME NEW n, n # h.name PROVE Assembly!Value(new, n) = Assembly!Value(hs, n)
    <2>1. CASE n \in Named(hs)
        <3>1. PICK i \in 1..Len(hs) : hs[i].name = n
            BY <2>1 DEF Named
        <3>2. i \in 1..Len(new)
            BY <1>1, <1>2
        <3>3. Assembly!Value(hs, n) = hs[i].value
            BY <3>1, ValueIs, Zenon
        <3>4. new[i] = hs[i]
            BY <1>2
        <3>5. Assembly!Value(new, n) = new[i].value
            BY <1>4, <3>1, <3>2, <3>4, ValueIs, Zenon
        <3>6. QED
            BY <3>3, <3>4, <3>5
    <2>2. CASE n \notin Named(hs)
        <3>1. n \notin Named(new)
            BY <1>5, <1>8, <2>2
        <3>2. QED
            BY <1>4, <2>2, <3>1, ValueIs, Zenon
    <2>3. QED
        BY <2>1, <2>2
<1>9. QED
    BY <1>4, <1>5, <1>7, <1>8 DEF new

\* Headers::Set: the name has the value and the other names are left alone; a
\* value that is already there changes nothing.
LEMMA SetIs ==
    ASSUME NEW hs \in Tables, NEW h \in Field
    PROVE  /\ Assembly!Set(hs, h) \in Tables
           /\ Named(Assembly!Set(hs, h)) = Named(hs) \cup {h.name}
           /\ Assembly!Value(Assembly!Set(hs, h), h.name) = h.value
           /\ \A n : n # h.name =>
                  Assembly!Value(Assembly!Set(hs, h), n) = Assembly!Value(hs, n)
           /\ (h.name \in Named(hs) /\ Assembly!Value(hs, h.name) = h.value)
                  => Assembly!Set(hs, h) = hs
<1> DEFINE k == Assembly!FindHeader(hs, h)
           new == [hs EXCEPT ![k].value = h.value]
<1>0. hs \in Seq(Field) /\ Len(hs) \in Nat
    BY DEF Tables
<1>1. CASE k = 0
    <2>1. Assembly!Set(hs, h) = Append(hs, h)
        BY <1>1 DEF Assembly!Set
    <2>2. h.name \notin Named(hs)
        BY <1>0, <1>1, FindIs
    <2>3. /\ Append(hs, h) \in Tables
          /\ Named(Append(hs, h)) = Named(hs) \cup {h.name}
          /\ Assembly!Value(Append(hs, h), h.name) = h.value
          /\ \A n : n # h.name => Assembly!Value(Append(hs, h), n) = Assembly!Value(hs, n)
        BY <2>2, AppendIs
    <2>4. QED
        BY <2>1, <2>2, <2>3, Zenon
<1>2. CASE k # 0
    <2>1. Assembly!Set(hs, h) = new
        BY <1>2 DEF Assembly!Set
    <2>2. k \in 1..Len(hs) /\ hs[k].name = h.name /\ h.name \in Named(hs)
        BY <1>0, <1>2, FindIs
    <2> HIDE DEF k
    <2>3. /\ new \in Seq(Field) /\ Len(new) = Len(hs)
          /\ new[k] = [hs[k] EXCEPT !.value = h.value]
          /\ \A i \in 1..Len(hs) : i # k => new[i] = hs[i]
        <3>1. [hs[k] EXCEPT !.value = h.value] \in Field
            <4>1. hs[k] \in Field
                BY <1>0, <2>2
            <4>2. QED
                BY <4>1 DEF Field
        <3>2. QED
            BY <1>0, <2>2, <3>1
    <2>4. new[k].name = h.name /\ new[k].value = h.value
        <3>1. hs[k] \in Field
            BY <1>0, <2>2
        <3>2. QED
            BY <2>2, <2>3, <3>1 DEF Field
    <2>5. (hs[k].value = h.value) => new = hs
        <3>1. hs[k] \in Field
            BY <1>0, <2>2
        <3>2. hs[k].value = h.value => [hs[k] EXCEPT !.value = h.value] = hs[k]
            BY <3>1 DEF Field
        <3>3. DOMAIN new = DOMAIN hs /\ hs = [i \in DOMAIN hs |-> hs[i]] /\ new = [i \in DOMAIN hs |-> new[i]]
            BY <1>0
        <3>4. DOMAIN hs = 1..Len(hs)
            BY <1>0
        <3>5. QED
            BY <2>3, <3>2, <3>3, <3>4
    <2> HIDE DEF new
    <2>6. \A i \in 1..Len(hs) : new[i].name = hs[i].name
        BY <2>2, <2>3, <2>4
    <2>7. new \in Tables
        BY <2>3, <2>6 DEF Tables
    <2>8. Named(new) = Named(hs) \cup {h.name}
        BY <2>2, <2>3, <2>6 DEF Named
    <2>9. Assembly!Value(new, h.name) = h.value
        <3>1. k \in 1..Len(new)
            BY <2>2, <2>3
        <3>2. QED
            BY <2>4, <2>7, <3>1, ValueIs, Zenon
    <2>10. ASSUME NEW n, n # h.name PROVE Assembly!Value(new, n) = Assembly!Value(hs, n)
        <3>1. CASE n \in Named(hs)
            <4>1. PICK i \in 1..Len(hs) : hs[i].name = n
                BY <3>1 DEF Named
            <4>2. i \in 1..Len(new) /\ new[i] = hs[i]
                BY <2>2, <2>3, <2>10, <4>1
            <4>3. Assembly!Value(hs, n) = hs[i].value
                BY <4>1, ValueIs, Zenon
            <4>4. Assembly!Value(new, n) = new[i].value
                BY <2>7, <4>1, <4>2, ValueIs, Zenon
            <4>5. QED
                BY <4>2, <4>3, <4>4
        <3>2. CASE n \notin Named(hs)
            <4>1. n \notin Named(new)
                BY <2>8, <2>10, <3>2
            <4>2. QED
                BY <2>7, <3>2, <4>1, ValueIs, Zenon
        <3>3. QED
            BY <3>1, <3>2
    <2>11. Assembly!Value(hs, h.name) = hs[k].value
        BY <2>2, ValueIs, Zenon
    <2>12. QED
        BY <2>1, <2>5, <2>7, <2>8, <2>9, <2>10, <2>11
<1>3. QED
    BY <1>1, <1>2

\* A default of the session: only a name that is missing is set.
LEMMA SetIfMissingIs ==
    ASSUME NEW hs \in Tables, NEW h \in Field
    PROVE  /\ Assembly!SetIfMissing(hs, h) \in Tables
           /\ Named(Assembly!SetIfMissing(hs, h)) = Named(hs) \cup {h.name}
           /\ \A n \in Named(hs) :
                  Assembly!Value(Assembly!SetIfMissing(hs, h), n) = Assembly!Value(hs, n)
           /\ h.name \in Named(hs) => Assembly!SetIfMissing(hs, h) = hs
<1>0. hs \in Seq(Field)
    BY DEF Tables
<1>1. CASE h.name \in Named(hs)
    <2>1. Assembly!SetIfMissing(hs, h) = hs
        BY <1>0, <1>1, FindIs DEF Assembly!SetIfMissing
    <2>2. QED
        BY <1>1, <2>1
<1>2. CASE h.name \notin Named(hs)
    <2>1. Assembly!SetIfMissing(hs, h) = Append(hs, h)
        BY <1>0, <1>2, FindIs DEF Assembly!SetIfMissing
    <2>2. /\ Append(hs, h) \in Tables
          /\ Named(Append(hs, h)) = Named(hs) \cup {h.name}
          /\ \A n : n # h.name => Assembly!Value(Append(hs, h), n) = Assembly!Value(hs, n)
        BY <1>2, AppendIs
    <2>3. QED
        BY <1>2, <2>1, <2>2, Zenon
<1>3. QED
    BY <1>1, <1>2

\* SetEach is the last of the tables that its loop goes through.
LEMMA SetEachIs ==
    ASSUME NEW hs \in Tables, NEW given \in Seq(Field)
    PROVE  \E after \in [0..Len(given) -> Tables] :
               /\ after[0] = hs
               /\ \A i \in 1..Len(given) : after[i] = Assembly!Set(after[i - 1], given[i])
               /\ Assembly!SetEach(hs, given) = after[Len(given)]
<1> DEFINE N == Len(given)
           step == [i \in 1..N |-> [t \in Tables |-> Assembly!Set(t, given[i])]]
           Loop(g) == [n \in 0..N |-> IF n = 0 THEN hs ELSE Assembly!Set(g[n - 1], given[n])]
           after == CHOOSE g : g = Loop(g)
<1>1. N \in Nat
    OBVIOUS
<1>2. step \in [1..N -> [Tables -> Tables]]
    <2>1. ASSUME NEW i \in 1..N, NEW t \in Tables PROVE Assembly!Set(t, given[i]) \in Tables
        <3>1. given[i] \in Field
            OBVIOUS
        <3>2. QED
            BY <3>1, SetIs
    <2>2. QED
        BY <2>1
<1>3. PICK f \in [0..N -> Tables] : f[0] = hs /\ \A i \in 1..N : f[i] = step[i][f[i - 1]]
    <2>1. Steps(step, N, Tables)
        BY <1>2 DEF Steps
    <2> HIDE DEF step, N
    <2>2. PICK f : Runs(f, hs, step, N, Tables)
        BY <1>1, <2>1, Iterated
    <2>3. QED
        BY <2>2 DEF Runs
<1>4. \A i \in 1..N : f[i] = Assembly!Set(f[i - 1], given[i])
    <2> SUFFICES ASSUME NEW i \in 1..N PROVE f[i] = Assembly!Set(f[i - 1], given[i])
        OBVIOUS
    <2>1. f[i - 1] \in Tables
        BY <1>3
    <2>2. QED
        BY <1>3, <2>1
<1>5. f = Loop(f)
    BY <1>1, <1>3, <1>4
<1>6. after = Loop(after)
    BY <1>5
<1>7. Assembly!SetEach(hs, given) = after[N]
    BY DEF Assembly!SetEach
<1> HIDE DEF after
<1> DEFINE Same == {n \in Nat : n <= N => after[n] = f[n]}
<1>8. 0 \in Same
    BY <1>1, <1>3, <1>6
<1>9. ASSUME NEW n \in Nat, n \in Same PROVE n + 1 \in Same
    <2>1. CASE n + 1 <= N
        <3>1. n + 1 \in 1..N /\ n + 1 \in 0..N /\ (n + 1) - 1 = n /\ n + 1 # 0
            BY <1>1, <2>1
        <3>2. after[n + 1] = Assembly!Set(after[n], given[n + 1])
            BY <1>6, <3>1
        <3>3. QED
            BY <1>4, <1>9, <3>1, <3>2
    <2>2. QED
        BY <2>1
<1>10. after[N] = f[N]
    <2>1. N \in Same
        <3> HIDE DEF Same
        <3> QED
            BY <1>1, <1>8, <1>9, EveryNatural
    <2>2. QED
        BY <2>1
<1>11. QED
    BY <1>3, <1>4, <1>7, <1>10

\* The same for the defaults of the session: SetMissing is the last of the tables that its loop goes through.
LEMMA SetMissingIs ==
    ASSUME NEW hs \in Tables, NEW defaults \in Seq(Field)
    PROVE  \E after \in [0..Len(defaults) -> Tables] :
               /\ after[0] = hs
               /\ \A i \in 1..Len(defaults) : after[i] = Assembly!SetIfMissing(after[i - 1], defaults[i])
               /\ Assembly!SetMissing(hs, defaults) = after[Len(defaults)]
<1> DEFINE N == Len(defaults)
           step == [i \in 1..N |-> [t \in Tables |-> Assembly!SetIfMissing(t, defaults[i])]]
           Loop(g) == [n \in 0..N |-> IF n = 0 THEN hs ELSE Assembly!SetIfMissing(g[n - 1], defaults[n])]
           after == CHOOSE g : g = Loop(g)
<1>1. N \in Nat
    OBVIOUS
<1>2. step \in [1..N -> [Tables -> Tables]]
    <2>1. ASSUME NEW i \in 1..N, NEW t \in Tables PROVE Assembly!SetIfMissing(t, defaults[i]) \in Tables
        <3>1. defaults[i] \in Field
            OBVIOUS
        <3>2. QED
            BY <3>1, SetIfMissingIs
    <2>2. QED
        BY <2>1
<1>3. PICK f \in [0..N -> Tables] : f[0] = hs /\ \A i \in 1..N : f[i] = step[i][f[i - 1]]
    <2>1. Steps(step, N, Tables)
        BY <1>2 DEF Steps
    <2> HIDE DEF step, N
    <2>2. PICK f : Runs(f, hs, step, N, Tables)
        BY <1>1, <2>1, Iterated
    <2>3. QED
        BY <2>2 DEF Runs
<1>4. \A i \in 1..N : f[i] = Assembly!SetIfMissing(f[i - 1], defaults[i])
    <2> SUFFICES ASSUME NEW i \in 1..N PROVE f[i] = Assembly!SetIfMissing(f[i - 1], defaults[i])
        OBVIOUS
    <2>1. f[i - 1] \in Tables
        BY <1>3
    <2>2. QED
        BY <1>3, <2>1
<1>5. f = Loop(f)
    BY <1>1, <1>3, <1>4
<1>6. after = Loop(after)
    BY <1>5
<1>7. Assembly!SetMissing(hs, defaults) = after[N]
    BY DEF Assembly!SetMissing
<1> HIDE DEF after
<1> DEFINE Same == {n \in Nat : n <= N => after[n] = f[n]}
<1>8. 0 \in Same
    BY <1>1, <1>3, <1>6
<1>9. ASSUME NEW n \in Nat, n \in Same PROVE n + 1 \in Same
    <2>1. CASE n + 1 <= N
        <3>1. n + 1 \in 1..N /\ n + 1 \in 0..N /\ (n + 1) - 1 = n /\ n + 1 # 0
            BY <1>1, <2>1
        <3>2. after[n + 1] = Assembly!SetIfMissing(after[n], defaults[n + 1])
            BY <1>6, <3>1
        <3>3. QED
            BY <1>4, <1>9, <3>1, <3>2
    <2>2. QED
        BY <2>1
<1>10. after[N] = f[N]
    <2>1. N \in Same
        <3> HIDE DEF Same
        <3> QED
            BY <1>1, <1>8, <1>9, EveryNatural
    <2>2. QED
        BY <2>1
<1>11. QED
    BY <1>3, <1>4, <1>7, <1>10

\* What the builder was given is what its loop sets: the last value of each name.
LEMMA GivenIs ==
    ASSUME NEW given \in Seq(Field)
    PROVE  LET own == Assembly!SetEach(<<>>, given) IN
           /\ own \in Tables /\ Named(own) = Named(given)
           /\ \A i \in 1..Len(given) :
                  (\A j \in (i + 1)..Len(given) : given[j].name # given[i].name)
                      => Assembly!Value(own, given[i].name) = given[i].value
<1> DEFINE N == Len(given)
           Last(i, n) == \A j \in (i + 1)..n : given[j].name # given[i].name
<1>1. <<>> \in Tables /\ Named(<<>>) = {}
    BY DEF Tables, Named
<1>2. PICK after \in [0..N -> Tables] :
          /\ after[0] = <<>>
          /\ \A i \in 1..N : after[i] = Assembly!Set(after[i - 1], given[i])
          /\ Assembly!SetEach(<<>>, given) = after[N]
    BY <1>1, SetEachIs
<1> DEFINE Names(n) == Named(after[n]) = {given[i].name : i \in 1..n}
           Values(n) == \A i \in 1..n :
                            Last(i, n) => Assembly!Value(after[n], given[i].name) = given[i].value
           T == {n \in Nat : n <= N => Names(n) /\ Values(n)}
<1>3. N \in Nat
    OBVIOUS
<1>4. 0 \in T
    BY <1>1, <1>2, <1>3
<1>5. ASSUME NEW n \in Nat, n \in T PROVE n + 1 \in T
    <2>1. SUFFICES ASSUME n + 1 <= N PROVE Names(n + 1) /\ Values(n + 1)
        OBVIOUS
    <2>2. /\ n + 1 \in 1..N /\ n \in 0..N /\ (n + 1) - 1 = n
          /\ Names(n) /\ Values(n)
        BY <1>3, <1>5, <2>1
    <2>3. given[n + 1] \in Field /\ after[n] \in Tables
        BY <1>2, <2>2
    <2>4. after[n + 1] = Assembly!Set(after[n], given[n + 1])
        BY <1>2, <2>2
    <2>5. /\ Named(after[n + 1]) = Named(after[n]) \cup {given[n + 1].name}
          /\ Assembly!Value(after[n + 1], given[n + 1].name) = given[n + 1].value
          /\ \A m : m # given[n + 1].name =>
                 Assembly!Value(after[n + 1], m) = Assembly!Value(after[n], m)
        BY <2>3, <2>4, SetIs
    <2>6. Names(n + 1)
        BY <2>2, <2>5
    <2>7. ASSUME NEW i \in 1..n + 1, Last(i, n + 1)
          PROVE  Assembly!Value(after[n + 1], given[i].name) = given[i].value
        <3>1. CASE i = n + 1
            BY <2>5, <3>1
        <3>2. CASE i # n + 1
            <4>1. i \in 1..n /\ n + 1 \in (i + 1)..(n + 1) /\ \A j \in (i + 1)..n : j \in (i + 1)..(n + 1)
                BY <3>2
            <4>2. given[i].name # given[n + 1].name /\ Last(i, n)
                BY <2>7, <4>1
            <4>3. QED
                BY <2>2, <2>5, <4>1, <4>2
        <3>3. QED
            BY <3>1, <3>2
    <2>8. QED
        BY <2>6, <2>7
<1>6. N \in T
    <2> HIDE DEF T
    <2> QED
        BY <1>3, <1>4, <1>5, EveryNatural
<1>7. Names(N) /\ Values(N) /\ after[N] \in Tables
    BY <1>2, <1>3, <1>6
<1>8. QED
    BY <1>2, <1>7 DEF Named

\* The defaults leave the names of the request alone and add their own; a request
\* that has them all is left as it is.
LEMMA DefaultsAre ==
    ASSUME NEW hs \in Tables, NEW defaults \in Seq(Field)
    PROVE  LET all == Assembly!SetMissing(hs, defaults) IN
           /\ all \in Tables /\ Named(all) = Named(hs) \cup Named(defaults)
           /\ \A n \in Named(hs) : Assembly!Value(all, n) = Assembly!Value(hs, n)
           /\ Named(defaults) \subseteq Named(hs) => all = hs
<1> DEFINE N == Len(defaults)
<1>1. PICK after \in [0..N -> Tables] :
          /\ after[0] = hs
          /\ \A i \in 1..N : after[i] = Assembly!SetIfMissing(after[i - 1], defaults[i])
          /\ Assembly!SetMissing(hs, defaults) = after[N]
    BY SetMissingIs
<1> DEFINE Names(n) == Named(after[n]) = Named(hs) \cup {defaults[i].name : i \in 1..n}
           Spared(n) == \A m \in Named(hs) : Assembly!Value(after[n], m) = Assembly!Value(hs, m)
           Nothing(n) == Named(defaults) \subseteq Named(hs) => after[n] = hs
           T == {n \in Nat : n <= N => Names(n) /\ Spared(n) /\ Nothing(n)}
<1>2. N \in Nat
    OBVIOUS
<1>3. 0 \in T
    BY <1>1, <1>2
<1>4. ASSUME NEW n \in Nat, n \in T PROVE n + 1 \in T
    <2>1. SUFFICES ASSUME n + 1 <= N PROVE Names(n + 1) /\ Spared(n + 1) /\ Nothing(n + 1)
        OBVIOUS
    <2>2. /\ n + 1 \in 1..N /\ n \in 0..N /\ (n + 1) - 1 = n
          /\ Names(n) /\ Spared(n) /\ Nothing(n)
        BY <1>2, <1>4, <2>1
    <2>3. defaults[n + 1] \in Field /\ after[n] \in Tables
        BY <1>1, <2>2
    <2>4. after[n + 1] = Assembly!SetIfMissing(after[n], defaults[n + 1])
        BY <1>1, <2>2
    <2>5. /\ Named(after[n + 1]) = Named(after[n]) \cup {defaults[n + 1].name}
          /\ \A m \in Named(after[n]) :
                 Assembly!Value(after[n + 1], m) = Assembly!Value(after[n], m)
          /\ defaults[n + 1].name \in Named(after[n]) => after[n + 1] = after[n]
        BY <2>3, <2>4, SetIfMissingIs
    <2>6. Names(n + 1)
        BY <2>2, <2>5
    <2>7. Spared(n + 1)
        BY <2>2, <2>5
    <2>8. defaults[n + 1].name \in Named(defaults)
        BY <2>2 DEF Named
    <2>9. Nothing(n + 1)
        BY <2>2, <2>5, <2>8
    <2>10. QED
        BY <2>6, <2>7, <2>9
<1>5. N \in T
    <2> HIDE DEF T
    <2> QED
        BY <1>2, <1>3, <1>4, EveryNatural
<1>6. Names(N) /\ Spared(N) /\ Nothing(N)
    BY <1>2, <1>5
<1>7. after[N] \in Tables
    BY <1>1, <1>2
<1>8. {defaults[i].name : i \in 1..N} = Named(defaults)
    BY DEF Named
<1>9. QED
    BY <1>1, <1>6, <1>7, <1>8

\* The buffers of a message, and the size of a payload: a number, of one buffer its own.
Buffers == [kind : {"content", "part", "end"}, boundary : Nat, size : Nat]

LEMMA SizeIs ==
    ASSUME NEW payload \in Seq(Buffers)
    PROVE  /\ Assembly!Size(payload) \in Nat
           /\ Len(payload) = 1 => Assembly!Size(payload) = payload[1].size
<1> DEFINE N == Len(payload)
           step == [i \in 1..N |-> [m \in Nat |-> m + payload[i].size]]
           Loop(g) == [n \in 0..N |-> IF n = 0 THEN 0 ELSE g[n - 1] + payload[n].size]
           sum == CHOOSE g : g = Loop(g)
<1>1. N \in Nat /\ \A i \in 1..N : payload[i].size \in Nat
    <2>1. ASSUME NEW i \in 1..N PROVE payload[i].size \in Nat
        <3>1. payload[i] \in Buffers
            OBVIOUS
        <3>2. QED
            BY <3>1 DEF Buffers
    <2>2. QED
        BY <2>1
<1>2. step \in [1..N -> [Nat -> Nat]]
    BY <1>1
<1>3. PICK f \in [0..N -> Nat] : f[0] = 0 /\ \A i \in 1..N : f[i] = step[i][f[i - 1]]
    <2>1. Steps(step, N, Nat) /\ N \in Nat /\ 0 \in Nat
        BY <1>1, <1>2 DEF Steps
    <2> HIDE DEF step, N
    <2>2. PICK f : Runs(f, 0, step, N, Nat)
        BY <2>1, Iterated
    <2>3. QED
        BY <2>2 DEF Runs
<1>4. f = Loop(f)
    <2>1. ASSUME NEW i \in 1..N PROVE f[i] = f[i - 1] + payload[i].size
        <3>1. f[i - 1] \in Nat
            BY <1>3
        <3>2. QED
            BY <1>3, <3>1
    <2>2. QED
        BY <1>1, <1>3, <2>1
<1>5. sum = Loop(sum)
    BY <1>4
<1>6. Assembly!Size(payload) = sum[N]
    BY DEF Assembly!Size
<1> HIDE DEF sum
<1> DEFINE T == {n \in Nat : n <= N => sum[n] \in Nat}
<1>7. 0 \in T
    BY <1>1, <1>5
<1>8. ASSUME NEW n \in Nat, n \in T PROVE n + 1 \in T
    <2>1. CASE n + 1 <= N
        <3>1. n + 1 \in 1..N /\ n + 1 \in 0..N /\ (n + 1) - 1 = n /\ n + 1 # 0
            BY <1>1, <2>1
        <3>2. sum[n + 1] = sum[n] + payload[n + 1].size
            BY <1>5, <3>1
        <3>3. sum[n] \in Nat
            BY <1>1, <1>8, <2>1
        <3>4. payload[n + 1].size \in Nat
            BY <1>1, <3>1
        <3>5. QED
            BY <1>1, <3>2, <3>3, <3>4
    <2>2. QED
        BY <2>1
<1>9. N \in T
    <2> HIDE DEF T
    <2> QED
        BY <1>1, <1>7, <1>8, EveryNatural
<1>10. ASSUME N = 1 PROVE sum[N] = payload[1].size
    <2>1. sum[0] = 0 /\ sum[1] = sum[0] + payload[1].size /\ payload[1].size \in Nat
        BY <1>1, <1>5, <1>10
    <2>2. QED
        BY <1>10, <2>1
<1>11. QED
    BY <1>1, <1>6, <1>9, <1>10

\* A form as it is written: its parts in their order, each with the boundary, and
\* the end.
LEMMA PayloadIs ==
    ASSUME NEW parts \in Seq(Assembly!Parts), NEW b \in Nat
    PROVE  LET payload == Assembly!DataPayload(parts, b) IN
           /\ payload \in Seq(Buffers) /\ Len(payload) = Len(parts) + 1
           /\ \A i \in 1..Len(payload) : payload[i].boundary = b
           /\ \A i \in 1..Len(parts) : payload[i] = Assembly!Section(parts[i], b)
<1> DEFINE sections == [i \in 1..Len(parts) |-> Assembly!Section(parts[i], b)]
           end == Assembly!EndLine(b)
<1>1. Len(parts) \in Nat
    OBVIOUS
<1>2. ASSUME NEW i \in 1..Len(parts)
      PROVE  /\ Assembly!Section(parts[i], b) \in Buffers
             /\ Assembly!Section(parts[i], b).boundary = b
    <2>1. parts[i] \in Assembly!Parts
        OBVIOUS
    <2>2. parts[i].size \in Nat
        BY <2>1, AssemblyAssumption DEF Assembly!Parts
    <2>3. QED
        BY <2>2 DEF Assembly!Section, Buffers
<1>3. end \in Buffers /\ end.boundary = b
    BY DEF Assembly!EndLine, Buffers
<1> HIDE DEF end
<1>4. sections \in Seq(Buffers) /\ Len(sections) = Len(parts)
    BY <1>1, <1>2
<1>5. \A i \in 1..Len(parts) : sections[i] = Assembly!Section(parts[i], b)
    OBVIOUS
<1> HIDE DEF sections
<1> DEFINE payload == Append(sections, end)
<1>6. /\ payload \in Seq(Buffers) /\ Len(payload) = Len(parts) + 1
      /\ \A i \in 1..Len(parts) : payload[i] = sections[i]
      /\ payload[Len(parts) + 1] = end
    BY <1>1, <1>3, <1>4
<1>7. ASSUME NEW i \in 1..Len(payload) PROVE payload[i].boundary = b
    <2>1. i \in 1..Len(parts) \/ i = Len(parts) + 1
        BY <1>1, <1>6
    <2>2. QED
        BY <1>2, <1>3, <1>5, <1>6, <2>1
<1>8. payload = Assembly!DataPayload(parts, b)
    BY DEF Assembly!DataPayload, sections, end
<1>9. QED
    BY <1>5, <1>6, <1>7, <1>8

-----------------------------------------------------------------------------
\* What a builder holds, what a request and a message hold.
CallerField == [name : HeaderNames, spelling : Assembly!Spellings, value : HeaderValues]
Builders == [headers : Seq(CallerField),
             keep_alive : BOOLEAN, json : BOOLEAN, data : Nat, parts : Seq(Assembly!Parts)]
Requests == [made : BOOLEAN, headers : Tables, content : Nat, parts : Seq(Assembly!Parts),
             boundary : Nat, given : Builders]
Wires == [headers : Tables, body : Seq(Buffers)]

AssemblyType ==
    /\ headers \in Tables /\ content_type \in HeaderValues \cup {""}
    /\ builder \in Builders /\ request \in Requests /\ wire \in Wires
    /\ changed \in BOOLEAN /\ calls \in Nat

\* The session announces no length.
NoLength == "Content-Length" \notin Named(headers)

\* A header given to a builder that is neither given again nor the message's.
Stands(b, i) ==
    /\ b.headers[i].name \notin Assembly!Decided(b)
    /\ \A j \in (i + 1)..Len(b.headers) : b.headers[j].name # b.headers[i].name

\* A table that has a name with a value.
Carries(hs, n, v) == n \in Named(hs) /\ Assembly!Value(hs, n) = v

\* A request has the body and the headers it was built with, and the headers its
\* body asks for: those of data at once, those of a form from the first Prepare on.
FromBuilder(r) ==
    /\ r.content = r.given.data
    /\ r.parts = Assembly!FormParts(r.given)
    /\ \A i \in 1..Len(r.given.headers) :
           Stands(r.given, i) => Carries(r.headers, r.given.headers[i].name, r.given.headers[i].value)
    /\ ~r.given.keep_alive => Carries(r.headers, "Connection", "Close")
Described(r) ==
    /\ r.content > 0 => Carries(r.headers, "Content-Length", Assembly!Std!ToString(r.content))
    /\ r.content > 0 /\ r.given.json => Carries(r.headers, "Content-Type", "json")
    /\ r.content = 0 /\ r.parts = <<>> => "Content-Length" \notin Named(r.headers)
    /\ r.boundary # 0 =>
           /\ r.parts # <<>>
           /\ Carries(r.headers, "Content-Type", Assembly!Std!ToString(r.boundary))
           /\ Carries(r.headers, "Content-Length",
                      Assembly!Std!ToString(Assembly!Size(Assembly!DataPayload(r.parts, r.boundary))))
RequestBuilt == request.made => calls > 0 /\ FromBuilder(request) /\ Described(request)

\* The message last sent is described by its headers, also when the request is gone.
Announced(w) ==
    /\ Assembly!Value(w.headers, "Content-Length")
           = IF w.body = <<>> THEN "none" ELSE Assembly!Std!ToString(Assembly!Size(w.body))
    /\ \A i \in 1..Len(w.body) :
           w.body[i].kind # "content"
               => Assembly!Value(w.headers, "Content-Type") = Assembly!Std!ToString(w.body[i].boundary)
WireDescribed == wire # Assembly!Unsent => Announced(wire)

\* Until something changes the request is what was sent, and has all that sending
\* it would add.
Settled ==
    ~changed =>
        /\ request.made
        /\ wire = [headers |-> request.headers, body |-> Assembly!Body(request)]
        /\ Named(headers) \subseteq Named(request.headers)
        /\ content_type # "" => "Content-Type" \in Named(request.headers)
        /\ Carries(request.headers, "Host", "host")
        /\ request.parts # <<>> => request.boundary # 0

AssemblyInv == AssemblyType /\ NoLength /\ RequestBuilt /\ WireDescribed /\ Settled

LEMMA StandardIs ==
    ASSUME NEW n \in FieldNames, NEW v \in FieldValues
    PROVE  /\ Assembly!Standard(n, v) \in Field
           /\ Assembly!Standard(n, v).name = n /\ Assembly!Standard(n, v).value = v
<1>1. "Title-Case" \in Assembly!Spellings
    BY DEF Assembly!Spellings
<1>2. QED
    BY <1>1 DEF Field, Assembly!Standard, Assembly!Header

\* Headers::Set with a header of the library's.
LEMMA SetStandard ==
    ASSUME NEW hs \in Tables, NEW n \in FieldNames, NEW v \in FieldValues
    PROVE  LET new == Assembly!Set(hs, Assembly!Standard(n, v)) IN
           /\ new \in Tables /\ Named(new) = Named(hs) \cup {n} /\ Carries(new, n, v)
           /\ \A m, w : m # n => (Carries(new, m, w) <=> Carries(hs, m, w))
           /\ Carries(hs, n, v) => new = hs
<1> DEFINE h == Assembly!Standard(n, v)
<1>1. h \in Field /\ h.name = n /\ h.value = v
    BY StandardIs
<1> HIDE DEF h
<1>2. /\ Assembly!Set(hs, h) \in Tables
      /\ Named(Assembly!Set(hs, h)) = Named(hs) \cup {h.name}
      /\ Assembly!Value(Assembly!Set(hs, h), h.name) = h.value
      /\ \A m : m # h.name => Assembly!Value(Assembly!Set(hs, h), m) = Assembly!Value(hs, m)
      /\ (h.name \in Named(hs) /\ Assembly!Value(hs, h.name) = h.value)
             => Assembly!Set(hs, h) = hs
    BY <1>1, SetIs
<1> DEFINE new == Assembly!Set(hs, h)
<1> HIDE DEF new
<1>3. /\ new \in Tables /\ Named(new) = Named(hs) \cup {n}
      /\ Assembly!Value(new, n) = v
      /\ \A m : m # n => Assembly!Value(new, m) = Assembly!Value(hs, m)
      /\ (n \in Named(hs) /\ Assembly!Value(hs, n) = v) => new = hs
    BY <1>1, <1>2 DEF new
<1>4. ASSUME NEW m, NEW w, m # n PROVE Carries(new, m, w) <=> Carries(hs, m, w)
    BY <1>3, <1>4 DEF Carries
<1>5. Carries(new, n, v) /\ (Carries(hs, n, v) => new = hs)
    BY <1>3 DEF Carries
<1>6. QED
    BY <1>3, <1>4, <1>5 DEF new, h

LEMMA KnownTexts ==
    /\ {"Accept", "Connection", "Content-Length", "Content-Type", "Host"} \subseteq FieldNames
    /\ {"*/*", "Keep-Alive", "Close", "json", "host"} \subseteq FieldValues
    /\ HeaderNames \subseteq FieldNames /\ HeaderValues \subseteq FieldValues
    /\ \A n \in Nat : Assembly!Std!ToString(n) \in FieldValues
BY DEF FieldNames, FieldValues

\* The caller leaves the length of the body to the library.
LEMMA CallerNames ==
    ASSUME NEW b \in Builders
    PROVE  /\ b.headers \in Seq(Field) /\ Len(b.headers) \in Nat
           /\ \A i \in 1..Len(b.headers) : b.headers[i].name # "Content-Length"
<1> DEFINE given == b.headers
<1>1. given \in Seq(CallerField)
    BY DEF Builders
<1> HIDE DEF given
<1>2. \A i \in 1..Len(given) : given[i] \in CallerField
    BY <1>1
<1>3. \A i \in 1..Len(given) : given[i] \in Field /\ given[i].name # "Content-Length"
    BY <1>2, KnownTexts, AssemblyAssumption DEF Field, CallerField
<1>4. given \in Seq(Field) /\ Len(given) \in Nat
    BY <1>1, <1>3
<1>5. QED
    BY <1>3, <1>4 DEF given

\* The request of an empty builder's headers: what stands of the caller's, and
\* Connection when the caller asked to close.
LEMMA OwnIs ==
    ASSUME NEW b \in Builders
    PROVE  LET own == Assembly!OwnHeaders(b) IN
           /\ own \in Tables /\ "Content-Length" \notin Named(own)
           /\ \A i \in 1..Len(b.headers) :
                  Stands(b, i) => Carries(own, b.headers[i].name, b.headers[i].value)
           /\ ~b.keep_alive => Carries(own, "Connection", "Close")
<1> DEFINE given == b.headers
           each == Assembly!SetEach(<<>>, given)
           own == Assembly!OwnHeaders(b)
<1>2. /\ given \in Seq(Field) /\ Len(given) \in Nat
      /\ \A i \in 1..Len(given) : given[i].name # "Content-Length"
    BY CallerNames
<1> HIDE DEF given
<1>3. /\ each \in Tables /\ Named(each) = Named(given)
      /\ \A i \in 1..Len(given) :
             (\A j \in (i + 1)..Len(given) : given[j].name # given[i].name)
                 => Assembly!Value(each, given[i].name) = given[i].value
    BY <1>2, GivenIs
<1>4. own = IF b.keep_alive THEN each
            ELSE Assembly!Set(each, Assembly!Standard("Connection", "Close"))
    BY DEF Assembly!OwnHeaders, given
<1> HIDE DEF each, own
<1>5. "Content-Length" \notin Named(each)
    BY <1>2, <1>3 DEF Named
<1>6. ASSUME NEW i \in 1..Len(given), Stands(b, i)
      PROVE  Carries(each, given[i].name, given[i].value)
    <2>1. given[i].name \in Named(each)
        BY <1>3 DEF Named
    <2>2. \A j \in (i + 1)..Len(given) : given[j].name # given[i].name
        BY <1>6 DEF Stands, given
    <2>3. QED
        BY <1>3, <2>1, <2>2 DEF Carries
<1>7. CASE b.keep_alive
    <2>1. own = each
        BY <1>4, <1>7
    <2>2. QED
        BY <1>3, <1>5, <1>6, <1>7, <2>1 DEF own, given
<1>8. CASE ~b.keep_alive
    <2>1. own = Assembly!Set(each, Assembly!Standard("Connection", "Close"))
        BY <1>4, <1>8
    <2>2. /\ own \in Tables /\ Named(own) = Named(each) \cup {"Connection"}
          /\ Carries(own, "Connection", "Close")
          /\ \A m, w : m # "Connection" => (Carries(own, m, w) <=> Carries(each, m, w))
        BY <1>3, <2>1, SetStandard, KnownTexts
    <2>3. ASSUME NEW i \in 1..Len(given), Stands(b, i)
          PROVE  Carries(own, given[i].name, given[i].value)
        <3>1. given[i].name # "Connection"
            BY <1>8, <2>3 DEF Stands, Assembly!Decided, given
        <3>2. QED
            BY <1>6, <2>2, <2>3, <3>1
    <2>4. "Content-Length" \notin Named(own)
        BY <1>5, <2>2
    <2>5. QED
        BY <2>2, <2>3, <2>4 DEF own, given
<1>9. QED
    BY <1>7, <1>8

\* What the builder makes is described by its headers.
LEMMA BuiltIs ==
    ASSUME NEW b \in Builders, NEW own, NEW sized, NEW typed, NEW r,
           own = Assembly!OwnHeaders(b),
           sized = IF b.data > 0 THEN Assembly!SetContent(own, b.data) ELSE own,
           typed = IF b.data > 0 /\ b.json
                   THEN Assembly!Set(sized, Assembly!Standard("Content-Type", "json")) ELSE sized,
           r = [made |-> TRUE, headers |-> typed, content |-> b.data,
                parts |-> Assembly!FormParts(b), boundary |-> 0, given |-> b]
    PROVE  r \in Requests /\ FromBuilder(r) /\ Described(r)
<1>1. /\ b.data \in Nat /\ b.json \in BOOLEAN /\ b.keep_alive \in BOOLEAN
      /\ b.parts \in Seq(Assembly!Parts) /\ b.headers \in Seq(CallerField)
    BY DEF Builders
<1>2. /\ own \in Tables /\ "Content-Length" \notin Named(own)
      /\ \A i \in 1..Len(b.headers) :
             Stands(b, i) => Carries(own, b.headers[i].name, b.headers[i].value)
      /\ ~b.keep_alive => Carries(own, "Connection", "Close")
    BY OwnIs
<1>3. \A i \in 1..Len(b.headers) : b.headers[i].name # "Content-Length"
    BY CallerNames
<1>4. /\ sized \in Tables
      /\ b.data > 0 => Carries(sized, "Content-Length", Assembly!Std!ToString(b.data))
      /\ \A m, w : m # "Content-Length" => (Carries(sized, m, w) <=> Carries(own, m, w))
      /\ ~(b.data > 0) => sized = own
    <2>1. CASE b.data > 0
        <3>1. sized = Assembly!Set(own, Assembly!Standard("Content-Length", Assembly!Std!ToString(b.data)))
            BY <2>1 DEF Assembly!SetContent
        <3>2. "Content-Length" \in FieldNames /\ Assembly!Std!ToString(b.data) \in FieldValues
            BY <1>1, KnownTexts
        <3>3. QED
            BY <1>2, <2>1, <3>1, <3>2, SetStandard
    <2>2. CASE ~(b.data > 0)
        BY <1>2, <2>2
    <2>3. QED
        BY <2>1, <2>2
<1>5. /\ typed \in Tables
      /\ b.data > 0 /\ b.json => Carries(typed, "Content-Type", "json")
      /\ \A m, w : (m # "Content-Type" \/ ~(b.data > 0 /\ b.json))
                       => (Carries(typed, m, w) <=> Carries(sized, m, w))
      /\ ~(b.data > 0) => typed = own
    <2>1. CASE b.data > 0 /\ b.json
        BY <1>4, <2>1, SetStandard, KnownTexts
    <2>2. CASE ~(b.data > 0 /\ b.json)
        BY <1>4, <2>2
    <2>3. QED
        BY <2>1, <2>2
<1>6. /\ r.headers = typed /\ r.content = b.data /\ r.boundary = 0 /\ r.given = b /\ r.made = TRUE
      /\ r.parts = Assembly!FormParts(b)
    OBVIOUS
<1>7. r \in Requests
    <2>1. <<>> \in Seq(Assembly!Parts)
        OBVIOUS
    <2>2. r.parts \in Seq(Assembly!Parts)
        BY <1>1, <1>6, <2>1 DEF Assembly!FormParts
    <2>3. r = [made |-> r.made, headers |-> r.headers, content |-> r.content, parts |-> r.parts,
               boundary |-> r.boundary, given |-> r.given]
        OBVIOUS
    <2>4. QED
        BY <1>1, <1>5, <1>6, <2>2, <2>3 DEF Requests
<1>8. FromBuilder(r)
    <2>1. ASSUME NEW i \in 1..Len(b.headers), Stands(b, i)
          PROVE  Carries(typed, b.headers[i].name, b.headers[i].value)
        <3>1. b.headers[i].name # "Content-Type" \/ ~(b.data > 0 /\ b.json)
            BY <1>1, <2>1 DEF Stands, Assembly!Decided
        <3>2. QED
            BY <1>2, <1>3, <1>4, <1>5, <2>1, <3>1
    <2>2. ~b.keep_alive => Carries(typed, "Connection", "Close")
        BY <1>2, <1>4, <1>5
    <2>3. QED
        BY <1>6, <2>1, <2>2 DEF FromBuilder
<1>9. Described(r)
    <2>1. r.content > 0 => Carries(typed, "Content-Length", Assembly!Std!ToString(r.content))
        BY <1>4, <1>5, <1>6
    <2>2. r.content = 0 => "Content-Length" \notin Named(typed)
        BY <1>1, <1>2, <1>5, <1>6
    <2>3. r.content > 0 /\ r.given.json => Carries(r.headers, "Content-Type", "json")
        BY <1>5, <1>6
    <2>4. QED
        BY <1>6, <2>1, <2>2, <2>3 DEF Described
<1>10. QED
    BY <1>7, <1>8, <1>9

\* A boundary is drawn once, and is not 0.
LEMMA BoundaryIs ==
    ASSUME NEW r, r.boundary \in Nat, calls \in Nat, calls > 0
    PROVE  /\ Assembly!Boundary(r) \in Nat \ {0}
           /\ r.boundary # 0 => Assembly!Boundary(r) = r.boundary
BY DEF Assembly!Boundary

\* A request has data or a form.
LEMMA FormIs ==
    ASSUME NEW r \in Requests, FromBuilder(r), r.parts # <<>>
    PROVE  r.content = 0 /\ r.given.data = 0 /\ r.parts = r.given.parts
<1>1. r.given.data \in Nat
    BY DEF Requests, Builders
<1>2. r.content = r.given.data /\ r.parts = IF r.given.data > 0 THEN <<>> ELSE r.given.parts
    BY DEF FromBuilder, Assembly!FormParts
<1>3. QED
    BY <1>1, <1>2

LEMMA FormDescribed ==
    ASSUME NEW r, r.content = 0, r.parts # <<>>,
           Carries(r.headers, "Content-Type", Assembly!Std!ToString(r.boundary)),
           Carries(r.headers, "Content-Length",
                   Assembly!Std!ToString(Assembly!Size(Assembly!DataPayload(r.parts, r.boundary))))
    PROVE  Described(r)
BY DEF Described

\* The request on its way through ClientSession::Request.
Preparing(defaults, typed, hosted, b, form, ready) ==
    /\ defaults = Assembly!SetMissing(request.headers, headers)
    /\ typed = IF content_type = "" THEN defaults
               ELSE Assembly!SetIfMissing(defaults, Assembly!Standard("Content-Type", content_type))
    /\ hosted = Assembly!Set(typed, Assembly!Standard("Host", "host"))
    /\ b = Assembly!Boundary(request)
    /\ form = Assembly!SetContent(
                  Assembly!Set(hosted, Assembly!Standard("Content-Type", Assembly!Std!ToString(b))),
                  Assembly!Size(Assembly!DataPayload(request.parts, b)))
    /\ ready = IF request.parts = <<>> THEN [request EXCEPT !.headers = hosted]
               ELSE [request EXCEPT !.headers = form, !.boundary = b]

Prepared(ready) ==
    \E defaults, typed, hosted, b, form : Preparing(defaults, typed, hosted, b, form, ready)

\* ClientSession::Request makes of a request that is described by its headers one
\* that has all that the session and the library add, and is described as well; a
\* request that has it all is left as it is.
LEMMA PreparedIs ==
    ASSUME NEW ready, AssemblyInv, request.made, Prepared(ready)
    PROVE  /\ ready \in Requests /\ ready.made /\ FromBuilder(ready) /\ Described(ready)
           /\ ready.content = request.content /\ ready.parts = request.parts
           /\ Named(headers) \subseteq Named(ready.headers)
           /\ content_type # "" => "Content-Type" \in Named(ready.headers)
           /\ Carries(ready.headers, "Host", "host")
           /\ ready.parts # <<>> => ready.boundary # 0
           /\ ready.parts = <<>> => ready.boundary = 0
           /\ ~changed => ready = request
<1> USE DEF AssemblyInv
<1>0. PICK defaults, typed, hosted, b, form : Preparing(defaults, typed, hosted, b, form, ready)
    BY DEF Prepared
<1> DEFINE hs == request.headers
           own == request.given
<1>1. /\ hs \in Tables /\ headers \in Tables /\ headers \in Seq(Field) /\ own \in Builders
      /\ request.content \in Nat /\ request.parts \in Seq(Assembly!Parts)
      /\ request.boundary \in Nat /\ calls \in Nat /\ calls > 0
      /\ FromBuilder(request) /\ Described(request)
    <2>1. request \in Requests /\ headers \in Tables /\ calls \in Nat
        BY DEF AssemblyType
    <2>2. headers \in Seq(Field)
        BY <2>1 DEF Tables
    <2>3. calls > 0 /\ FromBuilder(request) /\ Described(request)
        BY DEF RequestBuilt
    <2>4. QED
        BY <2>1, <2>2, <2>3 DEF Requests
<1> HIDE DEF hs, own
<1>2. /\ defaults \in Tables /\ Named(defaults) = Named(hs) \cup Named(headers)
      /\ \A m, w : Carries(hs, m, w) => Carries(defaults, m, w)
      /\ Named(headers) \subseteq Named(hs) => defaults = hs
    <2>1. /\ defaults \in Tables /\ Named(defaults) = Named(hs) \cup Named(headers)
          /\ \A n \in Named(hs) : Assembly!Value(defaults, n) = Assembly!Value(hs, n)
          /\ Named(headers) \subseteq Named(hs) => defaults = hs
        BY <1>0, <1>1, DefaultsAre DEF hs, Preparing
    <2>2. QED
        BY <2>1 DEF Carries
<1>3. /\ typed \in Tables
      /\ Named(typed) = Named(defaults) \cup (IF content_type = "" THEN {} ELSE {"Content-Type"})
      /\ \A m, w : Carries(defaults, m, w) => Carries(typed, m, w)
      /\ (content_type # "" => "Content-Type" \in Named(defaults)) => typed = defaults
    <2>1. CASE content_type = ""
        BY <1>0, <1>2, <2>1 DEF Preparing
    <2>2. CASE content_type # ""
        <3> DEFINE h == Assembly!Standard("Content-Type", content_type)
        <3>1. h \in Field /\ h.name = "Content-Type"
            <4>1. "Content-Type" \in FieldNames /\ content_type \in FieldValues
                BY <2>2, KnownTexts DEF AssemblyType
            <4>2. QED
                BY <4>1, StandardIs
        <3>2. typed = Assembly!SetIfMissing(defaults, h)
            BY <1>0, <2>2 DEF Preparing
        <3> HIDE DEF h
        <3>3. /\ Assembly!SetIfMissing(defaults, h) \in Tables
              /\ Named(Assembly!SetIfMissing(defaults, h)) = Named(defaults) \cup {h.name}
              /\ \A n \in Named(defaults) :
                     Assembly!Value(Assembly!SetIfMissing(defaults, h), n) = Assembly!Value(defaults, n)
              /\ h.name \in Named(defaults) => Assembly!SetIfMissing(defaults, h) = defaults
            BY <1>2, <3>1, SetIfMissingIs, Zenon
        <3>4. QED
            BY <2>2, <3>1, <3>2, <3>3 DEF Carries
    <2>3. QED
        BY <2>1, <2>2
<1>4. /\ hosted \in Tables /\ Named(hosted) = Named(typed) \cup {"Host"}
      /\ Carries(hosted, "Host", "host")
      /\ \A m, w : m # "Host" /\ Carries(typed, m, w) => Carries(hosted, m, w)
      /\ Carries(typed, "Host", "host") => hosted = typed
    <2>1. "Host" \in FieldNames /\ "host" \in FieldValues
        BY KnownTexts
    <2>2. QED
        BY <1>0, <1>3, <2>1, SetStandard DEF Preparing
<1>5. \A m, w : m # "Host" /\ Carries(hs, m, w) => Carries(hosted, m, w)
    BY <1>2, <1>3, <1>4
<1>6. ~changed => hosted = hs
    <2>1. SUFFICES ASSUME ~changed PROVE hosted = hs
        OBVIOUS
    <2>2. /\ Named(headers) \subseteq Named(hs) /\ Carries(hs, "Host", "host")
          /\ content_type # "" => "Content-Type" \in Named(hs)
        BY <2>1 DEF Settled, hs
    <2>3. defaults = hs
        BY <1>2, <2>2
    <2>4. typed = hs
        BY <1>3, <2>2, <2>3
    <2>5. QED
        BY <1>4, <2>2, <2>4
<1>7. \A i \in 1..Len(own.headers) : Stands(own, i) =>
          own.headers[i].name # "Host" /\ own.headers[i].name # "Content-Length"
    BY <1>1, CallerNames DEF Stands, Assembly!Decided
<1>8. CASE request.parts = <<>>
    <2>1. ready = [request EXCEPT !.headers = hosted]
        BY <1>0, <1>8 DEF Preparing
    <2>2. /\ ready \in Requests /\ ready.made /\ ready.headers = hosted /\ ready.given = own
          /\ ready.content = request.content /\ ready.parts = request.parts
          /\ ready.boundary = request.boundary
        BY <1>4, <2>1 DEF AssemblyType, Requests, own
    <2>3. request.boundary = 0
        BY <1>1, <1>8 DEF Described
    <2>4. FromBuilder(ready)
        <3>1. \A i \in 1..Len(own.headers) :
                  Stands(own, i) => Carries(hosted, own.headers[i].name, own.headers[i].value)
            BY <1>1, <1>5, <1>7 DEF FromBuilder, hs, own
        <3>2. ~own.keep_alive => Carries(hosted, "Connection", "Close")
            BY <1>1, <1>5 DEF FromBuilder, hs, own
        <3>3. QED
            BY <1>1, <2>2, <3>1, <3>2 DEF FromBuilder, own
    <2>5. Described(ready)
        <3>1. request.content > 0 =>
                  Carries(hosted, "Content-Length", Assembly!Std!ToString(request.content))
            BY <1>1, <1>5 DEF Described, hs
        <3>2. request.content > 0 /\ own.json => Carries(hosted, "Content-Type", "json")
            BY <1>1, <1>5 DEF Described, hs, own
        <3>3. request.content = 0 => "Content-Length" \notin Named(hosted)
            BY <1>1, <1>2, <1>3, <1>4, <1>8 DEF Described, NoLength, hs
        <3>4. QED
            BY <2>2, <2>3, <3>1, <3>2, <3>3 DEF Described
    <2>6. ~changed => ready = request
        <3>1. hosted = request.headers => [request EXCEPT !.headers = hosted] = request
            BY DEF AssemblyType, Requests
        <3>2. QED
            BY <1>6, <2>1, <3>1 DEF hs
    <2>7. QED
        BY <1>2, <1>3, <1>4, <1>8, <2>2, <2>3, <2>4, <2>5, <2>6
<1>9. CASE request.parts # <<>>
    <2> DEFINE size == Assembly!Size(Assembly!DataPayload(request.parts, b))
               boxed == Assembly!Set(hosted,
                            Assembly!Standard("Content-Type", Assembly!Std!ToString(b)))
    <2>1. /\ b \in Nat \ {0} /\ size \in Nat
          /\ request.boundary # 0 => b = request.boundary
        <3>1. b \in Nat \ {0} /\ (request.boundary # 0 => b = request.boundary)
            BY <1>0, <1>1, BoundaryIs DEF Preparing
        <3>2. Assembly!DataPayload(request.parts, b) \in Seq(Buffers)
            BY <1>1, <3>1, PayloadIs
        <3>3. QED
            BY <3>1, <3>2, SizeIs
    <2>2. form = Assembly!Set(boxed, Assembly!Standard("Content-Length", Assembly!Std!ToString(size)))
        BY <1>0 DEF Assembly!SetContent, Preparing
    <2>3. ready = [request EXCEPT !.headers = form, !.boundary = b]
        BY <1>0, <1>9 DEF Preparing
    <2> HIDE DEF size
    <2>4. /\ boxed \in Tables /\ Named(boxed) = Named(hosted) \cup {"Content-Type"}
          /\ Carries(boxed, "Content-Type", Assembly!Std!ToString(b))
          /\ \A m, w : m # "Content-Type" => (Carries(boxed, m, w) <=> Carries(hosted, m, w))
          /\ Carries(hosted, "Content-Type", Assembly!Std!ToString(b)) => boxed = hosted
        <3>1. "Content-Type" \in FieldNames /\ Assembly!Std!ToString(b) \in FieldValues
            BY <2>1, KnownTexts
        <3>2. QED
            BY <1>4, <3>1, SetStandard
    <2> HIDE DEF boxed
    <2>5. /\ form \in Tables /\ Named(form) = Named(boxed) \cup {"Content-Length"}
          /\ Carries(form, "Content-Length", Assembly!Std!ToString(size))
          /\ \A m, w : m # "Content-Length" => (Carries(form, m, w) <=> Carries(boxed, m, w))
          /\ Carries(boxed, "Content-Length", Assembly!Std!ToString(size)) => form = boxed
        <3>1. "Content-Length" \in FieldNames /\ Assembly!Std!ToString(size) \in FieldValues
            BY <2>1, KnownTexts
        <3> DEFINE v == Assembly!Std!ToString(size)
                   new == Assembly!Set(boxed, Assembly!Standard("Content-Length", v))
        <3>2. v \in FieldValues
            BY <3>1
        <3> HIDE DEF v
        <3>3. /\ new \in Tables /\ Named(new) = Named(boxed) \cup {"Content-Length"}
              /\ Carries(new, "Content-Length", v)
              /\ \A m, w : m # "Content-Length" => (Carries(new, m, w) <=> Carries(boxed, m, w))
              /\ Carries(boxed, "Content-Length", v) => new = boxed
            BY <2>4, <3>1, <3>2, SetStandard
        <3>4. QED
            BY <2>2, <3>3 DEF v
    <2>6. /\ ready \in Requests /\ ready.made /\ ready.headers = form /\ ready.given = own
          /\ ready.content = request.content /\ ready.parts = request.parts
          /\ ready.boundary = b
        BY <2>1, <2>3, <2>5 DEF AssemblyType, Requests, own
    <2>7. request.content = 0 /\ own.data = 0 /\ request.parts = own.parts
        BY <1>1, <1>9, FormIs DEF AssemblyType, own
    <2>8. FromBuilder(ready)
        <3>1. ASSUME NEW i \in 1..Len(own.headers), Stands(own, i)
              PROVE  Carries(form, own.headers[i].name, own.headers[i].value)
            <4>1. own.headers[i].name # "Content-Type"
                BY <1>9, <2>7, <3>1 DEF Stands, Assembly!Decided
            <4>2. Carries(hosted, own.headers[i].name, own.headers[i].value)
                BY <1>1, <1>5, <1>7, <3>1 DEF FromBuilder, hs, own
            <4>3. QED
                BY <1>7, <2>4, <2>5, <3>1, <4>1, <4>2
        <3>2. ~own.keep_alive => Carries(form, "Connection", "Close")
            BY <1>1, <1>5, <2>4, <2>5 DEF FromBuilder, hs, own
        <3>3. QED
            BY <1>1, <2>6, <3>1, <3>2 DEF FromBuilder, own
    <2>9. Described(ready)
        <3>1. Carries(form, "Content-Type", Assembly!Std!ToString(b))
            BY <2>4, <2>5
        <3>2. Carries(form, "Content-Length", Assembly!Std!ToString(size))
            BY <2>5
        <3>3. QED
            BY <1>9, <2>6, <2>7, <3>1, <3>2, FormDescribed DEF size
    <2>10. ~changed => ready = request
        <3>1. SUFFICES ASSUME ~changed PROVE ready = request
            OBVIOUS
        <3>2. /\ hosted = hs /\ request.boundary # 0
            BY <1>6, <1>9, <3>1 DEF Settled
        <3>3. /\ b = request.boundary
              /\ Carries(hs, "Content-Type", Assembly!Std!ToString(b))
              /\ Carries(hs, "Content-Length", Assembly!Std!ToString(size))
            BY <1>1, <2>1, <3>2 DEF Described, hs, size
        <3>4. form = hs
            BY <2>4, <2>5, <3>2, <3>3
        <3>5. QED
            BY <2>3, <3>3, <3>4 DEF AssemblyType, Requests, hs
    <2>11. QED
        <3>1. /\ Named(headers) \subseteq Named(form) /\ "Content-Type" \in Named(form)
            BY <1>2, <1>3, <1>4, <2>4, <2>5
        <3>2. Carries(form, "Host", "host")
            BY <1>4, <2>4, <2>5
        <3>3. QED
            BY <1>9, <2>1, <2>6, <2>8, <2>9, <2>10, <3>1, <3>2
<1>10. QED
    BY <1>8, <1>9

\* Build keeps the invariant.
LEMMA BuildStep == AssemblyInv /\ Assembly!Build => AssemblyInv'
<1> SUFFICES ASSUME AssemblyInv, Assembly!Build PROVE AssemblyInv'
    OBVIOUS
<1> USE DEF AssemblyInv
<1>1. /\ request' \in Requests /\ request'.made /\ FromBuilder(request') /\ Described(request')
      /\ builder' \in Builders /\ calls' = calls + 1 /\ changed' = TRUE
      /\ headers' = headers /\ content_type' = content_type /\ wire' = wire
    <2> DEFINE own == Assembly!OwnHeaders(builder)
               sized == IF builder.data > 0 THEN Assembly!SetContent(own, builder.data) ELSE own
               typed == IF builder.data > 0 /\ builder.json
                        THEN Assembly!Set(sized, Assembly!Standard("Content-Type", "json"))
                        ELSE sized
    <2>1. builder \in Builders
        BY DEF AssemblyType
    <2>2. /\ request' = [made |-> TRUE, headers |-> typed, content |-> builder.data,
                         parts |-> Assembly!FormParts(builder), boundary |-> 0,
                         given |-> builder]
          /\ calls' = calls + 1 /\ changed' = TRUE
          /\ headers' = headers /\ content_type' = content_type /\ wire' = wire
        BY DEF Assembly!Build
    <2>3. builder' \in Builders
        <3>1. builder' = IF builder.data > 0 THEN [builder EXCEPT !.data = 0]
                                             ELSE [builder EXCEPT !.parts = <<>>]
            BY DEF Assembly!Build
        <3>2. <<>> \in Seq(Assembly!Parts)
            OBVIOUS
        <3>3. QED
            BY <2>1, <3>1, <3>2 DEF Builders
    <2>4. request' \in Requests /\ FromBuilder(request') /\ Described(request')
        <3>1. PICK o, s, t : o = own /\ s = sized /\ t = typed
            OBVIOUS
        <3>2. o = Assembly!OwnHeaders(builder)
            BY <3>1
        <3>3. s = IF builder.data > 0 THEN Assembly!SetContent(o, builder.data) ELSE o
            BY <3>1
        <3>4. t = IF builder.data > 0 /\ builder.json
                  THEN Assembly!Set(s, Assembly!Standard("Content-Type", "json")) ELSE s
            BY <3>1
        <3>5. request' = [made |-> TRUE, headers |-> t, content |-> builder.data,
                          parts |-> Assembly!FormParts(builder), boundary |-> 0,
                          given |-> builder]
            BY <2>2, <3>1
        <3> HIDE DEF own, sized, typed
        <3>6. QED
            BY <2>1, <3>2, <3>3, <3>4, <3>5, BuiltIs
    <2>5. request'.made
        BY <2>2
    <2>6. QED
        BY <2>2, <2>3, <2>4, <2>5
<1>2. calls' \in Nat /\ calls' > 0 /\ changed' \in BOOLEAN
    <2>1. calls \in Nat
        BY DEF AssemblyType
    <2>2. QED
        BY <1>1, <2>1
<1>3. AssemblyType' /\ RequestBuilt'
    BY <1>1, <1>2 DEF AssemblyType, RequestBuilt
<1>4. NoLength' /\ WireDescribed' /\ Settled'
    BY <1>1 DEF NoLength, WireDescribed, Settled
<1>5. QED
    BY <1>3, <1>4

\* What SendRequest does, as PreparedIs says it.
LEMMA SendIs ==
    ASSUME AssemblyInv, Assembly!SendRequest
    PROVE  /\ request' \in Requests /\ request'.made
           /\ FromBuilder(request') /\ Described(request')
           /\ Named(headers) \subseteq Named(request'.headers)
           /\ content_type # "" => "Content-Type" \in Named(request'.headers)
           /\ Carries(request'.headers, "Host", "host")
           /\ request'.parts # <<>> => request'.boundary # 0
           /\ ~changed => request' = request
           /\ wire' = [headers |-> request'.headers, body |-> Assembly!Body(request')]
           /\ request.made /\ ~changed' /\ changed' \in BOOLEAN
           /\ headers' = headers /\ content_type' = content_type /\ builder' = builder
           /\ calls' = calls
<1>1. PICK ready : Prepared(ready) /\ request' = ready
    <2> DEFINE defaults == Assembly!SetMissing(request.headers, headers)
               typed == IF content_type = "" THEN defaults
                        ELSE Assembly!SetIfMissing(defaults,
                                 Assembly!Standard("Content-Type", content_type))
               hosted == Assembly!Set(typed, Assembly!Standard("Host", "host"))
               b == Assembly!Boundary(request)
               form == Assembly!SetContent(
                           Assembly!Set(hosted,
                               Assembly!Standard("Content-Type", Assembly!Std!ToString(b))),
                           Assembly!Size(Assembly!DataPayload(request.parts, b)))
               new == IF request.parts = <<>> THEN [request EXCEPT !.headers = hosted]
                      ELSE [request EXCEPT !.headers = form, !.boundary = b]
    <2>1. request' = new
        BY DEF Assembly!SendRequest
    <2>2. Preparing(defaults, typed, hosted, b, form, new)
        BY DEF Preparing
    <2> HIDE DEF defaults, typed, hosted, b, form, new
    <2>3. Prepared(new)
        BY <2>2, Zenon DEF Prepared
    <2>4. QED
        BY <2>1, <2>3
<1>2. /\ request.made /\ ~changed' /\ changed' \in BOOLEAN
      /\ headers' = headers /\ content_type' = content_type /\ builder' = builder
      /\ calls' = calls
    BY DEF Assembly!SendRequest
<1>3. wire' = [headers |-> request'.headers, body |-> Assembly!Body(request')]
    BY DEF Assembly!SendRequest
<1>4. /\ ready \in Requests /\ ready.made /\ FromBuilder(ready) /\ Described(ready)
      /\ Named(headers) \subseteq Named(ready.headers)
      /\ content_type # "" => "Content-Type" \in Named(ready.headers)
      /\ Carries(ready.headers, "Host", "host")
      /\ ready.parts # <<>> => ready.boundary # 0
      /\ ~changed => ready = request
    BY <1>1, <1>2, PreparedIs, Zenon
<1>5. QED
    BY <1>1, <1>2, <1>3, <1>4, Zenon

\* The body of a message: the data, or the form, of the request.
LEMMA BodyIs ==
    ASSUME NEW r \in Requests, FromBuilder(r)
    PROVE  /\ Assembly!Body(r) \in Seq(Buffers)
           /\ r.content > 0 => Assembly!Body(r) = <<Assembly!Content(r.content)>>
           /\ r.content = 0 /\ r.parts = <<>> => Assembly!Body(r) = <<>>
           /\ r.parts # <<>> => Assembly!Body(r) = Assembly!DataPayload(r.parts, r.boundary)
<1> DEFINE content == Assembly!Content(r.content)
           payload == Assembly!DataPayload(r.parts, r.boundary)
<1>1. /\ r.content \in Nat /\ r.parts \in Seq(Assembly!Parts) /\ r.boundary \in Nat
      /\ r.parts # <<>> => r.content = 0
    BY FormIs DEF Requests
<1>2. content \in Buffers
    BY <1>1 DEF Assembly!Content, Buffers
<1>3. payload \in Seq(Buffers)
    BY <1>1, PayloadIs
<1>4. Assembly!Body(r) = (IF r.content > 0 THEN <<content>> ELSE <<>>)
                         \o IF r.parts = <<>> THEN <<>> ELSE payload
    BY DEF Assembly!Body
<1> HIDE DEF content, payload
<1>5. CASE r.content > 0
    <2>1. r.parts = <<>>
        BY <1>1, <1>5
    <2>2. Assembly!Body(r) = <<content>> \o <<>>
        BY <1>4, <1>5, <2>1
    <2>3. <<content>> \o <<>> = <<content>>
        BY <1>2
    <2>4. <<content>> \in Seq(Buffers)
        BY <1>2
    <2>5. QED
        BY <1>1, <1>5, <2>1, <2>2, <2>3, <2>4 DEF content
<1>6. CASE r.content = 0 /\ r.parts = <<>>
    <2>1. Assembly!Body(r) = <<>> \o <<>>
        BY <1>4, <1>6
    <2>2. <<>> \o <<>> = <<>> /\ <<>> \in Seq(Buffers)
        OBVIOUS
    <2>3. QED
        BY <1>6, <2>1, <2>2
<1>7. CASE r.parts # <<>>
    <2>1. ~(r.content > 0)
        BY <1>1, <1>7
    <2>2. Assembly!Body(r) = <<>> \o payload
        BY <1>4, <1>7, <2>1, Zenon
    <2>3. <<>> \o payload = payload
        BY <1>3
    <2>4. QED
        BY <1>1, <1>3, <1>7, <2>2, <2>3 DEF payload
<1>8. QED
    BY <1>1, <1>5, <1>6, <1>7

\* A message is described as the request it was made of.
LEMMA WireIs ==
    ASSUME NEW r \in Requests, FromBuilder(r), Described(r), r.parts # <<>> => r.boundary # 0,
           NEW w, w = [headers |-> r.headers, body |-> Assembly!Body(r)]
    PROVE  w \in Wires /\ Announced(w)
<1> DEFINE body == Assembly!Body(r)
<1>1. /\ r.content \in Nat /\ r.headers \in Tables /\ r.parts \in Seq(Assembly!Parts)
      /\ r.boundary \in Nat
    BY DEF Requests
<1>2. w.headers = r.headers /\ w.body = body
    OBVIOUS
<1>3. /\ body \in Seq(Buffers)
      /\ r.content > 0 => body = <<Assembly!Content(r.content)>>
      /\ r.content = 0 /\ r.parts = <<>> => body = <<>>
      /\ r.parts # <<>> => body = Assembly!DataPayload(r.parts, r.boundary)
    BY BodyIs
<1> HIDE DEF body
<1>4. w \in Wires
    BY <1>1, <1>3 DEF Wires, body
<1>5. CASE r.parts = <<>> /\ r.content = 0
    <2>1. body = <<>> /\ Len(body) = 0
        BY <1>3, <1>5
    <2>2. "Content-Length" \notin Named(r.headers)
        BY <1>5 DEF Described
    <2>3. Assembly!Value(r.headers, "Content-Length") = "none"
        BY <1>1, <2>2, ValueIs
    <2>4. QED
        BY <1>2, <1>4, <2>1, <2>3 DEF Announced
<1>6. CASE r.parts = <<>> /\ r.content # 0
    <2> DEFINE content == Assembly!Content(r.content)
    <2>1. body = <<content>>
        BY <1>1, <1>3, <1>6
    <2>2. content.size = r.content /\ content.kind = "content"
        BY DEF Assembly!Content
    <2> HIDE DEF content
    <2>3. Len(body) = 1 /\ body # <<>> /\ body[1] = content
        BY <2>1
    <2>4. Assembly!Size(body) = r.content
        BY <1>3, <2>2, <2>3, SizeIs
    <2>5. Assembly!Value(r.headers, "Content-Length") = Assembly!Std!ToString(r.content)
        BY <1>1, <1>6 DEF Described, Carries
    <2>6. \A i \in 1..Len(body) : body[i].kind = "content"
        BY <2>2, <2>3
    <2>7. QED
        BY <1>2, <1>4, <2>3, <2>4, <2>5, <2>6 DEF Announced
<1>7. CASE r.parts # <<>>
    <2>1. body = Assembly!DataPayload(r.parts, r.boundary)
        BY <1>3, <1>7
    <2>2. Len(body) = Len(r.parts) + 1 /\ \A i \in 1..Len(body) : body[i].boundary = r.boundary
        BY <1>1, <2>1, PayloadIs
    <2>3. body # <<>>
        BY <1>1, <2>2
    <2>4. /\ Assembly!Value(r.headers, "Content-Type") = Assembly!Std!ToString(r.boundary)
          /\ Assembly!Value(r.headers, "Content-Length") = Assembly!Std!ToString(Assembly!Size(body))
        BY <1>7, <2>1 DEF Described, Carries
    <2>5. QED
        BY <1>2, <1>4, <2>2, <2>3, <2>4 DEF Announced
<1>8. QED
    BY <1>5, <1>6, <1>7

\* Sending keeps the invariant.
LEMMA SendStep == AssemblyInv /\ Assembly!SendRequest => AssemblyInv'
<1> SUFFICES ASSUME AssemblyInv, Assembly!SendRequest PROVE AssemblyInv'
    OBVIOUS
<1>1. /\ request' \in Requests /\ request'.made
      /\ FromBuilder(request') /\ Described(request')
      /\ Named(headers) \subseteq Named(request'.headers)
      /\ content_type # "" => "Content-Type" \in Named(request'.headers)
      /\ Carries(request'.headers, "Host", "host")
      /\ request'.parts # <<>> => request'.boundary # 0
      /\ wire' = [headers |-> request'.headers, body |-> Assembly!Body(request')]
      /\ request.made /\ ~changed' /\ changed' \in BOOLEAN
      /\ headers' = headers /\ content_type' = content_type /\ builder' = builder
      /\ calls' = calls
    BY SendIs
<1>2. wire' \in Wires /\ Announced(wire')
    BY <1>1, WireIs
<1> USE DEF AssemblyInv
<1>3. AssemblyType'
    BY <1>1, <1>2 DEF AssemblyType
<1>4. RequestBuilt'
    BY <1>1 DEF RequestBuilt
<1>5. NoLength' /\ Settled'
    BY <1>1 DEF NoLength, Settled
<1>6. WireDescribed'
    <2>1. Announced(wire)'
        BY <1>2 DEF Announced
    <2>2. QED
        BY <2>1 DEF WireDescribed
<1>7. QED
    BY <1>3, <1>4, <1>5, <1>6

\* Calls on the session and on the builder keep the invariant.
LEMMA CallsStep ==
    AssemblyInv /\ (Assembly!SessionSet \/ Assembly!BuilderSet) => AssemblyInv'
<1> SUFFICES ASSUME AssemblyInv, Assembly!SessionSet \/ Assembly!BuilderSet PROVE AssemblyInv'
    OBVIOUS
<1> USE DEF AssemblyInv
<1>1. CASE Assembly!SessionSet
    <2>1. /\ calls' = calls + 1 /\ changed' = TRUE
          /\ builder' = builder /\ request' = request /\ wire' = wire
        BY <1>1 DEF Assembly!SessionSet
    <2>2. /\ headers' \in Tables /\ "Content-Length" \notin Named(headers')
          /\ content_type' \in HeaderValues \cup {""}
        <3>1. headers \in Tables /\ "Content-Length" \notin Named(headers)
            BY DEF AssemblyType, NoLength
        <3>2. CASE \E v \in HeaderValues : content_type' = v /\ UNCHANGED headers
            BY <3>1, <3>2
        <3>3. ASSUME NEW n \in HeaderNames, NEW s \in Assembly!Spellings, NEW v \in HeaderValues,
                     headers' = Assembly!Set(headers, Assembly!Header(n, s, v)),
                     UNCHANGED content_type
              PROVE  /\ headers' \in Tables /\ "Content-Length" \notin Named(headers')
                     /\ content_type' \in HeaderValues \cup {""}
            <4> DEFINE f == Assembly!Header(n, s, v)
            <4>1. f \in Field /\ f.name = n
                BY KnownTexts DEF Field, Assembly!Header
            <4> HIDE DEF f
            <4>2. Assembly!Set(headers, f) \in Tables
                BY <3>1, <4>1, SetIs
            <4>3. Named(Assembly!Set(headers, f)) = Named(headers) \cup {f.name}
                BY <3>1, <4>1, SetIs
            <4>4. QED
                BY <3>1, <3>3, <4>1, <4>2, <4>3, AssemblyAssumption DEF f, AssemblyType
        <3>4. QED
            BY <1>1, <3>2, <3>3 DEF Assembly!SessionSet
    <2>3. /\ calls' \in Nat
          /\ calls > 0 => calls' > 0
          /\ changed' \in BOOLEAN
        <3>1. calls \in Nat
            BY DEF AssemblyType
        <3>2. QED
            BY <2>1, <3>1
    <2>4. AssemblyType' /\ RequestBuilt'
        <3>1. AssemblyType'
            BY <2>1, <2>2, <2>3 DEF AssemblyType
        <3>2. RequestBuilt'
            BY <2>1, <2>3 DEF RequestBuilt
        <3>3. QED
            BY <3>1, <3>2
    <2>5. NoLength' /\ Settled' /\ WireDescribed'
        BY <2>1, <2>2 DEF NoLength, Settled, WireDescribed
    <2>6. QED
        BY <2>4, <2>5
<1>2. CASE Assembly!BuilderSet
    <2>1. /\ headers' = headers /\ content_type' = content_type /\ request' = request
          /\ wire' = wire /\ changed' = changed /\ calls' = calls
        BY <1>2 DEF Assembly!BuilderSet
    <2>2. builder' \in Builders
        <3>1. builder \in Builders
            BY DEF AssemblyType
        <3>2. ASSUME NEW f \in CallerField, builder' = [builder EXCEPT !.headers = Append(@, f)]
              PROVE  builder' \in Builders
            <4>1. builder.headers \in Seq(CallerField)
                BY <3>1 DEF Builders
            <4>2. Append(builder.headers, f) \in Seq(CallerField)
                BY <3>2, <4>1
            <4>3. QED
                BY <3>1, <3>2, <4>2 DEF Builders
        <3>3. ASSUME NEW p \in Assembly!Parts, builder' = [builder EXCEPT !.parts = Append(@, p)]
              PROVE  builder' \in Builders
            <4>1. Append(builder.parts, p) \in Seq(Assembly!Parts)
                BY <3>1, <3>3 DEF Builders
            <4>2. QED
                BY <3>1, <3>3, <4>1 DEF Builders
        <3>4. ASSUME \/ builder' = [builder EXCEPT !.keep_alive = ~@]
                     \/ builder' = [builder EXCEPT !.json = TRUE]
                     \/ \E d \in Sizes : builder' = [builder EXCEPT !.data = d]
              PROVE  builder' \in Builders
            BY <3>1, <3>4, AssemblyAssumption DEF Builders
        <3>5. \A n \in HeaderNames, s \in Assembly!Spellings, v \in HeaderValues :
                  Assembly!Header(n, s, v) \in CallerField
            BY DEF CallerField, Assembly!Header
        <3>6. QED
            BY <1>2, <3>2, <3>3, <3>4, <3>5, Zenon DEF Assembly!BuilderSet
    <2>3. AssemblyType'
        BY <2>1, <2>2 DEF AssemblyType
    <2>4. RequestBuilt' /\ NoLength' /\ Settled' /\ WireDescribed'
        BY <2>1 DEF RequestBuilt, NoLength, Settled, WireDescribed
    <2>5. QED
        BY <2>3, <2>4
<1>3. QED
    BY <1>1, <1>2

LEMMA AssemblyInit == Assembly!Init => AssemblyInv
<1> SUFFICES ASSUME Assembly!Init PROVE AssemblyInv
    OBVIOUS
<1> DEFINE accept == Assembly!Standard("Accept", "*/*")
           keep == Assembly!Standard("Connection", "Keep-Alive")
<1>1. /\ accept \in Field /\ accept.name = "Accept"
      /\ keep \in Field /\ keep.name = "Connection"
    BY StandardIs, KnownTexts
<1> HIDE DEF accept, keep
<1>2. <<accept, keep>> \in Seq(Field)
    BY <1>1
<1>3. /\ Len(<<accept, keep>>) = 2
      /\ <<accept, keep>>[1] = accept /\ <<accept, keep>>[2] = keep
    OBVIOUS
<1>4. headers = <<accept, keep>>
    BY DEF Assembly!Init, accept, keep
<1>5. headers \in Seq(Field) /\ Len(headers) = 2 /\ headers[1] = accept /\ headers[2] = keep
    BY <1>2, <1>3, <1>4
<1>6. headers \in Tables /\ Named(headers) = {"Accept", "Connection"}
    <2>1. \A i \in 1..Len(headers) : i = 1 \/ i = 2
        BY <1>5
    <2>2. 1 \in 1..Len(headers) /\ 2 \in 1..Len(headers)
        BY <1>5
    <2>3. headers[1].name = "Accept" /\ headers[2].name = "Connection"
        BY <1>1, <1>5
    <2>4. headers \in Tables
        BY <1>5, <2>1, <2>3 DEF Tables
    <2>5. Named(headers) = {"Accept", "Connection"}
        BY <2>1, <2>2, <2>3 DEF Named
    <2>6. QED
        BY <2>4, <2>5
<1>7. /\ <<>> \in Tables /\ <<>> \in Seq(Assembly!Parts) /\ <<>> \in Seq(CallerField)
      /\ <<>> \in Seq(Buffers)
    BY DEF Tables
<1>8. Assembly!NoBuilder \in Builders
    BY <1>7 DEF Assembly!NoBuilder, Builders
<1>9. Assembly!NoRequest \in Requests /\ Assembly!NoRequest.made = FALSE
    BY <1>7, <1>8 DEF Assembly!NoRequest, Requests
<1>10. Assembly!Unsent \in Wires
    BY <1>7 DEF Assembly!Unsent, Wires
<1>11. AssemblyType
    BY <1>6, <1>8, <1>9, <1>10 DEF Assembly!Init, AssemblyType
<1>12. NoLength
    BY <1>6 DEF NoLength
<1>13. RequestBuilt
    BY <1>9 DEF RequestBuilt, Assembly!Init
<1>14. WireDescribed /\ Settled
    BY DEF WireDescribed, Settled, Assembly!Init
<1>15. QED
    BY <1>11, <1>12, <1>13, <1>14 DEF AssemblyInv

LEMMA AssemblyStep == AssemblyInv /\ [Assembly!Next]_Assembly!vars => AssemblyInv'
<1> SUFFICES ASSUME AssemblyInv, [Assembly!Next]_Assembly!vars PROVE AssemblyInv'
    OBVIOUS
<1>1. CASE Assembly!SessionSet \/ Assembly!BuilderSet
    BY <1>1, CallsStep
<1>2. CASE Assembly!Build
    BY <1>2, BuildStep
<1>3. CASE Assembly!SendRequest
    BY <1>3, SendStep
<1>4. CASE UNCHANGED Assembly!vars
    BY <1>4 DEF Assembly!vars, AssemblyInv, AssemblyType, NoLength, RequestBuilt, WireDescribed,
                Settled
<1>5. QED
    BY <1>1, <1>2, <1>3, <1>4 DEF Assembly!Next

LEMMA AssemblyInvariant == Spec => []AssemblyInv
<1>1. Init => AssemblyInv
    BY AssemblyInit DEF Init
<1>2. AssemblyInv /\ [Next]_vars => AssemblyInv'
    BY PartSteps, AssemblyStep
<1>3. QED
    BY <1>1, <1>2, PTL DEF Spec

LEMMA SentAsIs ==
    ASSUME AssemblyInv, ~changed
    PROVE  /\ request.made /\ wire.headers = request.headers
           /\ wire.body = Assembly!Body(request)
<1>1. request.made /\ wire = [headers |-> request.headers, body |-> Assembly!Body(request)]
    BY Zenon DEF AssemblyInv, Settled
<1>2. QED
    BY <1>1

\* Whatever headers the caller gives to a builder and to the session, in whatever
\* case and however often: no message has a header twice, and what the caller gave
\* the builder, the last value of a name, is in the message and not the session's,
\* but for the names that the message decides.
THEOREM CallerSafe == Spec => []CallerWins
<1>1. AssemblyInv => CallerWins
    <2> SUFFICES ASSUME AssemblyInv PROVE CallerWins
        OBVIOUS
    <2> USE DEF AssemblyInv
    <2>1. \A i, j \in 1..Len(wire.headers) : i # j => wire.headers[i].name # wire.headers[j].name
        <3>1. wire.headers \in Tables
            BY DEF AssemblyType, Wires
        <3>2. QED
            BY <3>1 DEF Tables
    <2>2. ASSUME ~changed, NEW i \in 1..Len(request.given.headers), Stands(request.given, i)
          PROVE  Assembly!Value(wire.headers, request.given.headers[i].name)
                     = request.given.headers[i].value
        <3>1. request.made /\ wire.headers = request.headers
            BY <2>2, SentAsIs
        <3>2. Carries(request.headers, request.given.headers[i].name, request.given.headers[i].value)
            BY <2>2, <3>1 DEF RequestBuilt, FromBuilder
        <3>3. QED
            BY <3>1, <3>2 DEF Carries
    <2>3. QED
        BY <2>1, <2>2, Zenon DEF CallerWins, Assembly!CallerWins, Stands
<1>2. QED
    BY <1>1, AssemblyInvariant, PTL

\* The headers of a message describe its body, for any sizes, any number of form
\* parts and any number of sends: the length of all that is sent, the boundary of
\* every line of the form, the type of JSON data, and Connection when the caller
\* asked to close; and the body is the data or the form parts given to the builder.
THEOREM BodySafe == Spec => []BodyAnnounced
<1>1. AssemblyInv => BodyAnnounced
    <2> SUFFICES ASSUME AssemblyInv PROVE BodyAnnounced
        OBVIOUS
    <2> USE DEF AssemblyInv
    <2>1. ASSUME ~changed
          PROVE  LET given == request.given IN
                 /\ given.data > 0 => wire.body = <<Assembly!Content(given.data)>>
                 /\ given.data = 0 =>
                        /\ Len(wire.body) = IF given.parts = <<>> THEN 0 ELSE Len(given.parts) + 1
                        /\ \A i \in 1..Len(given.parts) :
                               wire.body[i] = Assembly!Section(given.parts[i], wire.body[i].boundary)
                 /\ given.data > 0 /\ given.json
                        => Assembly!Value(wire.headers, "Content-Type") = "json"
                 /\ ~given.keep_alive => Assembly!Value(wire.headers, "Connection") = "Close"
        <3> DEFINE given == request.given
                   body == wire.body
        <3>1. /\ request.made /\ wire.headers = request.headers
              /\ body = Assembly!Body(request)
            BY <2>1, SentAsIs
        <3>2. FromBuilder(request) /\ Described(request)
            BY <3>1 DEF RequestBuilt
        <3>3. /\ given.data > 0 /\ given.json
                     => Assembly!Value(wire.headers, "Content-Type") = "json"
              /\ ~given.keep_alive => Assembly!Value(wire.headers, "Connection") = "Close"
            BY <3>1, <3>2 DEF FromBuilder, Described, Carries
        <3>4. request \in Requests
            BY DEF AssemblyType
        <3>5. /\ given.data \in Nat /\ given.parts \in Seq(Assembly!Parts)
              /\ request.boundary \in Nat
              /\ request.content = given.data
              /\ given.data = 0 => request.parts = given.parts
            BY <3>2, <3>4 DEF Requests, Builders, FromBuilder, Assembly!FormParts
        <3>6. /\ request.content > 0 => body = <<Assembly!Content(request.content)>>
              /\ request.content = 0 /\ request.parts = <<>> => body = <<>>
              /\ request.parts # <<>>
                     => body = Assembly!DataPayload(request.parts, request.boundary)
            BY <3>1, <3>2, <3>4, BodyIs
        <3>7. CASE given.data > 0
            <4>1. body = <<Assembly!Content(given.data)>> /\ given.data # 0
                BY <3>5, <3>6, <3>7
            <4>2. QED
                BY <3>3, <4>1
        <3>8. CASE given.data = 0 /\ given.parts = <<>>
            <4>1. body = <<>> /\ Len(body) = 0 /\ 1..Len(given.parts) = {}
                BY <3>5, <3>6, <3>8
            <4>2. QED
                BY <3>3, <3>8, <4>1
        <3>9. CASE given.data = 0 /\ given.parts # <<>>
            <4>1. body = Assembly!DataPayload(given.parts, request.boundary)
                BY <3>5, <3>6, <3>9
            <4>2. /\ Len(body) = Len(given.parts) + 1
                  /\ \A i \in 1..Len(body) : body[i].boundary = request.boundary
                  /\ \A i \in 1..Len(given.parts) :
                         body[i] = Assembly!Section(given.parts[i], request.boundary)
                BY <3>5, <4>1, PayloadIs
            <4>3. ASSUME NEW i \in 1..Len(given.parts)
                  PROVE  body[i] = Assembly!Section(given.parts[i], body[i].boundary)
                <5>1. i \in 1..Len(body)
                    BY <3>5, <4>2
                <5>2. QED
                    BY <4>2, <5>1
            <4>4. QED
                BY <3>3, <3>9, <4>2, <4>3
        <3>10. QED
            BY <3>5, <3>7, <3>8, <3>9
    <2>2. QED
        BY <2>1, Zenon DEF BodyAnnounced, Assembly!BodyAnnounced, WireDescribed, Announced
<1>2. QED
    BY <1>1, AssemblyInvariant, PTL

\* A request that is sent again, with nothing changed since, is sent as the same
\* message: the defaults are there already, the boundary is not drawn again.
THEOREM ResendSafe == Spec => ResendIsSame
<1>1. AssemblyInv /\ [Next]_vars => [~changed => wire' = wire]_Assembly!vars
    <2> SUFFICES ASSUME AssemblyInv, [Assembly!Next]_Assembly!vars
                 PROVE  [~changed => wire' = wire]_Assembly!vars
        BY PartSteps
    <2>1. CASE Assembly!SendRequest
        <3>1. ~changed => request' = request
            BY <2>1, SendIs
        <3>2. wire' = [headers |-> request'.headers, body |-> Assembly!Body(request')]
            BY <2>1, SendIs
        <3>3. ~changed => wire = [headers |-> request.headers, body |-> Assembly!Body(request)]
            BY DEF AssemblyInv, Settled
        <3>4. QED
            BY <3>1, <3>2, <3>3
    <2>2. CASE Assembly!SessionSet \/ Assembly!BuilderSet \/ Assembly!Build
        BY <2>2 DEF Assembly!SessionSet, Assembly!BuilderSet, Assembly!Build
    <2>3. CASE UNCHANGED Assembly!vars
        BY <2>3
    <2>4. QED
        BY <2>1, <2>2, <2>3 DEF Assembly!Next
<1>2. QED
    BY <1>1, AssemblyInvariant, PTL DEF Spec, ResendIsSame, Assembly!ResendIsSame

-----------------------------------------------------------------------------
\* A recursion from the end of a text to its start: round i uses later rounds only.
Ahead(step, N, Y) ==
    /\ step \in [1..N -> [[1..N -> Y] -> Y]]
    /\ \A i \in 1..N : \A t, u \in [1..N -> Y] :
           (\A k \in (i + 1)..N : t[k] = u[k]) => step[i][t] = step[i][u]
Solves(f, step, N, Y) == f \in [1..N -> Y] /\ \A i \in 1..N : f[i] = step[i][f]

LEMMA Backward ==
    ASSUME NEW step, NEW N, NEW Y, Ahead(step, N, Y), N \in Nat, NEW y \in Y
    PROVE  \E f : Solves(f, step, N, Y)
<1> DEFINE Rounds(n) == {f \in [1..N -> Y] : \A i \in 1..N : i > N - n => f[i] = step[i][f]}
           T == {n \in Nat : n <= N => Rounds(n) # {}}
<1>1. 0 \in T
    <2>1. [i \in 1..N |-> y] \in Rounds(0)
        OBVIOUS
    <2>2. QED
        BY <2>1
<1>2. ASSUME NEW n \in Nat, n \in T PROVE n + 1 \in T
    <2>1. CASE n + 1 <= N
        <3>1. PICK f \in Rounds(n) : TRUE
            BY <1>2, <2>1
        <3>2. PICK m \in 1..N : m = N - n
            BY <2>1
        <3>3. f \in [1..N -> Y] /\ \A i \in 1..N : i > m => f[i] = step[i][f]
            BY <3>1, <3>2
        <3>4. step[m][f] \in Y
            BY <3>2, <3>3 DEF Ahead
        <3> DEFINE g == [f EXCEPT ![m] = step[m][f]]
        <3>5. g \in [1..N -> Y] /\ g[m] = step[m][f] /\ \A k \in 1..N : k # m => g[k] = f[k]
            BY <3>3, <3>4
        <3> HIDE DEF g
        <3>6. ASSUME NEW i \in 1..N, i >= m PROVE g[i] = step[i][g]
            <4>1. \A k \in (i + 1)..N : f[k] = g[k]
                BY <3>5, <3>6
            <4>2. step[i][f] = step[i][g]
                BY <3>3, <3>5, <4>1 DEF Ahead
            <4>3. g[i] = step[i][f]
                BY <3>3, <3>5, <3>6
            <4>4. QED
                BY <4>2, <4>3
        <3>7. \A i \in 1..N : i > N - (n + 1) => g[i] = step[i][g]
            BY <3>2, <3>6
        <3>8. g \in Rounds(n + 1)
            BY <3>5, <3>7
        <3>9. Rounds(n + 1) # {}
            BY <3>8
        <3> HIDE DEF Rounds
        <3>10. QED
            BY <3>9
    <2>2. QED
        BY <2>1
<1>3. N \in T
    <2> HIDE DEF T
    <2> QED
        BY <1>1, <1>2, EveryNatural
<1>4. PICK f \in Rounds(N) : TRUE
    BY <1>3
<1>5. \A i \in 1..N : f[i] = step[i][f]
    BY <1>4
<1>6. QED
    BY <1>4, <1>5 DEF Solves

-----------------------------------------------------------------------------
\* Texts of characters, as sequences of their codes.
Text == Seq(Byte)

LEMMA SameText ==
    ASSUME NEW X, NEW s \in Seq(X), NEW t \in Seq(X), Len(s) = Len(t),
           \A i \in 1..Len(s) : s[i] = t[i]
    PROVE  s = t
BY SeqEqual, Zenon

LEMMA SubIs ==
    ASSUME NEW X, NEW s \in Seq(X), NEW a \in 1..Len(s) + 1, NEW b \in 0..Len(s), a <= b + 1
    PROVE  /\ SubSeq(s, a, b) \in Seq(X) /\ Len(SubSeq(s, a, b)) = b - a + 1
           /\ \A k \in 1..b - a + 1 : SubSeq(s, a, b)[k] = s[a + k - 1]
OBVIOUS

\* substr, before and from a position.
LEMMA BeforeIs ==
    ASSUME NEW s \in Text, NEW i \in 1..Len(s) + 1
    PROVE  /\ Query!Before(s, i) \in Text /\ Len(Query!Before(s, i)) = i - 1
           /\ \A k \in 1..i - 1 : Query!Before(s, i)[k] = s[k]
<1>1. Len(s) \in Nat /\ s \in Seq(Byte)
    BY DEF Text
<1>2. 1 \in 1..Len(s) + 1 /\ i - 1 \in 0..Len(s) /\ 1 <= (i - 1) + 1
    BY <1>1
<1>3. /\ SubSeq(s, 1, i - 1) \in Seq(Byte) /\ Len(SubSeq(s, 1, i - 1)) = (i - 1) - 1 + 1
      /\ \A k \in 1..(i - 1) - 1 + 1 : SubSeq(s, 1, i - 1)[k] = s[1 + k - 1]
    BY <1>1, <1>2, SubIs
<1>4. (i - 1) - 1 + 1 = i - 1 /\ \A k \in 1..i - 1 : 1 + k - 1 = k
    BY <1>1
<1>5. QED
    BY <1>3, <1>4 DEF Query!Before, Text

LEMMA FromIs ==
    ASSUME NEW s \in Text, NEW i \in 1..Len(s) + 1
    PROVE  /\ Query!From(s, i) \in Text /\ Len(Query!From(s, i)) = Len(s) - i + 1
           /\ \A k \in 1..Len(s) - i + 1 : Query!From(s, i)[k] = s[i + k - 1]
<1>1. Len(s) \in Nat /\ s \in Seq(Byte)
    BY DEF Text
<1>2. Len(s) \in 0..Len(s) /\ i <= Len(s) + 1
    BY <1>1
<1>3. /\ SubSeq(s, i, Len(s)) \in Seq(Byte) /\ Len(SubSeq(s, i, Len(s))) = Len(s) - i + 1
      /\ \A k \in 1..Len(s) - i + 1 : SubSeq(s, i, Len(s))[k] = s[i + k - 1]
    BY <1>1, <1>2, SubIs
<1>4. QED
    BY <1>3 DEF Query!From, Text

\* find of one character: its first place, 0 when it is not there.
LEMMA FindCharIs ==
    ASSUME NEW s \in Text, NEW c \in Byte
    PROVE  \/ Query!Find(s, <<c>>) = 0 /\ \A k \in 1..Len(s) : s[k] # c
           \/ /\ Query!Find(s, <<c>>) \in 1..Len(s) /\ s[Query!Find(s, <<c>>)] = c
              /\ \A k \in 1..Query!Find(s, <<c>>) - 1 : s[k] # c
<1> DEFINE hits == {i \in 1..Len(s) : s[i] = c}
<1>1. Len(s) \in Nat /\ s \in Seq(Byte)
    BY DEF Text
<1>2. ASSUME NEW i \in 1..Len(s) PROVE SubSeq(s, i, i + Len(<<c>>) - 1) = <<c>> <=> s[i] = c
    <2>1. /\ i + Len(<<c>>) - 1 = i /\ i \in 1..Len(s) + 1 /\ i \in 0..Len(s) /\ i <= i + 1
          /\ i - i + 1 = 1 /\ i + 1 - 1 = i
        BY <1>1
    <2>2. /\ SubSeq(s, i, i) \in Seq(Byte) /\ Len(SubSeq(s, i, i)) = 1
          /\ SubSeq(s, i, i)[1] = s[i]
        BY <1>1, <2>1, SubIs
    <2>3. /\ <<c>> \in Seq(Byte) /\ Len(<<c>>) = 1 /\ <<c>>[1] = c
        OBVIOUS
    <2>4. s[i] = c => SubSeq(s, i, i) = <<c>>
        <3> SUFFICES ASSUME s[i] = c PROVE SubSeq(s, i, i) = <<c>>
            OBVIOUS
        <3>1. \A k \in 1..1 : SubSeq(s, i, i)[k] = <<c>>[k]
            BY <2>2, <2>3
        <3>2. QED
            BY <2>2, <2>3, <3>1, SameText
    <2>5. QED
        BY <2>1, <2>2, <2>3, <2>4
<1>3. Query!Find(s, <<c>>) = IF hits = {} THEN 0 ELSE Query!S!Min(hits)
    <2>1. Len(s) - Len(<<c>>) + 1 = Len(s)
        BY <1>1
    <2>2. {i \in 1..(Len(s) - Len(<<c>>) + 1) : SubSeq(s, i, i + Len(<<c>>) - 1) = <<c>>} = hits
        BY <1>2, <2>1
    <2>3. QED
        BY <2>2 DEF Query!Find
<1>4. CASE hits = {}
    BY <1>3, <1>4
<1>5. CASE hits # {}
    <2>1. hits \in SUBSET Nat
        BY <1>1
    <2>2. \E m \in hits : \A n \in hits : m <= n
        <3> HIDE DEF hits
        <3> QED
            BY <1>5, <2>1, LeastNatural
    <2>3. PICK m \in hits : Query!Find(s, <<c>>) = m /\ \A n \in hits : m <= n
        BY <1>3, <1>5, <2>2 DEF Query!S!Min
    <2>4. ASSUME NEW k \in 1..m - 1 PROVE s[k] # c
        BY <1>1, <2>3
    <2>5. QED
        BY <2>3, <2>4
<1>6. QED
    BY <1>4, <1>5

\* A place with the character and none before it is where find stops.
LEMMA FindAt ==
    ASSUME NEW s \in Text, NEW c \in Byte, NEW i \in 1..Len(s), s[i] = c,
           \A k \in 1..i - 1 : s[k] # c
    PROVE  Query!Find(s, <<c>>) = i
<1>1. PICK j \in 1..Len(s) : j = Query!Find(s, <<c>>) /\ s[j] = c /\ \A k \in 1..j - 1 : s[k] # c
    BY FindCharIs
<1>2. Len(s) \in Nat
    BY DEF Text
<1>3. i = j
    BY <1>1, <1>2
<1>4. QED
    BY <1>1, <1>3

LEMMA FindNone ==
    ASSUME NEW s \in Text, NEW c \in Byte, \A k \in 1..Len(s) : s[k] # c
    PROVE  Query!Find(s, <<c>>) = 0
BY FindCharIs

\* The pieces of a text, as the loop of UrlQuery::UrlQuery cuts them.
LEMMA PiecesIs ==
    ASSUME NEW s \in Text, NEW c \in Byte
    PROVE  \E piece \in [1..Len(s) + 1 -> Seq(Text)] :
               /\ Query!Pieces(s, c) = piece[1]
               /\ \A i \in 1..Len(s) + 1 :
                      piece[i] = LET j == Query!Find(Query!From(s, i), <<c>>) IN
                                 IF j = 0 THEN <<Query!From(s, i)>>
                                 ELSE <<Query!Before(Query!From(s, i), j)>> \o piece[i + j]
<1> DEFINE N == Len(s) + 1
           Y == Seq(Text)
           F == [1..N -> Y]
           at(i) == Query!Find(Query!From(s, i), <<c>>)
           Body(i, t) == IF at(i) = 0 THEN <<Query!From(s, i)>>
                         ELSE <<Query!Before(Query!From(s, i), at(i))>> \o t[i + at(i)]
           step == [i \in 1..N |-> [t \in F |-> Body(i, t)]]
           piece == CHOOSE p : p = [i \in 1..N |-> Body(i, p)]
<1>1. Len(s) \in Nat /\ N \in Nat
    BY DEF Text
<1>2. ASSUME NEW i \in 1..N
      PROVE  /\ Query!From(s, i) \in Text
             /\ at(i) # 0 => /\ i + at(i) \in (i + 1)..N
                             /\ Query!Before(Query!From(s, i), at(i)) \in Text
    <2>1. Query!From(s, i) \in Text /\ Len(Query!From(s, i)) = Len(s) - i + 1
        BY FromIs
    <2>2. at(i) # 0 => at(i) \in 1..Len(Query!From(s, i))
        BY <2>1, FindCharIs
    <2>3. at(i) # 0 => i + at(i) \in (i + 1)..N
        <3> HIDE DEF at
        <3> QED
            BY <1>1, <2>1, <2>2
    <2>4. at(i) # 0 => at(i) \in 1..Len(Query!From(s, i)) + 1
        <3> HIDE DEF at
        <3> QED
            BY <1>1, <2>1, <2>2
    <2>5. at(i) # 0 => Query!Before(Query!From(s, i), at(i)) \in Text
        BY <2>1, <2>4, BeforeIs
    <2>6. QED
        BY <2>1, <2>3, <2>5
<1> HIDE DEF at
<1>3. ASSUME NEW i \in 1..N, NEW t \in F PROVE Body(i, t) \in Y
    <2>1. CASE at(i) = 0
        BY <1>2, <2>1
    <2>2. CASE at(i) # 0
        <3>1. i + at(i) \in 1..N
            BY <1>1, <1>2, <2>2
        <3>2. t[i + at(i)] \in Y
            BY <3>1
        <3>3. <<Query!Before(Query!From(s, i), at(i))>> \in Y
            BY <1>2, <2>2
        <3>4. QED
            BY <2>2, <3>2, <3>3
    <2>3. QED
        BY <2>1, <2>2
<1>4. step \in [1..N -> [F -> Y]]
    BY <1>3
<1>5. ASSUME NEW i \in 1..N, NEW t \in F, NEW u \in F, \A k \in (i + 1)..N : t[k] = u[k]
      PROVE  Body(i, t) = Body(i, u)
    BY <1>2, <1>5
<1>6. Ahead(step, N, Y)
    <2> HIDE DEF Body
    <2> QED
        BY <1>4, <1>5 DEF Ahead
<1>7. <<>> \in Y
    OBVIOUS
<1>8. PICK f : Solves(f, step, N, Y)
    <2> HIDE DEF step, Y, N
    <2> QED
        BY <1>1, <1>6, <1>7, Backward
<1>9. f \in F /\ f = [i \in 1..N |-> Body(i, f)]
    <2> HIDE DEF Body
    <2>1. f \in F /\ \A i \in 1..N : f[i] = step[i][f]
        BY <1>8 DEF Solves
    <2>2. QED
        BY <2>1
<1>10. piece = [i \in 1..N |-> Body(i, piece)]
    <2> HIDE DEF Body
    <2> QED
        BY <1>9
<1>11. Query!Pieces(s, c) = piece[1]
    BY DEF Query!Pieces, at
<1> HIDE DEF piece
<1> DEFINE T == {n \in Nat : \A i \in 1..N : i > N - n => piece[i] = f[i]}
<1>12. 0 \in T
    BY <1>1
<1>13. ASSUME NEW n \in Nat, n \in T PROVE n + 1 \in T
    <2>1. ASSUME NEW i \in 1..N, i > N - (n + 1) PROVE piece[i] = f[i]
        <3>1. piece[i] = Body(i, piece) /\ f[i] = Body(i, f)
            <4> HIDE DEF Body
            <4> QED
                BY <1>9, <1>10
        <3>2. CASE at(i) = 0
            BY <3>1, <3>2
        <3>3. CASE at(i) # 0
            <4>1. i + at(i) \in 1..N /\ i + at(i) > N - n
                BY <1>1, <1>2, <2>1, <3>3
            <4>2. piece[i + at(i)] = f[i + at(i)]
                BY <1>13, <4>1
            <4>3. QED
                BY <3>1, <3>3, <4>2
        <3>4. QED
            BY <3>2, <3>3
    <2>2. QED
        BY <2>1
<1>14. N \in T
    <2> HIDE DEF T
    <2> QED
        BY <1>1, <1>12, <1>13, EveryNatural
<1>15. \A i \in 1..N : piece[i] = f[i]
    BY <1>1, <1>14
<1>16. piece \in F
    <2>1. piece = [i \in 1..N |-> f[i]]
        <3> HIDE DEF Body
        <3> QED
            BY <1>10, <1>15
    <2>2. QED
        BY <1>9, <2>1
<1>17. \A i \in 1..N : piece[i] = Body(i, piece)
    <2> HIDE DEF Body
    <2> QED
        BY <1>10
<1>18. QED
    BY <1>11, <1>16, <1>17 DEF at

LEMMA PrependAppend ==
    ASSUME NEW X, NEW t \in Seq(X), NEW w \in X, NEW x \in X
    PROVE  <<w>> \o Append(t, x) = Append(<<w>> \o t, x)
OBVIOUS

\* Two texts one after the other.
LEMMA ConcatIs ==
    ASSUME NEW X, NEW s \in Seq(X), NEW t \in Seq(X)
    PROVE  /\ s \o t \in Seq(X) /\ Len(s \o t) = Len(s) + Len(t)
           /\ \A k \in 1..Len(s) : (s \o t)[k] = s[k]
           /\ \A k \in 1..Len(t) : (s \o t)[Len(s) + k] = t[k]
<1>1. Len(s) \in Nat /\ Len(t) \in Nat
    OBVIOUS
<1>2. s \o t \in Seq(X) /\ Len(s \o t) = Len(s) + Len(t)
    OBVIOUS
<1>3. \A k \in 1..Len(s) + Len(t) : (s \o t)[k] = IF k <= Len(s) THEN s[k] ELSE t[k - Len(s)]
    OBVIOUS
<1>4. ASSUME NEW k \in 1..Len(t) PROVE (s \o t)[Len(s) + k] = t[k]
    <2>1. /\ Len(s) + k \in 1..Len(s) + Len(t) /\ ~(Len(s) + k <= Len(s))
          /\ Len(s) + k - Len(s) = k
        BY <1>1
    <2>2. QED
        BY <1>3, <2>1
<1>5. ASSUME NEW k \in 1..Len(s) PROVE (s \o t)[k] = s[k]
    <2>1. k \in 1..Len(s) + Len(t) /\ k <= Len(s)
        BY <1>1
    <2>2. QED
        BY <1>3, <2>1
<1>6. QED
    BY <1>2, <1>4, <1>5

LEMMA ConsIs ==
    ASSUME NEW X, NEW c \in X, NEW b \in Seq(X)
    PROVE  /\ <<c>> \o b \in Seq(X) /\ Len(<<c>> \o b) = Len(b) + 1
           /\ (<<c>> \o b)[1] = c /\ \A k \in 1..Len(b) : (<<c>> \o b)[k + 1] = b[k]
<1>1. <<c>> \in Seq(X) /\ Len(<<c>>) = 1 /\ <<c>>[1] = c
    OBVIOUS
<1>2. PICK u \in Seq(X) : u = <<c>>
    BY <1>1
<1>3. /\ u \o b \in Seq(X) /\ Len(u \o b) = Len(u) + Len(b)
      /\ \A k \in 1..Len(u) : (u \o b)[k] = u[k]
      /\ \A k \in 1..Len(b) : (u \o b)[Len(u) + k] = b[k]
    BY ConcatIs
<1>4. Len(b) \in Nat /\ 1 \in 1..Len(u) /\ Len(u) = 1 /\ u[1] = c
    BY <1>1, <1>2
<1>5. \A k \in 1..Len(b) : 1 + k = k + 1
    BY <1>4
<1>6. u \o b = <<c>> \o b
    BY <1>2
<1>7. QED
    BY <1>3, <1>4, <1>5, <1>6

\* A text from a place on is its character and the text after it.
LEMMA OneMore ==
    ASSUME NEW s \in Text, NEW i \in 1..Len(s)
    PROVE  <<s[i]>> \o Query!From(s, i + 1) = Query!From(s, i)
<1>0. Len(s) \in Nat /\ s \in Seq(Byte)
    BY DEF Text
<1>1. i \in 1..Len(s) + 1 /\ i + 1 \in 1..Len(s) + 1
    BY <1>0
<1> DEFINE a == Query!From(s, i)
           b == Query!From(s, i + 1)
<1>2. /\ a \in Seq(Byte) /\ Len(a) = Len(s) - i + 1
      /\ \A k \in 1..Len(s) - i + 1 : a[k] = s[i + k - 1]
    BY <1>1, FromIs DEF Text
<1>3. /\ b \in Seq(Byte) /\ Len(b) = Len(s) - (i + 1) + 1
      /\ \A k \in 1..Len(s) - (i + 1) + 1 : b[k] = s[(i + 1) + k - 1]
    BY <1>1, FromIs DEF Text
<1> HIDE DEF a, b
<1>4. PICK c \in Byte : c = s[i]
    BY <1>0
<1>5. /\ <<c>> \o b \in Seq(Byte) /\ Len(<<c>> \o b) = Len(b) + 1
      /\ (<<c>> \o b)[1] = c /\ \A k \in 1..Len(b) : (<<c>> \o b)[k + 1] = b[k]
    <2>1. PICK v \in Seq(Byte) : v = b
        BY <1>3
    <2>2. /\ <<c>> \o v \in Seq(Byte) /\ Len(<<c>> \o v) = Len(v) + 1
          /\ (<<c>> \o v)[1] = c /\ \A k \in 1..Len(v) : (<<c>> \o v)[k + 1] = v[k]
        BY ConsIs
    <2>3. QED
        BY <2>1, <2>2, Zenon
<1>6. Len(<<c>> \o b) = Len(a)
    BY <1>0, <1>2, <1>3, <1>5
<1>7. ASSUME NEW k \in 1..Len(a) PROVE (<<c>> \o b)[k] = a[k]
    <2>1. CASE k = 1
        <3>1. a[1] = s[i]
            BY <1>0, <1>2
        <3>2. QED
            BY <1>4, <1>5, <2>1, <3>1
    <2>2. CASE k # 1
        <3>1. PICK m \in 1..Len(b) : k = m + 1
            BY <1>0, <1>2, <1>3, <2>2
        <3>2. /\ m \in 1..Len(s) - (i + 1) + 1 /\ k \in 1..Len(s) - i + 1
              /\ (i + 1) + m - 1 = i + k - 1
            BY <1>0, <1>2, <1>3, <3>1
        <3>3. QED
            BY <1>2, <1>3, <1>5, <3>1, <3>2
    <2>3. QED
        BY <2>1, <2>2
<1>8. <<c>> \o b = a
    BY <1>2, <1>5, <1>6, <1>7, SameText
<1>9. QED
    BY <1>4, <1>8 DEF a, b

\* No character of a text is c.
Lacks(s, c) == \A k \in 1..Len(s) : s[k] # c

\* A text without the separator is one piece.
LEMMA OnePiece ==
    ASSUME NEW s \in Text, NEW c \in Byte, Lacks(s, c)
    PROVE  Query!Pieces(s, c) = <<s>>
<1>1. Len(s) \in Nat /\ 1 \in 1..Len(s) + 1
    BY DEF Text
<1>2. PICK piece \in [1..Len(s) + 1 -> Seq(Text)] :
          /\ Query!Pieces(s, c) = piece[1]
          /\ \A i \in 1..Len(s) + 1 :
                 piece[i] = LET j == Query!Find(Query!From(s, i), <<c>>) IN
                            IF j = 0 THEN <<Query!From(s, i)>>
                            ELSE <<Query!Before(Query!From(s, i), j)>> \o piece[i + j]
    BY PiecesIs
<1>3. Query!From(s, 1) = s
    BY <1>1 DEF Query!From, Text
<1>4. Query!Find(s, <<c>>) = 0
    BY FindNone DEF Lacks
<1>5. QED
    BY <1>1, <1>2, <1>3, <1>4

\* What a text looks like after which comes the separator and more.
LEMMA JoinIs ==
    ASSUME NEW q \in Text, NEW c \in Byte, NEW kv \in Text
    PROVE  LET r == q \o <<c>> \o kv IN
           /\ r \in Text /\ Len(r) = Len(q) + 1 + Len(kv)
           /\ \A k \in 1..Len(q) : r[k] = q[k]
           /\ r[Len(q) + 1] = c
           /\ \A k \in 1..Len(kv) : r[Len(q) + 1 + k] = kv[k]
<1>1. q \in Seq(Byte) /\ kv \in Seq(Byte) /\ <<c>> \in Seq(Byte) /\ Len(<<c>>) = 1
    BY DEF Text
<1>2. Len(q) \in Nat /\ Len(kv) \in Nat
    BY <1>1
<1> DEFINE p == q \o <<c>>
<1>3. p \in Seq(Byte) /\ Len(p) = Len(q) + 1
    BY <1>1
<1>4. (\A k \in 1..Len(q) : p[k] = q[k]) /\ p[Len(q) + 1] = c
    BY <1>1
<1> HIDE DEF p
<1>5. /\ p \o kv \in Seq(Byte) /\ Len(p \o kv) = Len(p) + Len(kv)
      /\ \A k \in 1..Len(p) : (p \o kv)[k] = p[k]
      /\ \A k \in 1..Len(kv) : (p \o kv)[Len(p) + k] = kv[k]
    BY <1>1, <1>2, <1>3
<1>6. /\ \A k \in 1..Len(q) : (p \o kv)[k] = q[k]
      /\ (p \o kv)[Len(q) + 1] = c
    BY <1>2, <1>3, <1>4, <1>5
<1>7. QED
    BY <1>2, <1>3, <1>5, <1>6 DEF p, Text

\* A separator and a text without one after it are one more piece.
LEMMA OneMorePiece ==
    ASSUME NEW q \in Text, NEW c \in Byte, NEW kv \in Text, Lacks(kv, c)
    PROVE  /\ Query!Pieces(q, c) \in Seq(Text)
           /\ Query!Pieces(q \o <<c>> \o kv, c) = Append(Query!Pieces(q, c), kv)
<1> DEFINE r == q \o <<c>> \o kv
           N == Len(q) + 1
<1>1. /\ Len(q) \in Nat /\ Len(kv) \in Nat /\ N \in Nat
      /\ r \in Text /\ Len(r) = N + Len(kv)
      /\ \A k \in 1..Len(q) : r[k] = q[k]
      /\ r[N] = c
      /\ \A k \in 1..Len(kv) : r[N + k] = kv[k]
    BY JoinIs DEF Text
<1> HIDE DEF r
<1>2. PICK P \in [1..Len(q) + 1 -> Seq(Text)] :
          /\ Query!Pieces(q, c) = P[1]
          /\ \A i \in 1..Len(q) + 1 :
                 P[i] = LET j == Query!Find(Query!From(q, i), <<c>>) IN
                        IF j = 0 THEN <<Query!From(q, i)>>
                        ELSE <<Query!Before(Query!From(q, i), j)>> \o P[i + j]
    BY PiecesIs
<1>3. PICK R \in [1..Len(r) + 1 -> Seq(Text)] :
          /\ Query!Pieces(r, c) = R[1]
          /\ \A i \in 1..Len(r) + 1 :
                 R[i] = LET j == Query!Find(Query!From(r, i), <<c>>) IN
                        IF j = 0 THEN <<Query!From(r, i)>>
                        ELSE <<Query!Before(Query!From(r, i), j)>> \o R[i + j]
    BY <1>1, PiecesIs
<1>4. R[N + 1] = <<kv>>
    <2>1. N + 1 \in 1..Len(r) + 1
        BY <1>1
    <2>2. /\ Query!From(r, N + 1) \in Text /\ Len(Query!From(r, N + 1)) = Len(kv)
          /\ \A k \in 1..Len(kv) : Query!From(r, N + 1)[k] = r[N + 1 + k - 1]
        <3>1. Len(r) - (N + 1) + 1 = Len(kv)
            BY <1>1
        <3>2. QED
            BY <1>1, <2>1, <3>1, FromIs
    <2>3. \A k \in 1..Len(kv) : Query!From(r, N + 1)[k] = kv[k]
        <3>1. \A k \in 1..Len(kv) : N + 1 + k - 1 = N + k
            BY <1>1
        <3>2. QED
            BY <1>1, <2>2, <3>1
    <2>4. Query!From(r, N + 1) = kv
        BY <2>2, <2>3, SameText DEF Text
    <2>5. Query!Find(kv, <<c>>) = 0
        BY FindNone DEF Lacks
    <2>6. QED
        BY <1>3, <2>1, <2>4, <2>5
<1>5. ASSUME NEW i \in 1..N, NEW j, j = Query!Find(Query!From(q, i), <<c>>)
      PROVE  /\ i \in 1..Len(r) + 1
             /\ Query!From(q, i) \in Text
             /\ j # 0 => /\ j \in 1..Len(q) /\ i + j \in 1..N
                         /\ Query!Find(Query!From(r, i), <<c>>) = j
                         /\ Query!Before(Query!From(r, i), j) = Query!Before(Query!From(q, i), j)
                         /\ Query!Before(Query!From(q, i), j) \in Text
             /\ j = 0 => /\ Query!Find(Query!From(r, i), <<c>>) = N - i + 1
                         /\ Query!Before(Query!From(r, i), N - i + 1) = Query!From(q, i)
    <2> DEFINE a == Query!From(q, i)
               b == Query!From(r, i)
    <2>1. i \in 1..Len(r) + 1 /\ i \in 1..Len(q) + 1
        BY <1>1
    <2>2. /\ a \in Text /\ Len(a) = N - i /\ Len(a) \in Nat
          /\ \A k \in 1..N - i : a[k] = q[i + k - 1]
        <3>1. Len(q) - i + 1 = N - i /\ N - i \in Nat
            BY <1>1
        <3>2. QED
            BY <2>1, <3>1, FromIs
    <2>3. /\ b \in Text /\ Len(b) = Len(r) - i + 1 /\ Len(b) \in Nat
          /\ \A k \in 1..Len(r) - i + 1 : b[k] = r[i + k - 1]
        <3>1. Len(r) - i + 1 \in Nat
            BY <1>1
        <3>2. QED
            BY <1>1, <2>1, <3>1, FromIs
    <2> HIDE DEF a, b
    <2>4. Len(b) >= Len(a) + 1
        BY <1>1, <2>2, <2>3
    <2>5. ASSUME NEW k \in 1..Len(a) PROVE a[k] = b[k]
        <3>1. i + k - 1 \in 1..Len(q) /\ k \in 1..N - i /\ k \in 1..Len(r) - i + 1
            BY <1>1, <2>2, <2>3, <2>4
        <3>2. QED
            BY <1>1, <2>2, <2>3, <3>1
    <2>6. b[Len(a) + 1] = c
        <3>1. Len(a) + 1 \in 1..Len(r) - i + 1 /\ i + (Len(a) + 1) - 1 = N
            BY <1>1, <2>2, <2>3, <2>4
        <3>2. QED
            BY <1>1, <2>3, <3>1
    <2>7. CASE j # 0
        <3>1. j \in 1..Len(a) /\ a[j] = c /\ \A k \in 1..j - 1 : a[k] # c
            BY <1>5, <2>2, <2>7, FindCharIs DEF a
        <3>2. j \in 1..Len(b) /\ \A k \in 1..j - 1 : k \in 1..Len(a)
            BY <2>2, <2>3, <2>4, <3>1
        <3>3. Query!Find(b, <<c>>) = j
            BY <2>3, <2>5, <3>1, <3>2, FindAt
        <3>4. j \in 1..Len(a) + 1 /\ j \in 1..Len(b) + 1
            BY <2>2, <2>3, <3>1, <3>2
        <3>5. /\ Query!Before(a, j) \in Text /\ Len(Query!Before(a, j)) = j - 1
              /\ \A k \in 1..j - 1 : Query!Before(a, j)[k] = a[k]
            BY <2>2, <3>4, BeforeIs
        <3>6. /\ Query!Before(b, j) \in Text /\ Len(Query!Before(b, j)) = j - 1
              /\ \A k \in 1..j - 1 : Query!Before(b, j)[k] = b[k]
            BY <2>3, <3>4, BeforeIs
        <3>7. Query!Before(b, j) = Query!Before(a, j)
            BY <2>5, <3>2, <3>5, <3>6, SameText DEF Text
        <3>8. j \in 1..Len(q) /\ i + j \in 1..N
            BY <1>1, <2>2, <3>1
        <3>9. QED
            BY <2>1, <2>2, <2>7, <3>3, <3>5, <3>7, <3>8 DEF a, b
    <2>8. CASE j = 0
        <3>1. \A k \in 1..Len(a) : a[k] # c
            <4>1. Query!Find(a, <<c>>) = 0
                BY <1>5, <2>8 DEF a
            <4>2. QED
                BY <2>2, <4>1, FindCharIs
        <3>2. PICK m \in 1..Len(b) : m = Len(a) + 1
            BY <2>2, <2>3, <2>4
        <3>3. \A k \in 1..m - 1 : b[k] # c
            BY <2>2, <2>5, <3>1, <3>2
        <3>4. Query!Find(b, <<c>>) = m
            BY <2>3, <2>6, <3>2, <3>3, FindAt
        <3>5. m \in 1..Len(b) + 1 /\ m - 1 = Len(a) /\ m = N - i + 1
            BY <1>1, <2>2, <2>3, <3>2
        <3>6. /\ Query!Before(b, m) \in Text /\ Len(Query!Before(b, m)) = m - 1
              /\ \A k \in 1..m - 1 : Query!Before(b, m)[k] = b[k]
            BY <2>3, <3>5, BeforeIs
        <3>7. Query!Before(b, m) = a
            BY <2>2, <2>5, <3>5, <3>6, SameText DEF Text
        <3>8. QED
            BY <2>1, <2>2, <2>8, <3>4, <3>5, <3>7 DEF a, b
    <2>9. QED
        BY <2>7, <2>8
<1> DEFINE T == {n \in Nat : \A i \in 1..N : i > N - n => R[i] = Append(P[i], kv)}
<1>6. 0 \in T
    BY <1>1
<1>7. ASSUME NEW n \in Nat, n \in T PROVE n + 1 \in T
    <2>1. ASSUME NEW i \in 1..N, i > N - (n + 1) PROVE R[i] = Append(P[i], kv)
        <3>1. PICK j : j = Query!Find(Query!From(q, i), <<c>>)
            OBVIOUS
        <3>2. i \in 1..Len(q) + 1
            OBVIOUS
        <3>3. CASE j # 0
            <4>1. /\ i \in 1..Len(r) + 1 /\ j \in 1..Len(q) /\ i + j \in 1..N
                  /\ Query!Find(Query!From(r, i), <<c>>) = j
                  /\ Query!Before(Query!From(r, i), j) = Query!Before(Query!From(q, i), j)
                  /\ Query!Before(Query!From(q, i), j) \in Text
                BY <1>5, <3>1, <3>3
            <4>2. PICK w \in Text : w = Query!Before(Query!From(q, i), j)
                BY <4>1
            <4>3. P[i] = <<w>> \o P[i + j]
                BY <1>2, <3>1, <3>2, <3>3, <4>2
            <4>4. R[i] = <<w>> \o R[i + j]
                BY <1>3, <3>3, <4>1, <4>2
            <4>5. i + j > N - n
                BY <1>1, <2>1, <4>1
            <4>6. R[i + j] = Append(P[i + j], kv)
                BY <1>7, <4>1, <4>5
            <4>7. P[i + j] \in Seq(Text)
                BY <1>2, <4>1
            <4>8. PICK t \in Seq(Text) : t = P[i + j]
                BY <4>7
            <4>9. <<w>> \o Append(t, kv) = Append(<<w>> \o t, kv)
                BY <4>2, <4>8, PrependAppend
            <4>10. QED
                BY <4>3, <4>4, <4>6, <4>8, <4>9
        <3>4. CASE j = 0
            <4>1. /\ i \in 1..Len(r) + 1
                  /\ Query!Find(Query!From(r, i), <<c>>) = N - i + 1
                  /\ Query!Before(Query!From(r, i), N - i + 1) = Query!From(q, i)
                  /\ Query!From(q, i) \in Text
                BY <1>5, <3>1, <3>4
            <4>2. PICK w \in Text : w = Query!From(q, i)
                BY <4>1
            <4>3. P[i] = <<w>>
                BY <1>2, <3>1, <3>2, <3>4, <4>2
            <4>4. N - i + 1 # 0 /\ i + (N - i + 1) = N + 1
                BY <1>1
            <4>5. R[i] = <<w>> \o R[N + 1]
                BY <1>3, <4>1, <4>2, <4>4
            <4>6. <<w>> \o <<kv>> = Append(<<w>>, kv)
                OBVIOUS
            <4>7. QED
                BY <1>4, <4>3, <4>5, <4>6
        <3>5. QED
            BY <3>3, <3>4
    <2>2. QED
        BY <2>1
<1>8. N \in T
    <2> HIDE DEF T
    <2> QED
        BY <1>1, <1>6, <1>7, EveryNatural
<1>9. R[1] = Append(P[1], kv) /\ P[1] \in Seq(Text)
    <2>1. 1 \in 1..N /\ 1 > N - N
        BY <1>1
    <2>2. R[1] = Append(P[1], kv)
        BY <1>8, <2>1
    <2>3. QED
        BY <1>2, <2>1, <2>2
<1>10. QED
    BY <1>2, <1>3, <1>9 DEF r

-----------------------------------------------------------------------------
\* The parameters of a query.
Pairs == Text \X Text
Queries == Seq(Pairs)

LEMMA PartsOfText ==
    ASSUME NEW kv \in Text, NEW i \in 1..Len(kv)
    PROVE  Query!Before(kv, i) \in Text /\ Query!From(kv, i + 1) \in Text
<1>1. i \in 1..Len(kv) + 1 /\ i + 1 \in 1..Len(kv) + 1
    BY DEF Text
<1>2. QED
    BY <1>1, BeforeIs, FromIs

LEMMA AddIs ==
    ASSUME NEW q \in Queries, NEW key \in Text, NEW value \in Text
    PROVE  Query!Add(q, key, value) \in Queries
<1>1. <<key, value>> \in Pairs
    BY DEF Pairs
<1>2. QED
    BY <1>1 DEF Query!Add, Queries

LEMMA AddPairIs ==
    ASSUME NEW q \in Queries, NEW kv \in Text
    PROVE  Query!AddPair(q, kv) \in Queries
<1> DEFINE i == Query!Find(kv, <<Query!Equals>>)
<1>1. Query!Equals \in Byte
    BY DEF Query!Equals, Byte
<1>2. i = 0 \/ i \in 1..Len(kv)
    BY <1>1, FindCharIs
<1>3. Query!AddPair(q, kv) =
          IF i \in {0, 1} THEN q ELSE Query!Add(q, Query!Before(kv, i), Query!From(kv, i + 1))
    BY DEF Query!AddPair
<1> HIDE DEF i
<1>4. CASE i \in {0, 1}
    BY <1>3, <1>4
<1>5. CASE i \notin {0, 1}
    <2>1. i \in 1..Len(kv)
        BY <1>2, <1>5
    <2>2. QED
        BY <1>3, <1>5, <2>1, PartsOfText, AddIs
<1>6. QED
    BY <1>4, <1>5

\* The pairs of a text are added one after another.
Adding(kvs, after) ==
    /\ after \in [0..Len(kvs) -> Queries] /\ after[0] = <<>>
    /\ \A i \in 1..Len(kvs) : after[i] = Query!AddPair(after[i - 1], kvs[i])

LEMMA QueryIs ==
    ASSUME NEW str \in Text, Query!Pieces(str, Query!Ampersand) \in Seq(Text)
    PROVE  \E after : LET kvs == Query!Pieces(str, Query!Ampersand) IN
               /\ Adding(kvs, after)
               /\ str # <<>> => Query!UrlQuery(str) = after[Len(kvs)]
<1> DEFINE kvs == Query!Pieces(str, Query!Ampersand)
           N == Len(kvs)
           step == [i \in 1..N |-> [t \in Queries |-> Query!AddPair(t, kvs[i])]]
           Loop(g) == [n \in 0..N |-> IF n = 0 THEN <<>> ELSE Query!AddPair(g[n - 1], kvs[n])]
           after == CHOOSE g : g = Loop(g)
<1>1. N \in Nat /\ <<>> \in Queries /\ kvs \in Seq(Text)
    BY DEF Queries
<1>2. Query!UrlQuery(str) = IF str = <<>> THEN <<>> ELSE after[N]
    BY DEF Query!UrlQuery
<1> HIDE DEF kvs
<1>3. step \in [1..N -> [Queries -> Queries]]
    <2>1. ASSUME NEW i \in 1..N, NEW t \in Queries PROVE Query!AddPair(t, kvs[i]) \in Queries
        <3>1. kvs[i] \in Text
            BY <1>1
        <3>2. QED
            BY <3>1, AddPairIs
    <2>2. QED
        BY <2>1
<1>4. PICK f \in [0..N -> Queries] : f[0] = <<>> /\ \A i \in 1..N : f[i] = step[i][f[i - 1]]
    <2>1. Steps(step, N, Queries)
        BY <1>3 DEF Steps
    <2> HIDE DEF step, N
    <2>2. PICK f : Runs(f, <<>>, step, N, Queries)
        BY <1>1, <2>1, Iterated
    <2>3. QED
        BY <2>2 DEF Runs
<1>5. \A i \in 1..N : f[i] = Query!AddPair(f[i - 1], kvs[i])
    <2> SUFFICES ASSUME NEW i \in 1..N PROVE f[i] = Query!AddPair(f[i - 1], kvs[i])
        OBVIOUS
    <2>1. f[i - 1] \in Queries
        BY <1>4
    <2>2. QED
        BY <1>4, <2>1
<1>6. f = Loop(f)
    BY <1>1, <1>4, <1>5
<1>7. after = Loop(after)
    BY <1>6
<1> HIDE DEF after
<1> DEFINE Same == {n \in Nat : n <= N => after[n] = f[n]}
<1>8. 0 \in Same
    BY <1>1, <1>4, <1>7
<1>9. ASSUME NEW n \in Nat, n \in Same PROVE n + 1 \in Same
    <2>1. CASE n + 1 <= N
        <3>1. n + 1 \in 1..N /\ n + 1 \in 0..N /\ (n + 1) - 1 = n /\ n + 1 # 0
            BY <1>1, <2>1
        <3>2. after[n + 1] = Query!AddPair(after[n], kvs[n + 1])
            BY <1>7, <3>1
        <3>3. QED
            BY <1>5, <1>9, <3>1, <3>2
    <2>2. QED
        BY <2>1
<1>10. after[N] = f[N]
    <2>1. N \in Same
        <3> HIDE DEF Same
        <3> QED
            BY <1>1, <1>8, <1>9, EveryNatural
    <2>2. QED
        BY <2>1
<1>11. Adding(kvs, f)
    BY <1>4, <1>5 DEF Adding
<1>12. QED
    BY <1>2, <1>10, <1>11 DEF kvs

\* One more pair: the query of a text to which a pair was joined.
LEMMA QueryJoined ==
    ASSUME NEW q \in Text, NEW kv \in Text, kv # <<>>, Lacks(kv, Query!Ampersand)
    PROVE  /\ Query!Joined(q, kv) \in Text /\ Query!Joined(q, kv) # <<>>
           /\ Query!UrlQuery(q) \in Queries
           /\ Query!UrlQuery(Query!Joined(q, kv)) = Query!AddPair(Query!UrlQuery(q), kv)
<1> DEFINE c == Query!Ampersand
<1>1. c \in Byte
    BY DEF Query!Ampersand, Byte
<1> HIDE DEF c
<1>2. CASE q = <<>>
    <2>1. Query!Joined(q, kv) = kv
        BY <1>2 DEF Query!Joined
    <2>2. Query!Pieces(kv, c) = <<kv>>
        BY <1>1, OnePiece DEF c
    <2>3. <<kv>> \in Seq(Text) /\ Len(<<kv>>) = 1 /\ <<kv>>[1] = kv
        OBVIOUS
    <2>4. PICK after : Adding(<<kv>>, after) /\ Query!UrlQuery(kv) = after[1]
        BY <2>2, <2>3, QueryIs DEF c
    <2>5. after[1] = Query!AddPair(<<>>, kv)
        BY <2>3, <2>4 DEF Adding
    <2>6. Query!UrlQuery(q) = <<>>
        BY <1>2 DEF Query!UrlQuery
    <2>7. Query!UrlQuery(q) \in Queries
        BY <2>6 DEF Queries
    <2>8. QED
        BY <2>1, <2>4, <2>5, <2>6, <2>7
<1>3. CASE q # <<>>
    <2> DEFINE r == q \o <<c>> \o kv
               kvs == Query!Pieces(q, c)
    <2>1. Query!Joined(q, kv) = r
        BY <1>3 DEF Query!Joined, c
    <2>2. kvs \in Seq(Text) /\ Query!Pieces(r, c) = Append(kvs, kv)
        BY <1>1, OneMorePiece DEF c
    <2>3. r \in Text /\ r # <<>>
        <3>1. r \in Text /\ Len(r) = Len(q) + 1 + Len(kv)
            BY <1>1, JoinIs
        <3>2. Len(q) \in Nat /\ Len(kv) \in Nat /\ Len(<<>>) = 0
            BY DEF Text
        <3> HIDE DEF r
        <3>3. QED
            BY <3>1, <3>2
    <2> HIDE DEF r, kvs
    <2>4. /\ Append(kvs, kv) \in Seq(Text) /\ Len(kvs) \in Nat
          /\ Len(Append(kvs, kv)) = Len(kvs) + 1
          /\ Append(kvs, kv)[Len(kvs) + 1] = kv
          /\ \A i \in 1..Len(kvs) : Append(kvs, kv)[i] = kvs[i]
        BY <2>2
    <2>5. PICK A : Adding(kvs, A) /\ Query!UrlQuery(q) = A[Len(kvs)]
        BY <1>3, <2>2, QueryIs DEF kvs, c
    <2>6. PICK B : Adding(Append(kvs, kv), B) /\ Query!UrlQuery(r) = B[Len(kvs) + 1]
        BY <2>2, <2>3, <2>4, QueryIs DEF c
    <2> DEFINE N == Len(kvs)
               Same == {n \in Nat : n <= N => A[n] = B[n]}
    <2>7. 0 \in Same
        BY <2>5, <2>6 DEF Adding
    <2>8. ASSUME NEW n \in Nat, n \in Same PROVE n + 1 \in Same
        <3>1. CASE n + 1 <= N
            <4>1. n + 1 \in 1..N /\ n + 1 \in 1..Len(Append(kvs, kv)) /\ (n + 1) - 1 = n
                BY <2>4, <3>1
            <4>2. A[n + 1] = Query!AddPair(A[n], kvs[n + 1])
                BY <2>5, <4>1 DEF Adding
            <4>3. B[n + 1] = Query!AddPair(B[n], kvs[n + 1])
                BY <2>4, <2>6, <4>1 DEF Adding
            <4>4. QED
                BY <2>8, <3>1, <4>2, <4>3
        <3>2. QED
            BY <3>1
    <2>9. N \in Same
        <3> HIDE DEF Same
        <3> QED
            BY <2>4, <2>7, <2>8, EveryNatural
    <2>10. A[N] = B[N]
        BY <2>4, <2>9
    <2>11. B[N + 1] = Query!AddPair(B[N], kv)
        <3>1. N + 1 \in 1..Len(Append(kvs, kv)) /\ (N + 1) - 1 = N
            BY <2>4
        <3>2. QED
            BY <2>4, <2>6, <3>1 DEF Adding
    <2>12. Query!UrlQuery(q) \in Queries
        BY <2>4, <2>5 DEF Adding
    <2>13. QED
        BY <2>1, <2>3, <2>5, <2>6, <2>10, <2>11, <2>12
<1>4. QED
    BY <1>2, <1>3

\* SplitKeyValue takes a pair apart where it was put together.
LEMMA SplitIs ==
    ASSUME NEW q \in Queries, NEW key \in Text, NEW value \in Text, key # <<>>,
           Lacks(key, Query!Equals)
    PROVE  Query!AddPair(q, Query!KeyValue(key, value)) = Query!Add(q, key, value)
<1> DEFINE kv == key \o <<Query!Equals>> \o value
           m == Len(key) + 1
<1>0. Query!Equals \in Byte
    BY DEF Query!Equals, Byte
<1>1. /\ kv \in Text /\ Len(kv) = Len(key) + 1 + Len(value)
      /\ \A k \in 1..Len(key) : kv[k] = key[k]
      /\ kv[Len(key) + 1] = Query!Equals
      /\ \A k \in 1..Len(value) : kv[Len(key) + 1 + k] = value[k]
    BY <1>0, JoinIs
<1>2. Query!KeyValue(key, value) = kv
    BY DEF Query!KeyValue
<1> HIDE DEF kv
<1>3. Len(key) \in Nat /\ Len(value) \in Nat /\ Len(key) # 0
    BY DEF Text
<1>4. /\ m \in 1..Len(kv) /\ m \in 1..Len(kv) + 1 /\ m + 1 \in 1..Len(kv) + 1
      /\ m \notin {0, 1} /\ m - 1 = Len(key)
    BY <1>1, <1>3
<1>5. Query!Find(kv, <<Query!Equals>>) = m
    <2>1. \A k \in 1..m - 1 : kv[k] # Query!Equals
        BY <1>1, <1>4 DEF Lacks
    <2>2. QED
        BY <1>0, <1>1, <1>4, <2>1, FindAt
<1>6. Query!Before(kv, m) = key
    <2>1. /\ Query!Before(kv, m) \in Text /\ Len(Query!Before(kv, m)) = m - 1
          /\ \A k \in 1..m - 1 : Query!Before(kv, m)[k] = kv[k]
        BY <1>1, <1>4, BeforeIs
    <2>2. QED
        BY <1>1, <1>4, <2>1, SameText DEF Text
<1>7. Query!From(kv, m + 1) = value
    <2>1. Len(kv) - (m + 1) + 1 = Len(value) /\ \A k \in 1..Len(value) : m + 1 + k - 1 = m + k
        BY <1>1, <1>3
    <2>2. /\ Query!From(kv, m + 1) \in Text /\ Len(Query!From(kv, m + 1)) = Len(value)
          /\ \A k \in 1..Len(value) : Query!From(kv, m + 1)[k] = kv[m + 1 + k - 1]
        <3>1. PICK n \in 1..Len(kv) + 1 : n = m + 1
            BY <1>4
        <3>2. /\ Query!From(kv, n) \in Text /\ Len(Query!From(kv, n)) = Len(kv) - n + 1
              /\ \A k \in 1..Len(kv) - n + 1 : Query!From(kv, n)[k] = kv[n + k - 1]
            BY <1>1, FromIs
        <3>3. QED
            BY <2>1, <3>1, <3>2
    <2>3. \A k \in 1..Len(value) : Query!From(kv, m + 1)[k] = value[k]
        BY <1>1, <2>1, <2>2
    <2>4. QED
        BY <2>2, <2>3, SameText DEF Text
<1>8. QED
    BY <1>2, <1>4, <1>5, <1>6, <1>7 DEF Query!AddPair

-----------------------------------------------------------------------------
\* Decode, from any place of the text on.
Put(c, t) == IF t = Query!Invalid THEN t ELSE <<c>> \o t
DecodedAt(s, i, at) ==
    IF i > Len(s) THEN <<>>
    ELSE IF s[i] = Query!Percent
    THEN IF i + 2 > Len(s) THEN Query!Invalid
         ELSE IF -1 \in {Query!HexToDecimal(s[i + 1]), Query!HexToDecimal(s[i + 2])}
         THEN Query!Invalid
         ELSE Put(16 * Query!HexToDecimal(s[i + 1]) + Query!HexToDecimal(s[i + 2]), at[i + 3])
    ELSE IF s[i] > 127 THEN Query!Invalid
    ELSE Put(s[i], at[i + 1])
Decoded == Text \cup {Query!Invalid}
Decoding(s, at) ==
    /\ at \in [1..Len(s) + 1 -> Decoded]
    /\ \A i \in 1..Len(s) + 1 : at[i] = DecodedAt(s, i, at)

LEMMA HexIs ==
    /\ \A c \in Byte : Query!HexToDecimal(c) \in -1..15
    /\ \A n \in 0..15 : Query!Hex(n) \in Byte /\ Query!HexToDecimal(Query!Hex(n)) = n
BY DEF Byte, Query!HexToDecimal, Query!Hex

LEMMA NotInvalid == Query!Invalid \notin Text
<1>1. Len(Query!Invalid) = 1 /\ Query!Invalid[1] = -1
    BY DEF Query!Invalid
<1>2. ASSUME Query!Invalid \in Text PROVE FALSE
    <2>1. PICK t \in Text : t = Query!Invalid
        BY <1>2
    <2>2. t[1] \in Byte
        BY <1>1, <2>1 DEF Text
    <2>3. QED
        BY <1>1, <2>1, <2>2 DEF Byte
<1>3. QED
    BY <1>2

LEMMA PutIs ==
    ASSUME NEW c \in Byte, NEW t \in Decoded
    PROVE  Put(c, t) \in Decoded
<1>1. CASE t \in Text
    <2>1. <<c>> \o t \in Text
        BY <1>1 DEF Text
    <2>2. QED
        BY <1>1, <2>1 DEF Put, Decoded
<1>2. CASE t = Query!Invalid
    BY <1>2 DEF Put, Decoded
<1>3. QED
    BY <1>1, <1>2 DEF Decoded

\* What is decoded at a place depends on what comes after it.
LEMMA DecodedAtIs ==
    ASSUME NEW s \in Text, NEW i \in 1..Len(s) + 1, NEW t \in [1..Len(s) + 1 -> Decoded]
    PROVE  /\ DecodedAt(s, i, t) \in Decoded
           /\ \A u : (\A k \in (i + 1)..Len(s) + 1 : t[k] = u[k])
                         => DecodedAt(s, i, t) = DecodedAt(s, i, u)
<1>0. Len(s) \in Nat /\ s \in Seq(Byte) /\ <<>> \in Decoded /\ Query!Invalid \in Decoded
    BY DEF Text, Decoded
<1>1. CASE i > Len(s)
    BY <1>0, <1>1 DEF DecodedAt
<1>2. CASE ~(i > Len(s)) /\ s[i] = Query!Percent
    <2>1. CASE i + 2 > Len(s)
        BY <1>0, <1>2, <2>1 DEF DecodedAt
    <2>2. CASE ~(i + 2 > Len(s))
        <3>0. i + 1 \in 1..Len(s) /\ i + 2 \in 1..Len(s) /\ i + 3 \in (i + 1)..Len(s) + 1
              /\ i + 3 \in 1..Len(s) + 1
            BY <1>0, <2>2
        <3>1. PICK h, l : h = Query!HexToDecimal(s[i + 1]) /\ l = Query!HexToDecimal(s[i + 2])
            OBVIOUS
        <3>2. h \in -1..15 /\ l \in -1..15
            <4>1. s[i + 1] \in Byte /\ s[i + 2] \in Byte
                BY <1>0, <3>0
            <4>2. QED
                BY <3>1, <4>1, HexIs
        <3>3. CASE h = -1 \/ l = -1
            BY <1>0, <1>2, <2>2, <3>1, <3>3 DEF DecodedAt
        <3>4. CASE ~(h = -1 \/ l = -1)
            <4>1. 16 * h + l \in Byte
                BY <3>2, <3>4 DEF Byte
            <4>2. \A u : DecodedAt(s, i, u) = Put(16 * h + l, u[i + 3])
                BY <1>2, <2>2, <3>1, <3>4 DEF DecodedAt
            <4>3. t[i + 3] \in Decoded
                BY <3>0
            <4>4. QED
                BY <3>0, <4>1, <4>2, <4>3, PutIs
        <3>5. QED
            BY <3>3, <3>4
    <2>3. QED
        BY <2>1, <2>2
<1>3. CASE ~(i > Len(s)) /\ s[i] # Query!Percent
    <2>1. CASE s[i] > 127
        BY <1>0, <1>3, <2>1 DEF DecodedAt
    <2>2. CASE ~(s[i] > 127)
        <3>1. i + 1 \in (i + 1)..Len(s) + 1 /\ i + 1 \in 1..Len(s) + 1 /\ i \in 1..Len(s)
            BY <1>0, <1>3
        <3>2. s[i] \in Byte /\ t[i + 1] \in Decoded
            BY <1>0, <3>1
        <3>3. \A u : DecodedAt(s, i, u) = Put(s[i], u[i + 1])
            BY <1>3, <2>2 DEF DecodedAt
        <3>4. QED
            BY <3>1, <3>2, <3>3, PutIs
    <2>3. QED
        BY <2>1, <2>2
<1>4. QED
    BY <1>1, <1>2, <1>3

LEMMA DecodeIs ==
    ASSUME NEW s \in Text
    PROVE  \E at : Decoding(s, at) /\ Query!Decode(s) = at[1]
<1> DEFINE N == Len(s) + 1
           F == [1..N -> Decoded]
           step == [i \in 1..N |-> [t \in F |-> DecodedAt(s, i, t)]]
           at == CHOOSE a : a = [i \in 1..N |-> DecodedAt(s, i, a)]
<1>1. Len(s) \in Nat /\ N \in Nat /\ <<>> \in Decoded
    BY DEF Text, Decoded
<1>2. Query!Decode(s) = at[1]
    BY DEF Query!Decode, DecodedAt, Put
<1>3. \A i \in 1..N : \A t \in F : DecodedAt(s, i, t) \in Decoded
    BY DecodedAtIs
<1>4. \A i \in 1..N : \A t \in F : \A u :
          (\A k \in (i + 1)..N : t[k] = u[k]) => DecodedAt(s, i, t) = DecodedAt(s, i, u)
    BY DecodedAtIs
<1>5. Ahead(step, N, Decoded)
    BY <1>3, <1>4 DEF Ahead
<1>6. PICK f : Solves(f, step, N, Decoded)
    <2> HIDE DEF step, N
    <2> QED
        BY <1>1, <1>5, Backward
<1>7. f \in F /\ f = [i \in 1..N |-> DecodedAt(s, i, f)]
    <2>1. f \in F /\ \A i \in 1..N : f[i] = step[i][f]
        BY <1>6 DEF Solves
    <2>2. QED
        BY <2>1
<1>8. at = [i \in 1..N |-> DecodedAt(s, i, at)]
    BY <1>7
<1> HIDE DEF at
<1> DEFINE T == {n \in Nat : \A i \in 1..N : i > N - n => f[i] = at[i]}
<1>9. 0 \in T
    BY <1>1
<1>10. ASSUME NEW n \in Nat, n \in T PROVE n + 1 \in T
    <2>1. ASSUME NEW i \in 1..N, i > N - (n + 1) PROVE f[i] = at[i]
        <3>1. at[i] = DecodedAt(s, i, at) /\ f[i] = DecodedAt(s, i, f)
            BY <1>7, <1>8
        <3>2. \A k \in (i + 1)..N : f[k] = at[k]
            BY <1>1, <1>10, <2>1
        <3>3. QED
            BY <1>4, <1>7, <3>1, <3>2
    <2>2. QED
        BY <2>1
<1>11. N \in T
    <2> HIDE DEF T
    <2> QED
        BY <1>1, <1>9, <1>10, EveryNatural
<1>12. \A i \in 1..N : f[i] = at[i]
    BY <1>1, <1>11
<1>13. at = f
    BY <1>7, <1>8, <1>12
<1>14. QED
    BY <1>2, <1>7, <1>8, <1>13 DEF Decoding

\* A text without percent signs decodes to itself, if to anything.
LEMMA DecodesToItself ==
    ASSUME NEW s \in Text, Lacks(s, Query!Percent)
    PROVE  Query!Decode(s) \in {s, Query!Invalid}
<1> DEFINE N == Len(s) + 1
<1>1. Len(s) \in Nat /\ N \in Nat /\ s \in Seq(Byte)
    BY DEF Text
<1>2. PICK at : Decoding(s, at) /\ Query!Decode(s) = at[1]
    BY DecodeIs
<1> DEFINE T == {n \in Nat : \A i \in 1..N :
                                 i > N - n => at[i] \in {Query!From(s, i), Query!Invalid}}
<1>3. 0 \in T
    BY <1>1
<1>4. ASSUME NEW n \in Nat, n \in T PROVE n + 1 \in T
    <2>1. ASSUME NEW i \in 1..N, i > N - (n + 1) PROVE at[i] \in {Query!From(s, i), Query!Invalid}
        <3>0. at[i] = DecodedAt(s, i, at)
            BY <1>2 DEF Decoding
        <3>1. CASE i > Len(s)
            <4>1. at[i] = <<>>
                BY <3>0, <3>1 DEF DecodedAt
            <4>2. Query!From(s, i) = <<>>
                BY <1>1, <3>1 DEF Query!From, Text
            <4>3. QED
                BY <4>1, <4>2
        <3>2. CASE ~(i > Len(s))
            <4>1. i \in 1..Len(s) /\ i + 1 \in 1..N /\ i + 1 > N - n
                BY <1>1, <2>1, <3>2
            <4>2. s[i] # Query!Percent
                BY <4>1 DEF Lacks
            <4>3. at[i + 1] \in {Query!From(s, i + 1), Query!Invalid}
                BY <1>4, <4>1
            <4>4. at[i] \in {Query!Invalid, Put(s[i], at[i + 1])}
                BY <3>0, <3>2, <4>2 DEF DecodedAt
            <4>5. <<s[i]>> \o Query!From(s, i + 1) = Query!From(s, i)
                BY <4>1, OneMore
            <4>6. Put(s[i], at[i + 1]) \in {Query!From(s, i), Query!Invalid}
                BY <4>3, <4>5 DEF Put
            <4>7. QED
                BY <4>4, <4>6
        <3>3. QED
            BY <3>1, <3>2
    <2>2. QED
        BY <2>1
<1>5. N \in T
    <2> HIDE DEF T
    <2> QED
        BY <1>1, <1>3, <1>4, EveryNatural
<1>6. at[1] \in {Query!From(s, 1), Query!Invalid}
    <2>1. 1 \in 1..N /\ 1 > N - N
        BY <1>1
    <2>2. QED
        BY <1>5, <2>1
<1>7. Query!From(s, 1) = s
    BY <1>1 DEF Query!From
<1>8. QED
    BY <1>2, <1>6, <1>7

-----------------------------------------------------------------------------
\* EncodeImpl, character after character.
Encoded(c, chars) ==
    IF c \in chars THEN <<Query!Percent, Query!Hex(c \div 16), Query!Hex(c % 16)>> ELSE <<c>>
Longer(t, c, chars) == t \o Encoded(c, chars)
Encoding(raw, chars, after) ==
    /\ after \in [0..Len(raw) -> Text] /\ after[0] = <<>>
    /\ \A i \in 1..Len(raw) : after[i] = Longer(after[i - 1], raw[i], chars)

\* The two digits of a character.
LEMMA DigitsIs ==
    ASSUME NEW c \in Byte
    PROVE  /\ Query!Hex(c \div 16) \in Byte /\ Query!Hex(c % 16) \in Byte
           /\ Query!HexToDecimal(Query!Hex(c \div 16)) = c \div 16
           /\ Query!HexToDecimal(Query!Hex(c % 16)) = c % 16
           /\ c \div 16 \in 0..15 /\ c % 16 \in 0..15 /\ 16 * (c \div 16) + (c % 16) = c
<1>0. c \in Int /\ 0 <= c /\ c <= 255
    BY DEF Byte
<1>1. c \div 16 \in 0..15 /\ c % 16 \in 0..15 /\ 16 * (c \div 16) + (c % 16) = c
    <2>1. c \div 16 \in Int /\ c % 16 \in Int
        BY <1>0
    <2>2. 16 * (c \div 16) + (c % 16) = c
        BY <1>0
    <2>3. c % 16 >= 0 /\ c % 16 <= 15
        BY <1>0
    <2>4. c \div 16 >= 0 /\ c \div 16 <= 15
        BY <1>0
    <2>5. QED
        BY <2>1, <2>2, <2>3, <2>4
<1>2. QED
    BY <1>1, HexIs

LEMMA EncodedIs ==
    ASSUME NEW c \in Byte, NEW chars
    PROVE  Encoded(c, chars) \in Text /\ Len(Encoded(c, chars)) >= 1
<1>1. CASE c \notin chars
    <2>1. <<c>> \in Text /\ Len(<<c>>) >= 1
        BY DEF Text
    <2>2. QED
        BY <1>1, <2>1 DEF Encoded
<1>2. CASE c \in chars
    <2>1. Query!Percent \in Byte
        BY DEF Query!Percent, Byte
    <2>2. PICK h \in Byte, l \in Byte : h = Query!Hex(c \div 16) /\ l = Query!Hex(c % 16)
        BY DigitsIs
    <2>3. PICK p \in Byte : p = Query!Percent
        BY <2>1
    <2>4. <<p, h, l>> \in Seq(Byte) /\ Len(<<p, h, l>>) >= 1
        OBVIOUS
    <2>5. Encoded(c, chars) = <<p, h, l>>
        BY <1>2, <2>2, <2>3 DEF Encoded
    <2>6. QED
        BY <2>4, <2>5 DEF Text
<1>3. QED
    BY <1>1, <1>2

LEMMA EncodeIs ==
    ASSUME NEW raw \in Text, NEW chars
    PROVE  \E after : Encoding(raw, chars, after) /\ Query!EncodeImpl(raw, chars) = after[Len(raw)]
<1> DEFINE N == Len(raw)
           step == [i \in 1..N |-> [t \in Text |-> Longer(t, raw[i], chars)]]
           Loop(g) == [n \in 0..N |-> IF n = 0 THEN <<>> ELSE Longer(g[n - 1], raw[n], chars)]
           after == CHOOSE g : g = Loop(g)
<1>1. N \in Nat /\ <<>> \in Text /\ raw \in Seq(Byte)
    BY DEF Text
<1>2. Query!EncodeImpl(raw, chars) = after[N]
    BY DEF Query!EncodeImpl, Encoded, Longer
<1>3. step \in [1..N -> [Text -> Text]]
    <2>1. ASSUME NEW i \in 1..N, NEW t \in Text PROVE Longer(t, raw[i], chars) \in Text
        <3>1. raw[i] \in Byte
            BY <1>1
        <3>2. PICK u \in Text : u = Encoded(raw[i], chars)
            BY <3>1, EncodedIs
        <3>3. t \o u \in Text
            BY DEF Text
        <3>4. QED
            BY <3>2, <3>3 DEF Longer
    <2>2. QED
        BY <2>1
<1>4. PICK f \in [0..N -> Text] : f[0] = <<>> /\ \A i \in 1..N : f[i] = step[i][f[i - 1]]
    <2>1. Steps(step, N, Text)
        BY <1>3 DEF Steps
    <2> HIDE DEF step, N
    <2>2. PICK f : Runs(f, <<>>, step, N, Text)
        BY <1>1, <2>1, Iterated
    <2>3. QED
        BY <2>2 DEF Runs
<1>5. \A i \in 1..N : f[i] = Longer(f[i - 1], raw[i], chars)
    <2> SUFFICES ASSUME NEW i \in 1..N PROVE f[i] = Longer(f[i - 1], raw[i], chars)
        OBVIOUS
    <2>1. f[i - 1] \in Text
        BY <1>4
    <2>2. QED
        BY <1>4, <2>1
<1>6. f = Loop(f)
    BY <1>1, <1>4, <1>5
<1>7. after = Loop(after)
    BY <1>6
<1> HIDE DEF after
<1> DEFINE Same == {n \in Nat : n <= N => after[n] = f[n]}
<1>8. 0 \in Same
    BY <1>1, <1>4, <1>7
<1>9. ASSUME NEW n \in Nat, n \in Same PROVE n + 1 \in Same
    <2>1. CASE n + 1 <= N
        <3>1. n + 1 \in 1..N /\ n + 1 \in 0..N /\ (n + 1) - 1 = n /\ n + 1 # 0
            BY <1>1, <2>1
        <3>2. after[n + 1] = Longer(after[n], raw[n + 1], chars)
            BY <1>7, <3>1
        <3>3. f[n + 1] = Longer(f[n], raw[n + 1], chars)
            BY <1>5, <3>1
        <3>4. after[n] = f[n]
            BY <1>1, <1>9, <2>1
        <3>5. QED
            BY <3>2, <3>3, <3>4
    <2>2. QED
        BY <2>1
<1>10. after[N] = f[N]
    <2>1. N \in Same
        <3> HIDE DEF Same
        <3> QED
            BY <1>1, <1>8, <1>9, EveryNatural
    <2>2. QED
        BY <2>1
<1>11. Encoding(raw, chars, f)
    BY <1>4, <1>5 DEF Encoding
<1>12. QED
    BY <1>2, <1>10, <1>11

\* The characters that must be encoded for the text to be decoded again.
Guarded(chars) == Query!Percent \in chars /\ \A c \in Byte : c > 127 => c \in chars

\* A text s that has e at a place.
WrittenAt(s, p, e) ==
    /\ p \in 1..Len(s) /\ p + Len(e) \in 1..Len(s) + 1
    /\ \A k \in 1..Len(e) : s[p + k - 1] = e[k]

\* What was written for one character is read as that character.
LEMMA DecodesOne ==
    ASSUME NEW s \in Text, NEW at, Decoding(s, at), NEW chars, Guarded(chars),
           NEW c \in Byte, NEW e, e = Encoded(c, chars), NEW p, WrittenAt(s, p, e),
           at[p + Len(e)] \in Text
    PROVE  at[p] = <<c>> \o at[p + Len(e)]
<1>0. /\ Len(s) \in Nat /\ p \in 1..Len(s) /\ p + Len(e) \in 1..Len(s) + 1
      /\ \A k \in 1..Len(e) : s[p + k - 1] = e[k]
    BY DEF Text, WrittenAt
<1>1. /\ p \in 1..Len(s) + 1 /\ ~(p > Len(s))
      /\ p + 1 - 1 = p /\ p + 2 - 1 = p + 1 /\ p + 3 - 1 = p + 2
    BY <1>0
<1>2. at[p] = DecodedAt(s, p, at)
    BY <1>1 DEF Decoding
<1>3. CASE c \in chars
    <2> DEFINE h == Query!Hex(c \div 16)
               l == Query!Hex(c % 16)
    <2>1. /\ Query!HexToDecimal(h) = c \div 16 /\ Query!HexToDecimal(l) = c % 16
          /\ c \div 16 \in 0..15 /\ c % 16 \in 0..15 /\ 16 * (c \div 16) + (c % 16) = c
        BY DigitsIs
    <2>2. e = <<Query!Percent, h, l>>
        BY <1>3 DEF Encoded
    <2> HIDE DEF h, l
    <2>3. Len(e) = 3 /\ e[1] = Query!Percent /\ e[2] = h /\ e[3] = l
        BY <2>2
    <2>4. s[p + 1 - 1] = Query!Percent /\ s[p + 2 - 1] = h /\ s[p + 3 - 1] = l
        BY <1>0, <2>3
    <2>5. s[p] = Query!Percent /\ s[p + 1] = h /\ s[p + 2] = l
        BY <1>1, <2>4
    <2>6. ~(p + 2 > Len(s))
        BY <1>0, <2>3
    <2>7. -1 \notin {Query!HexToDecimal(h), Query!HexToDecimal(l)}
        <3>1. Query!HexToDecimal(h) # -1 /\ Query!HexToDecimal(l) # -1
            BY <2>1
        <3>2. QED
            BY <3>1
    <2>8. at[p] = Put(16 * Query!HexToDecimal(h) + Query!HexToDecimal(l), at[p + 3])
        BY <1>1, <1>2, <2>5, <2>6, <2>7 DEF DecodedAt
    <2>9. 16 * Query!HexToDecimal(h) + Query!HexToDecimal(l) = c
        BY <2>1
    <2>10. at[p] = Put(c, at[p + Len(e)])
        BY <2>3, <2>8, <2>9
    <2>11. QED
        BY <2>10, NotInvalid DEF Put
<1>4. CASE c \notin chars
    <2>1. e = <<c>> /\ c # Query!Percent /\ ~(c > 127)
        BY <1>4 DEF Encoded, Guarded
    <2>2. Len(e) = 1 /\ e[1] = c
        BY <2>1
    <2>3. s[p + 1 - 1] = c
        BY <1>0, <2>2
    <2>4. s[p] = c
        BY <1>1, <2>3
    <2>5. at[p] = Put(c, at[p + 1])
        BY <1>1, <1>2, <2>1, <2>4 DEF DecodedAt
    <2>6. at[p] = Put(c, at[p + Len(e)])
        BY <2>2, <2>5
    <2>7. QED
        BY <2>6, NotInvalid DEF Put
<1>5. QED
    BY <1>3, <1>4

\* Decode undoes EncodeImpl when percent signs and what is not ASCII are encoded.
LEMMA RoundTrip ==
    ASSUME NEW raw \in Text, NEW chars, Guarded(chars)
    PROVE  Query!EncodeImpl(raw, chars) \in Text /\ Query!Decode(Query!EncodeImpl(raw, chars)) = raw
<1> DEFINE N == Len(raw)
<1>1. N \in Nat /\ raw \in Seq(Byte) /\ N \in 0..N
    BY DEF Text
<1>2. PICK after : Encoding(raw, chars, after) /\ Query!EncodeImpl(raw, chars) = after[N]
    BY EncodeIs
<1>3. \A n \in 0..N : after[n] \in Text
    BY <1>2 DEF Encoding
<1>4. PICK s \in Text : s = after[N]
    BY <1>1, <1>3
<1>5. PICK at : Decoding(s, at) /\ Query!Decode(s) = at[1]
    BY DecodeIs
<1> DEFINE SameUpTo(n) == Len(after[n]) <= Len(s) /\ \A k \in 1..Len(after[n]) : s[k] = after[n][k]
           Back(n) == at[Len(after[n]) + 1] = Query!From(raw, n + 1)
           T == {d \in Nat : d <= N => SameUpTo(N - d) /\ Back(N - d)}
<1>6. 0 \in T
    <2>1. N - 0 = N
        BY <1>1
    <2>2. Len(s) \in Nat
        BY DEF Text
    <2>3. SameUpTo(N)
        BY <1>4, <2>2
    <2>4. at[Len(s) + 1] = <<>>
        <3>1. Len(s) + 1 \in 1..Len(s) + 1 /\ Len(s) + 1 > Len(s)
            BY <2>2
        <3>2. QED
            BY <1>5, <3>1 DEF Decoding, DecodedAt
    <2>5. Query!From(raw, N + 1) = <<>>
        BY <1>1 DEF Query!From
    <2>6. Back(N)
        BY <1>4, <2>4, <2>5
    <2> HIDE DEF SameUpTo, Back
    <2>7. QED
        BY <2>1, <2>3, <2>6
<1>7. ASSUME NEW d \in Nat, d \in T PROVE d + 1 \in T
    <2>1. CASE d + 1 <= N
        <3>1. PICK n \in 1..N : n = N - d /\ n - 1 = N - (d + 1)
            BY <1>1, <2>1
        <3>2. n \in 0..N /\ n - 1 \in 0..N /\ d <= N
            BY <1>1, <2>1, <3>1
        <3>3. SameUpTo(n) /\ Back(n)
            <4> HIDE DEF SameUpTo, Back
            <4> QED
                BY <1>7, <3>1, <3>2
        <3>4. PICK c \in Byte : c = raw[n]
            BY <1>1
        <3>5. PICK e \in Text : e = Encoded(c, chars)
            BY EncodedIs
        <3>6. PICK a \in Text : a = after[n - 1]
            BY <1>3, <3>2
        <3>7. after[n] = a \o e
            BY <1>2, <3>4, <3>5, <3>6 DEF Encoding, Longer
        <3>8. /\ Len(a) \in Nat /\ Len(e) \in Nat /\ Len(s) \in Nat /\ Len(e) >= 1
            <4>1. Len(a) \in Nat /\ Len(e) \in Nat /\ Len(s) \in Nat
                BY DEF Text
            <4>2. Len(e) >= 1
                BY <3>5, EncodedIs
            <4>3. QED
                BY <4>1, <4>2
        <3>9. /\ Len(a \o e) = Len(a) + Len(e)
              /\ \A k \in 1..Len(a) : (a \o e)[k] = a[k]
              /\ \A k \in 1..Len(e) : (a \o e)[Len(a) + k] = e[k]
            BY ConcatIs DEF Text
        <3>10. /\ Len(a) + Len(e) <= Len(s)
               /\ \A k \in 1..Len(a) + Len(e) : s[k] = (a \o e)[k]
               /\ at[Len(a) + Len(e) + 1] = Query!From(raw, n + 1)
            BY <3>3, <3>7, <3>9
        <3>11. SameUpTo(n - 1)
            <4>1. \A k \in 1..Len(a) : k \in 1..Len(a) + Len(e)
                BY <3>8
            <4>2. \A k \in 1..Len(a) : s[k] = a[k]
                BY <3>9, <3>10, <4>1
            <4>3. Len(a) <= Len(s)
                BY <3>8, <3>10
            <4>4. QED
                BY <3>6, <4>2, <4>3
        <3>12. Back(n - 1)
            <4> DEFINE p == Len(a) + 1
            <4>1. /\ p \in 1..Len(s) /\ p + Len(e) \in 1..Len(s) + 1
                  /\ p + Len(e) = Len(a) + Len(e) + 1
                BY <3>8, <3>10
            <4>2. ASSUME NEW k \in 1..Len(e) PROVE s[p + k - 1] = e[k]
                <5>1. p + k - 1 = Len(a) + k /\ Len(a) + k \in 1..Len(a) + Len(e)
                    BY <3>8
                <5>2. QED
                    BY <3>9, <3>10, <5>1
            <4>3. at[p + Len(e)] = Query!From(raw, n + 1)
                BY <3>10, <4>1
            <4>4. Query!From(raw, n + 1) \in Text
                <5>1. n + 1 \in 1..Len(raw) + 1
                    BY <1>1
                <5>2. QED
                    BY <5>1, FromIs
            <4> HIDE DEF p
            <4>5. at[p] = <<c>> \o at[p + Len(e)]
                <5>1. WrittenAt(s, p, e)
                    BY <4>1, <4>2 DEF WrittenAt
                <5>2. at[p + Len(e)] \in Text
                    BY <4>3, <4>4
                <5>3. Decoding(s, at)
                    BY <1>5
                <5>4. QED
                    BY <3>5, <5>1, <5>2, <5>3, DecodesOne
            <4>6. <<raw[n]>> \o Query!From(raw, n + 1) = Query!From(raw, n)
                BY OneMore
            <4>7. at[p] = Query!From(raw, n)
                BY <3>4, <4>3, <4>5, <4>6
            <4>8. (n - 1) + 1 = n
                BY <3>2
            <4>9. QED
                BY <3>6, <4>7, <4>8 DEF p
        <3> HIDE DEF SameUpTo, Back
        <3>13. QED
            BY <3>1, <3>11, <3>12
    <2>2. QED
        BY <2>1
<1>8. Back(0)
    <2>1. N \in T
        <3> HIDE DEF T
        <3> QED
            BY <1>1, <1>6, <1>7, EveryNatural
    <2>2. N <= N /\ N - N = 0
        BY <1>1
    <2> HIDE DEF SameUpTo, Back
    <2>3. QED
        BY <2>1, <2>2
<1>9. at[1] = Query!From(raw, 1)
    <2>1. after[0] = <<>> /\ Len(<<>>) + 1 = 1
        BY <1>2 DEF Encoding
    <2>2. QED
        BY <1>8, <2>1
<1>10. Query!From(raw, 1) = raw
    BY <1>1 DEF Query!From
<1>11. QED
    BY <1>2, <1>4, <1>5, <1>9, <1>10

LEMMA QueryRoundTrip ==
    ASSUME NEW raw \in Text
    PROVE  Query!Decode(Query!EncodeQuery(raw)) = raw
<1>1. Guarded(Query!NoQueryChars \cup {Query!Percent, Query!Plus})
    <2>1. ASSUME NEW c \in Byte, c > 127 PROVE c \in Query!NoQueryChars
        <3>1. ~Query!IsQueryChar(c)
            BY <2>1 DEF Byte, Query!IsQueryChar, Query!IsPathChar, Query!IsUnreserved,
                        Query!IsAlphaNumeric, Query!SubDelimiter, Query!Ampersand, Query!Plus,
                        Query!Equals, Query!Percent, Query!Slash, Query!Colon, Query!Question
        <3>2. QED
            BY <3>1 DEF Byte, Query!NoQueryChars
    <2>2. QED
        BY <2>1 DEF Guarded
<1>2. QED
    BY <1>1, RoundTrip DEF Query!EncodeQuery

-----------------------------------------------------------------------------
\* A pair whose key and value the syntax of a query does not take apart.
Parted(key, value) ==
    /\ key # <<>> /\ Lacks(key, Query!Ampersand) /\ Lacks(key, Query!Equals)
    /\ Lacks(value, Query!Ampersand)

LEMMA KeyValueIs ==
    ASSUME NEW key \in Text, NEW value \in Text
    PROVE  /\ Query!KeyValue(key, value) \in Text /\ Query!KeyValue(key, value) # <<>>
           /\ Parted(key, value) => Lacks(Query!KeyValue(key, value), Query!Ampersand)
<1>1. Query!Equals \in Byte /\ Query!Equals # Query!Ampersand
    BY DEF Query!Equals, Query!Ampersand, Byte
<1> DEFINE kv == key \o <<Query!Equals>> \o value
<1>2. /\ kv \in Text /\ Len(kv) = Len(key) + 1 + Len(value)
      /\ \A k \in 1..Len(key) : kv[k] = key[k]
      /\ kv[Len(key) + 1] = Query!Equals
      /\ \A k \in 1..Len(value) : kv[Len(key) + 1 + k] = value[k]
    BY <1>1, JoinIs
<1>3. Query!KeyValue(key, value) = kv
    BY DEF Query!KeyValue
<1> HIDE DEF kv
<1>4. Len(key) \in Nat /\ Len(value) \in Nat
    BY DEF Text
<1>5. Len(kv) # 0
    BY <1>2, <1>4
<1>6. ASSUME Parted(key, value), NEW k \in 1..Len(kv) PROVE kv[k] # Query!Ampersand
    <2>1. CASE k <= Len(key)
        <3>1. k \in 1..Len(key)
            BY <1>4, <2>1
        <3>2. QED
            BY <1>2, <1>6, <3>1 DEF Parted, Lacks
    <2>2. CASE k = Len(key) + 1
        BY <1>1, <1>2, <2>2
    <2>3. CASE k > Len(key) + 1
        <3>1. PICK j \in 1..Len(value) : k = Len(key) + 1 + j
            <4>1. /\ k - (Len(key) + 1) \in 1..Len(value)
                  /\ k = Len(key) + 1 + (k - (Len(key) + 1))
                BY <1>2, <1>4, <2>3
            <4>2. QED
                BY <4>1
        <3>2. QED
            BY <1>2, <1>6, <3>1 DEF Parted, Lacks
    <2>4. QED
        BY <1>4, <2>1, <2>2, <2>3
<1>7. kv # <<>>
    BY <1>5
<1>8. QED
    BY <1>2, <1>3, <1>6, <1>7 DEF Lacks

LEMMA JoinedIs ==
    ASSUME NEW q \in Text, NEW kv \in Text
    PROVE  Query!Joined(q, kv) \in Text
<1>1. Query!Ampersand \in Byte
    BY DEF Query!Ampersand, Byte
<1>2. q \o <<Query!Ampersand>> \o kv \in Text
    BY <1>1, JoinIs
<1>3. QED
    BY <1>2 DEF Query!Joined

\* Joining a pair to the text of a query adds it to the query.
LEMMA QueryAdded ==
    ASSUME NEW q \in Text, NEW key \in Text, NEW value \in Text, Parted(key, value)
    PROVE  /\ Query!UrlQuery(q) \in Queries
           /\ Query!UrlQuery(Query!Joined(q, Query!KeyValue(key, value)))
                  = Query!Add(Query!UrlQuery(q), key, value)
<1>1. PICK kv \in Text : kv = Query!KeyValue(key, value) /\ kv # <<>> /\ Lacks(kv, Query!Ampersand)
    BY KeyValueIs
<1>2. /\ Query!UrlQuery(q) \in Queries
      /\ Query!UrlQuery(Query!Joined(q, kv)) = Query!AddPair(Query!UrlQuery(q), kv)
    BY <1>1, QueryJoined
<1>3. PICK p \in Queries : p = Query!UrlQuery(q)
    BY <1>2
<1>4. Query!AddPair(p, Query!KeyValue(key, value)) = Query!Add(p, key, value)
    BY SplitIs DEF Parted
<1>5. QED
    BY <1>1, <1>2, <1>3, <1>4

-----------------------------------------------------------------------------
\* UrlQuery::ToString, pair after pair.
NextPair(str, pair) == Query!Joined(str, Query!KeyValue(pair[1], pair[2]))
Writing(q, after) ==
    /\ after \in [0..Len(q) -> Text] /\ after[0] = <<>>
    /\ \A i \in 1..Len(q) : after[i] = NextPair(after[i - 1], q[i])

LEMMA ToStringIs ==
    ASSUME NEW q \in Queries
    PROVE  \E after : Writing(q, after) /\ Query!ToString(q) = Query!EncodeQuery(after[Len(q)])
<1> DEFINE N == Len(q)
           step == [i \in 1..N |-> [t \in Text |-> NextPair(t, q[i])]]
           Loop(g) == [n \in 0..N |-> IF n = 0 THEN <<>> ELSE NextPair(g[n - 1], q[n])]
           after == CHOOSE g : g = Loop(g)
<1>1. N \in Nat /\ <<>> \in Text /\ q \in Seq(Pairs)
    BY DEF Queries, Text
<1>2. Query!ToString(q) = Query!EncodeQuery(after[N])
    BY DEF Query!ToString, NextPair
<1>3. step \in [1..N -> [Text -> Text]]
    <2>1. ASSUME NEW i \in 1..N, NEW t \in Text PROVE NextPair(t, q[i]) \in Text
        <3>1. q[i] \in Pairs
            BY <1>1
        <3>2. q[i][1] \in Text /\ q[i][2] \in Text
            BY <3>1 DEF Pairs
        <3>3. Query!KeyValue(q[i][1], q[i][2]) \in Text
            BY <3>2, KeyValueIs
        <3>4. QED
            BY <3>3, JoinedIs DEF NextPair
    <2>2. QED
        BY <2>1
<1>4. PICK f \in [0..N -> Text] : f[0] = <<>> /\ \A i \in 1..N : f[i] = step[i][f[i - 1]]
    <2>1. Steps(step, N, Text)
        BY <1>3 DEF Steps
    <2> HIDE DEF step, N
    <2>2. PICK f : Runs(f, <<>>, step, N, Text)
        BY <1>1, <2>1, Iterated
    <2>3. QED
        BY <2>2 DEF Runs
<1>5. \A i \in 1..N : f[i] = NextPair(f[i - 1], q[i])
    <2> SUFFICES ASSUME NEW i \in 1..N PROVE f[i] = NextPair(f[i - 1], q[i])
        OBVIOUS
    <2>1. f[i - 1] \in Text
        BY <1>4
    <2>2. QED
        BY <1>4, <2>1
<1>6. f = Loop(f)
    BY <1>1, <1>4, <1>5
<1>7. after = Loop(after)
    BY <1>6
<1> HIDE DEF after
<1> DEFINE Same == {n \in Nat : n <= N => after[n] = f[n]}
<1>8. 0 \in Same
    BY <1>1, <1>4, <1>7
<1>9. ASSUME NEW n \in Nat, n \in Same PROVE n + 1 \in Same
    <2>1. CASE n + 1 <= N
        <3>1. n + 1 \in 1..N /\ n + 1 \in 0..N /\ (n + 1) - 1 = n /\ n + 1 # 0
            BY <1>1, <2>1
        <3>2. after[n + 1] = NextPair(after[n], q[n + 1])
            BY <1>7, <3>1
        <3>3. f[n + 1] = NextPair(f[n], q[n + 1])
            BY <1>5, <3>1
        <3>4. after[n] = f[n]
            BY <1>1, <1>9, <2>1
        <3>5. QED
            BY <3>2, <3>3, <3>4
    <2>2. QED
        BY <2>1
<1>10. after[N] = f[N]
    <2>1. N \in Same
        <3> HIDE DEF Same
        <3> QED
            BY <1>1, <1>8, <1>9, EveryNatural
    <2>2. QED
        BY <2>1
<1>11. Writing(q, f)
    BY <1>4, <1>5 DEF Writing
<1>12. QED
    BY <1>2, <1>10, <1>11

\* Parameters with a key each.
Distinct(q) == \A i, j \in 1..Len(q) : q[i][1] = q[j][1] => i = j

\* What ToString wrote and the receiver decoded is read as the same parameters.
LEMMA ReadBack ==
    ASSUME NEW q \in Queries, Distinct(q), \A i \in 1..Len(q) : Parted(q[i][1], q[i][2])
    PROVE  Query!UrlQuery(Query!Decode(Query!ToString(q))) = q
<1> DEFINE N == Len(q)
<1>1. N \in Nat /\ q \in Seq(Pairs)
    BY DEF Queries
<1>2. PICK after : Writing(q, after) /\ Query!ToString(q) = Query!EncodeQuery(after[N])
    BY ToStringIs
<1>3. \A n \in 0..N : after[n] \in Text
    BY <1>2 DEF Writing
<1> DEFINE T == {n \in Nat : n <= N => Query!UrlQuery(after[n]) = SubSeq(q, 1, n)}
<1>4. 0 \in T
    <2>1. after[0] = <<>>
        BY <1>2 DEF Writing
    <2>2. Query!UrlQuery(<<>>) = <<>>
        BY DEF Query!UrlQuery
    <2>3. SubSeq(q, 1, 0) = <<>>
        BY <1>1
    <2>4. QED
        BY <2>1, <2>2, <2>3
<1>5. ASSUME NEW n \in Nat, n \in T PROVE n + 1 \in T
    <2>1. CASE n + 1 <= N
        <3>1. n + 1 \in 1..N /\ n \in 0..N /\ (n + 1) - 1 = n
            BY <1>1, <2>1
        <3>2. PICK t \in Text : t = after[n]
            BY <1>3, <3>1
        <3>3. q[n + 1] \in Pairs
            BY <1>1, <3>1
        <3>4. PICK k \in Text, v \in Text : q[n + 1] = <<k, v>>
            BY <3>3 DEF Pairs
        <3>5. q[n + 1][1] = k /\ q[n + 1][2] = v
            BY <3>4
        <3>6. after[n + 1] = Query!Joined(t, Query!KeyValue(k, v))
            BY <1>2, <3>1, <3>2, <3>5 DEF Writing, NextPair
        <3>7. Parted(k, v)
            BY <3>1, <3>5
        <3>8. Query!UrlQuery(after[n + 1]) = Query!Add(Query!UrlQuery(t), k, v)
            BY <3>6, <3>7, QueryAdded
        <3>9. Query!UrlQuery(t) = SubSeq(q, 1, n)
            <4>1. n <= N
                BY <1>1, <2>1
            <4>2. QED
                BY <1>5, <3>2, <4>1
        <3>10. PICK r \in Queries : r = SubSeq(q, 1, n)
            <4>1. SubSeq(q, 1, n) \in Seq(Pairs)
                BY <1>1, <3>1
            <4>2. QED
                BY <4>1 DEF Queries
        <3>11. Len(r) = n /\ \A i \in 1..n : r[i] = q[i] /\ i \in 1..N /\ i # n + 1
            BY <1>1, <3>1, <3>10
        <3>12. ~Query!Has(r, k)
            <4>1. ASSUME NEW i \in 1..Len(r) PROVE r[i][1] # k
                <5>1. r[i] = q[i] /\ i \in 1..N /\ i # n + 1
                    BY <3>11
                <5>2. q[i][1] # q[n + 1][1]
                    BY <3>1, <5>1 DEF Distinct
                <5>3. QED
                    BY <3>5, <5>1, <5>2
            <4>2. QED
                BY <4>1 DEF Query!Has
        <3>13. Query!Add(r, k, v) = Append(r, <<k, v>>)
            BY <3>12 DEF Query!Add
        <3>14. SubSeq(q, 1, n + 1) = Append(SubSeq(q, 1, n), q[n + 1])
            BY <1>1, <3>1
        <3>15. Query!UrlQuery(after[n + 1]) = SubSeq(q, 1, n + 1)
            BY <3>4, <3>8, <3>9, <3>10, <3>13, <3>14, Zenon
        <3>16. QED
            BY <3>15
    <2>2. QED
        BY <2>1
<1>6. Query!UrlQuery(after[N]) = SubSeq(q, 1, N)
    <2>1. N \in T
        <3> HIDE DEF T
        <3> QED
            BY <1>1, <1>4, <1>5, EveryNatural
    <2>2. QED
        BY <1>1, <2>1
<1>7. SubSeq(q, 1, N) = q
    BY <1>1
<1>8. after[N] \in Text
    BY <1>1, <1>3
<1>9. Query!Decode(Query!EncodeQuery(after[N])) = after[N]
    BY <1>8, QueryRoundTrip
<1>10. QED
    BY <1>2, <1>6, <1>7, <1>9

-----------------------------------------------------------------------------
\* UrlQuery::Find gives a place that has the key.
LEMMA FindKeyIs ==
    ASSUME NEW q \in Queries, NEW key, Query!Has(q, key)
    PROVE  Query!FindKey(q, key) \in 1..Len(q) /\ q[Query!FindKey(q, key)][1] = key
<1> DEFINE places == {i \in 1..Len(q) : q[i][1] = key}
<1>1. places # {} /\ places \in SUBSET Nat
    BY DEF Query!Has
<1>2. Query!FindKey(q, key) = Query!S!Min(places)
    BY DEF Query!FindKey
<1>3. \E m \in places : \A n \in places : m <= n
    <2> HIDE DEF places
    <2> QED
        BY <1>1, LeastNatural
<1>4. Query!FindKey(q, key) \in places
    <2> HIDE DEF places
    <2> QED
        BY <1>2, <1>3 DEF Query!S!Min
<1>5. QED
    BY <1>4

\* UrlQuery::Remove leaves the other parameters in their order.
LEMMA RemoveIs ==
    ASSUME NEW X, NEW q \in Seq(X), NEW i \in 1..Len(q)
    PROVE  LET r == Query!Erase(q, i) IN
           /\ r \in Seq(X) /\ Len(r) = Len(q) - 1
           /\ \A j \in 1..Len(r) : r[j] = q[IF j < i THEN j ELSE j + 1]
<1>0. Len(q) \in Nat
    OBVIOUS
<1>1. PICK s \in Seq(X) : s = SubSeq(q, 1, i - 1)
    <2>1. SubSeq(q, 1, i - 1) \in Seq(X)
        BY <1>0
    <2>2. QED
        BY <2>1
<1>2. PICK t \in Seq(X) : t = SubSeq(q, i + 1, Len(q))
    <2>1. SubSeq(q, i + 1, Len(q)) \in Seq(X)
        BY <1>0
    <2>2. QED
        BY <2>1
<1>3. Len(s) = i - 1 /\ \A j \in 1..i - 1 : s[j] = q[j]
    BY <1>0, <1>1
<1>4. Len(t) = Len(q) - i /\ \A j \in 1..Len(q) - i : t[j] = q[i + j]
    BY <1>0, <1>2
<1>5. Query!Erase(q, i) = s \o t
    BY <1>1, <1>2 DEF Query!Erase, Query!Before, Query!From
<1>6. /\ s \o t \in Seq(X) /\ Len(s \o t) = Len(s) + Len(t)
      /\ \A k \in 1..Len(s) : (s \o t)[k] = s[k]
      /\ \A k \in 1..Len(t) : (s \o t)[Len(s) + k] = t[k]
    BY ConcatIs
<1>7. Len(s \o t) = Len(q) - 1
    BY <1>0, <1>3, <1>4, <1>6
<1>8. ASSUME NEW j \in 1..Len(q) - 1 PROVE (s \o t)[j] = q[IF j < i THEN j ELSE j + 1]
    <2>1. CASE j < i
        <3>1. j \in 1..i - 1
            BY <1>0, <2>1
        <3>2. QED
            BY <1>3, <1>6, <2>1, <3>1
    <2>2. CASE ~(j < i)
        <3>1. PICK k \in 1..Len(q) - i : j = (i - 1) + k
            <4>1. j - (i - 1) \in 1..Len(q) - i /\ j = (i - 1) + (j - (i - 1))
                BY <1>0, <2>2
            <4>2. QED
                BY <4>1
        <3>2. (s \o t)[(i - 1) + k] = t[k]
            BY <1>3, <1>4, <1>6
        <3>3. i + k = j + 1
            BY <3>1
        <3>4. QED
            BY <1>4, <2>2, <3>1, <3>2, <3>3
    <2>3. QED
        BY <2>1, <2>2
<1>9. QED
    BY <1>5, <1>6, <1>7, <1>8

\* What is not yet set is no text.
LEMMA NotAbsent == Query!Absent \notin Text
BY NotInvalid DEF Query!Absent, Query!Invalid

\* The object holds a parameter for each key that was added since it was last
\* removed, once, with the value that was added first.
QueryType == /\ parameters \in Queries
             /\ first \in [QueryKeys -> Text \cup {Query!Absent}]
OncePerKey == Distinct(parameters)
AsFirstAdded ==
    /\ \A i \in 1..Len(parameters) :
           parameters[i][1] \in QueryKeys /\ first[parameters[i][1]] = parameters[i][2]
    /\ \A k \in QueryKeys : first[k] # Query!Absent => Query!Has(parameters, k)
QueryInv == QueryType /\ OncePerKey /\ AsFirstAdded

LEMMA QueryInit == Query!Init => QueryInv
<1> SUFFICES ASSUME Query!Init PROVE QueryInv
    OBVIOUS
<1>1. parameters = <<>> /\ first = [k \in QueryKeys |-> Query!Absent]
    BY DEF Query!Init
<1>2. parameters \in Queries /\ Len(parameters) = 0
    BY <1>1 DEF Queries
<1>3. \A i \in 1..Len(parameters) : FALSE
    BY <1>2
<1>4. QED
    BY <1>1, <1>2, <1>3 DEF QueryInv, QueryType, OncePerKey, AsFirstAdded, Distinct

LEMMA AddStep ==
    ASSUME NEW k \in QueryKeys, NEW v \in QueryValues, QueryInv, Query!CallAdd(k, v)
    PROVE  QueryInv'
<1> DEFINE q == parameters
           N == Len(parameters)
<1>1. /\ q \in Seq(Pairs) /\ N \in Nat
      /\ first \in [QueryKeys -> Text \cup {Query!Absent}]
    BY DEF QueryInv, QueryType, Queries
<1>2. k \in Text /\ v \in Text
    BY TextAssumption DEF Text, Byte
<1>3. /\ parameters' = IF Query!Has(q, k) THEN q ELSE Append(q, <<k, v>>)
      /\ first' = [first EXCEPT ![k] = IF first[k] = Query!Absent THEN v ELSE first[k]]
    BY DEF Query!CallAdd, Query!Add
<1>4. CASE Query!Has(q, k)
    <2>1. PICK i \in 1..N : q[i][1] = k
        BY <1>4 DEF Query!Has
    <2>2. first[k] = q[i][2] /\ q[i] \in Pairs
        BY <1>1, <2>1 DEF QueryInv, AsFirstAdded
    <2>3. first[k] # Query!Absent
        BY <2>2, NotAbsent DEF Pairs
    <2>4. parameters' = parameters /\ first' = first
        BY <1>1, <1>3, <1>4, <2>3
    <2>5. QED
        BY <2>4 DEF QueryInv, QueryType, OncePerKey, AsFirstAdded
<1>5. CASE ~Query!Has(q, k)
    <2>1. first[k] = Query!Absent
        BY <1>5 DEF QueryInv, AsFirstAdded
    <2>2. /\ first' \in [QueryKeys -> Text \cup {Query!Absent}] /\ first'[k] = v
          /\ \A l \in QueryKeys : l # k => first'[l] = first[l]
        BY <1>1, <1>2, <1>3, <2>1
    <2>3. <<k, v>> \in Pairs
        BY <1>2 DEF Pairs
    <2>4. PICK r \in Seq(Pairs) : r = Append(q, <<k, v>>)
        <3>1. Append(q, <<k, v>>) \in Seq(Pairs)
            BY <1>1, <2>3
        <3>2. QED
            BY <3>1
    <2>5. parameters' = r
        BY <1>3, <1>5, <2>4
    <2>6. Len(r) = N + 1 /\ r[N + 1] = <<k, v>> /\ \A i \in 1..N : r[i] = q[i]
        BY <1>1, <2>3, <2>4
    <2>7. \A i \in 1..N : /\ r[i] = q[i] /\ q[i][1] \in QueryKeys
                           /\ q[i][1] # k /\ first'[q[i][1]] = q[i][2]
        BY <1>5, <2>2, <2>6 DEF QueryInv, AsFirstAdded, Query!Has
    <2>8. r[N + 1][1] = k /\ r[N + 1][2] = v
        BY <2>6
    <2>9. \A i \in 1..N + 1 : i = N + 1 \/ i \in 1..N
        BY <1>1
    <2>10. Distinct(r)
        <3>1. \A i, j \in 1..N : q[i][1] = q[j][1] => i = j
            BY DEF QueryInv, OncePerKey, Distinct
        <3>2. QED
            BY <2>6, <2>7, <2>8, <2>9, <3>1 DEF Distinct
    <2>11. \A i \in 1..Len(r) : r[i][1] \in QueryKeys /\ first'[r[i][1]] = r[i][2]
        BY <2>2, <2>6, <2>7, <2>8, <2>9
    <2>12. ASSUME NEW l \in QueryKeys, first'[l] # Query!Absent PROVE Query!Has(r, l)
        <3>1. N + 1 \in 1..Len(r) /\ \A i \in 1..N : i \in 1..Len(r)
            BY <1>1, <2>6
        <3>2. CASE l = k
            BY <2>8, <3>1, <3>2 DEF Query!Has
        <3>3. CASE l # k
            <4>1. Query!Has(q, l)
                BY <2>2, <2>12, <3>3 DEF QueryInv, AsFirstAdded
            <4>2. PICK i \in 1..N : q[i][1] = l
                BY <4>1 DEF Query!Has
            <4>3. QED
                BY <2>6, <3>1, <4>2 DEF Query!Has
        <3>4. QED
            BY <3>2, <3>3
    <2>13. QED
        BY <2>2, <2>5, <2>10, <2>11, <2>12
           DEF QueryInv, QueryType, OncePerKey, AsFirstAdded, Queries
<1>6. QED
    BY <1>4, <1>5

LEMMA RemoveStep ==
    ASSUME NEW k \in QueryKeys, QueryInv, Query!CallRemove(k)
    PROVE  QueryInv'
<1> DEFINE q == parameters
           N == Len(parameters)
<1>1. /\ q \in Seq(Pairs) /\ N \in Nat
      /\ first \in [QueryKeys -> Text \cup {Query!Absent}]
    BY DEF QueryInv, QueryType, Queries
<1>2. /\ first' \in [QueryKeys -> Text \cup {Query!Absent}] /\ first'[k] = Query!Absent
      /\ \A l \in QueryKeys : l # k => first'[l] = first[l]
    BY <1>1 DEF Query!CallRemove
<1>3. CASE ~Query!Has(q, k)
    <2>1. parameters' = q
        BY <1>3 DEF Query!CallRemove, Query!Remove
    <2>2. \A i \in 1..N : q[i][1] \in QueryKeys /\ first'[q[i][1]] = q[i][2]
        BY <1>2, <1>3 DEF QueryInv, AsFirstAdded, Query!Has
    <2>3. \A l \in QueryKeys : first'[l] # Query!Absent => Query!Has(q, l)
        BY <1>2 DEF QueryInv, AsFirstAdded
    <2>4. QED
        BY <1>2, <2>1, <2>2, <2>3 DEF QueryInv, QueryType, OncePerKey, AsFirstAdded
<1>4. CASE Query!Has(q, k)
    <2>1. PICK m \in 1..N : m = Query!FindKey(q, k) /\ q[m][1] = k
        BY <1>1, <1>4, FindKeyIs DEF Queries
    <2>2. PICK r : r = Query!Erase(q, m)
        OBVIOUS
    <2>3. parameters' = r
        BY <1>4, <2>1, <2>2 DEF Query!CallRemove, Query!Remove
    <2>4. /\ r \in Seq(Pairs) /\ Len(r) = N - 1
          /\ \A j \in 1..Len(r) : r[j] = q[IF j < m THEN j ELSE j + 1]
        BY <1>1, <2>2, RemoveIs
    <2> DEFINE was(j) == IF j < m THEN j ELSE j + 1
    <2>5. /\ \A j \in 1..Len(r) : was(j) \in 1..N /\ was(j) # m
          /\ \A i, j \in 1..Len(r) : was(i) = was(j) => i = j
          /\ \A i \in 1..N : i # m => \E j \in 1..Len(r) : was(j) = i
        <3>1. \A j \in 1..N - 1 : was(j) \in 1..N /\ was(j) # m
            BY <1>1
        <3>2. \A i, j \in 1..N - 1 : was(i) = was(j) => i = j
            BY <1>1
        <3>3. ASSUME NEW i \in 1..N, i # m PROVE \E j \in 1..N - 1 : was(j) = i
            <4>1. CASE i < m
                <5>1. i \in 1..N - 1 /\ was(i) = i
                    BY <1>1, <4>1
                <5>2. QED
                    BY <5>1
            <4>2. CASE ~(i < m)
                <5>1. i - 1 \in 1..N - 1 /\ was(i - 1) = i
                    BY <1>1, <3>3, <4>2
                <5>2. QED
                    BY <5>1
            <4>3. QED
                BY <4>1, <4>2
        <3>4. QED
            BY <2>4, <3>1, <3>2, <3>3
    <2>6. \A j \in 1..Len(r) : r[j] = q[was(j)]
        BY <2>4
    <2> HIDE DEF was
    <2>7. \A i, j \in 1..N : q[i][1] = q[j][1] => i = j
        BY DEF QueryInv, OncePerKey, Distinct
    <2>8. Distinct(r)
        BY <2>5, <2>6, <2>7 DEF Distinct
    <2>9. \A j \in 1..Len(r) : r[j][1] \in QueryKeys /\ r[j][1] # k /\ first[r[j][1]] = r[j][2]
        BY <2>1, <2>5, <2>6, <2>7 DEF QueryInv, AsFirstAdded
    <2>10. \A j \in 1..Len(r) : r[j][1] \in QueryKeys /\ first'[r[j][1]] = r[j][2]
        BY <1>2, <2>9
    <2>11. ASSUME NEW l \in QueryKeys, first'[l] # Query!Absent PROVE Query!Has(r, l)
        <3>1. l # k /\ first[l] # Query!Absent
            BY <1>2, <2>11
        <3>2. PICK i \in 1..N : q[i][1] = l
            BY <3>1 DEF QueryInv, AsFirstAdded, Query!Has
        <3>3. i # m
            BY <2>1, <3>1, <3>2
        <3>4. PICK j \in 1..Len(r) : was(j) = i
            BY <2>5, <3>3
        <3>5. QED
            BY <2>6, <3>2, <3>4 DEF Query!Has
    <2>12. QED
        BY <1>2, <2>3, <2>4, <2>8, <2>10, <2>11
           DEF QueryInv, QueryType, OncePerKey, AsFirstAdded, Queries
<1>5. QED
    BY <1>3, <1>4

LEMMA QueryInvariant == Spec => []QueryInv
<1>1. Init => QueryInv
    BY QueryInit DEF Init
<1>2. QueryInv /\ [Next]_vars => QueryInv'
    <2> SUFFICES ASSUME QueryInv, [Query!Next]_Query!vars PROVE QueryInv'
        BY PartSteps
    <2>1. CASE Query!Next
        BY <2>1, AddStep, RemoveStep DEF Query!Next
    <2>2. CASE UNCHANGED Query!vars
        BY <2>2 DEF Query!vars, QueryInv, QueryType, OncePerKey, AsFirstAdded
    <2>3. QED
        BY <2>1, <2>2
<1>3. QED
    BY <1>1, <1>2, PTL DEF Spec

\* For any texts and any calls of Add and Remove: what UrlQuery::ToString writes is
\* decoded and read as the same parameters in the same order, whatever characters
\* they hold, if no key is empty and no separator is in a key or a value; and by key
\* it is the value added first since the key was last removed.
THEOREM QuerySafe == Spec => []ToStringIsRead
<1>1. QueryInv => ToStringIsRead
    <2> SUFFICES ASSUME QueryInv,
                        \A i \in 1..Len(parameters) :
                            /\ parameters[i][1] # <<>>
                            /\ Query!Whole(parameters[i][1], {Query!Ampersand, Query!Equals})
                            /\ Query!Whole(parameters[i][2], {Query!Ampersand}),
                        NEW read, read = Query!UrlQuery(Query!Decode(Query!ToString(parameters)))
                 PROVE  /\ read = parameters
                        /\ \A k \in QueryKeys :
                               /\ Query!Has(read, k) <=> first[k] # Query!Absent
                               /\ Query!Has(read, k) => Query!Get(read, k) = first[k]
        BY Zenon DEF ToStringIsRead, Query!ToStringIsRead
    <2>1. parameters \in Queries /\ Distinct(parameters)
        BY DEF QueryInv, QueryType, OncePerKey
    <2>2. \A i \in 1..Len(parameters) : Parted(parameters[i][1], parameters[i][2])
        BY DEF Parted, Lacks, Query!Whole
    <2>3. read = parameters
        BY <2>1, <2>2, ReadBack
    <2>4. ASSUME NEW k \in QueryKeys, Query!Has(parameters, k)
          PROVE  Query!Get(parameters, k) = first[k] /\ first[k] # Query!Absent
        <3>1. PICK i \in 1..Len(parameters) :
                  i = Query!FindKey(parameters, k) /\ parameters[i][1] = k
            BY <2>1, <2>4, FindKeyIs
        <3>2. first[k] = parameters[i][2]
            BY <3>1 DEF QueryInv, AsFirstAdded
        <3>3. parameters[i] \in Pairs
            BY <2>1 DEF Queries
        <3>4. first[k] # Query!Absent
            BY <3>2, <3>3, NotAbsent DEF Pairs
        <3>5. QED
            BY <2>4, <3>1, <3>2, <3>4 DEF Query!Get
    <2>5. \A k \in QueryKeys : first[k] # Query!Absent => Query!Has(parameters, k)
        BY DEF QueryInv, AsFirstAdded
    <2>6. QED
        BY <2>3, <2>4, <2>5
<1>2. QED
    BY <1>1, QueryInvariant, PTL

-----------------------------------------------------------------------------
\* The URL of a request is handled with the same operators as the query object.
LEMMA TargetUsesText ==
    /\ \A s, t : Target!Find(s, t) = Query!Find(s, t)
    /\ \A s, i : Target!From(s, i) = Query!From(s, i)
    /\ \A s, i : Target!Before(s, i) = Query!Before(s, i)
    /\ \A q, kv : Target!Joined(q, kv) = Query!Joined(q, kv)
    /\ \A key, value : Target!KeyValue(key, value) = Query!KeyValue(key, value)
    /\ \A q, key, value : Target!Add(q, key, value) = Query!Add(q, key, value)
<1>1. \A T : Target!S!Min(T) = Query!S!Min(T)
    BY DEF Query!S!Min, Target!S!Min
<1>2. ASSUME NEW s, NEW t PROVE Target!Find(s, t) = Query!Find(s, t)
    BY <1>1 DEF Query!Find, Target!Find
<1>3. \A s, i : Target!From(s, i) = Query!From(s, i) /\ Target!Before(s, i) = Query!Before(s, i)
    BY DEF Query!From, Target!From, Query!Before, Target!Before
<1>4. \A q, kv : Target!Joined(q, kv) = Query!Joined(q, kv)
    BY DEF Query!Joined, Target!Joined, Query!Ampersand, Target!Ampersand
<1>5. \A key, value : Target!KeyValue(key, value) = Query!KeyValue(key, value)
    BY DEF Query!KeyValue, Target!KeyValue, Query!Equals, Target!Equals
<1>6. \A q, key, value : Target!Add(q, key, value) = Query!Add(q, key, value)
    BY DEF Query!Add, Target!Add, Query!Has, Target!Has
<1>7. QED
    BY <1>2, <1>3, <1>4, <1>5, <1>6

LEMMA TargetUsesPieces ==
    ASSUME NEW s, NEW c
    PROVE  Target!Pieces(s, c) = Query!Pieces(s, c)
<1> DEFINE T(i, p) == LET j == Target!Find(Target!From(s, i), <<c>>) IN
                      IF j = 0 THEN <<Target!From(s, i)>>
                      ELSE <<Target!Before(Target!From(s, i), j)>> \o p[i + j]
           Q(i, p) == LET j == Query!Find(Query!From(s, i), <<c>>) IN
                      IF j = 0 THEN <<Query!From(s, i)>>
                      ELSE <<Query!Before(Query!From(s, i), j)>> \o p[i + j]
<1>1. Target!Pieces(s, c) = (CHOOSE p : p = [i \in 1..(Len(s) + 1) |-> T(i, p)])[1]
    BY DEF Target!Pieces
<1>2. Query!Pieces(s, c) = (CHOOSE p : p = [i \in 1..(Len(s) + 1) |-> Q(i, p)])[1]
    BY DEF Query!Pieces
<1>3. \A i, p : T(i, p) = Q(i, p)
    BY TargetUsesText, Zenon
<1> HIDE DEF T, Q
<1>4. QED
    BY <1>1, <1>2, <1>3

LEMMA TargetUsesQuery ==
    ASSUME NEW s
    PROVE  Target!UrlQuery(s) = Query!UrlQuery(s)
<1>1. \A q, kv : Target!AddPair(q, kv) = Query!AddPair(q, kv)
    BY TargetUsesText, Zenon DEF Query!AddPair, Target!AddPair, Query!Equals, Target!Equals
<1>2. Target!Ampersand = Query!Ampersand
    BY DEF Query!Ampersand, Target!Ampersand
<1>3. PICK kvs : kvs = Target!Pieces(s, Target!Ampersand) /\ kvs = Query!Pieces(s, Query!Ampersand)
    BY <1>2, TargetUsesPieces, Zenon
<1>4. Target!UrlQuery(s) =
          IF s = <<>> THEN <<>>
          ELSE (CHOOSE f : f = [n \in 0..Len(kvs) |->
                    IF n = 0 THEN <<>> ELSE Target!AddPair(f[n - 1], kvs[n])])[Len(kvs)]
    BY <1>3 DEF Target!UrlQuery
<1>5. Query!UrlQuery(s) =
          IF s = <<>> THEN <<>>
          ELSE (CHOOSE f : f = [n \in 0..Len(kvs) |->
                    IF n = 0 THEN <<>> ELSE Query!AddPair(f[n - 1], kvs[n])])[Len(kvs)]
    BY <1>3 DEF Query!UrlQuery
<1>6. QED
    BY <1>1, <1>4, <1>5

LEMMA TargetUsesDecode ==
    ASSUME NEW s
    PROVE  Target!Decode(s) = Query!Decode(s) /\ Target!Invalid = Query!Invalid
<1>1. \A c : Target!HexToDecimal(c) = Query!HexToDecimal(c)
    BY Zenon DEF Target!HexToDecimal, Query!HexToDecimal
<1>2. Target!Percent = Query!Percent /\ Target!Invalid = Query!Invalid
    BY DEF Target!Percent, Query!Percent, Target!Invalid, Query!Invalid
<1> DEFINE DecodeStep(i, a) ==
               IF i > Len(s) THEN <<>>
               ELSE IF s[i] = Target!Percent
               THEN IF i + 2 > Len(s) THEN Target!Invalid
                    ELSE IF -1 \in {Target!HexToDecimal(s[i + 1]), Target!HexToDecimal(s[i + 2])}
                    THEN Target!Invalid
                    ELSE LET c == 16 * Target!HexToDecimal(s[i + 1])
                                      + Target!HexToDecimal(s[i + 2]) IN
                         IF a[i + 3] = Target!Invalid THEN a[i + 3] ELSE <<c>> \o a[i + 3]
               ELSE IF s[i] > 127 THEN Target!Invalid
               ELSE IF a[i + 1] = Target!Invalid THEN a[i + 1] ELSE <<s[i]>> \o a[i + 1]
<1>3. Target!Decode(s) = (CHOOSE a : a = [i \in 1..(Len(s) + 1) |-> DecodeStep(i, a)])[1]
    BY DEF Target!Decode
<1>4. Query!Decode(s) = (CHOOSE a : a = [i \in 1..(Len(s) + 1) |-> DecodedAt(s, i, a)])[1]
    BY DEF Query!Decode, DecodedAt, Put
<1>5. \A i, a : DecodeStep(i, a) = DecodedAt(s, i, a)
    BY <1>1, <1>2 DEF DecodedAt, Put
<1> HIDE DEF DecodeStep
<1>6. QED
    BY <1>2, <1>3, <1>4, <1>5

-----------------------------------------------------------------------------
\* Parameters added to a query, one after another.
AddNext(q, kv) == Query!Add(q, kv[1], kv[2])
AddingEach(q, kvs, after) ==
    /\ after \in [0..Len(kvs) -> Queries] /\ after[0] = q
    /\ \A i \in 1..Len(kvs) : after[i] = AddNext(after[i - 1], kvs[i])

LEMMA AddEachIs ==
    ASSUME NEW q \in Queries, NEW kvs \in Queries
    PROVE  \E after : AddingEach(q, kvs, after) /\ Target!AddEach(q, kvs) = after[Len(kvs)]
<1> DEFINE N == Len(kvs)
           step == [i \in 1..N |-> [t \in Queries |-> AddNext(t, kvs[i])]]
           Loop(g) == [n \in 0..N |-> IF n = 0 THEN q ELSE AddNext(g[n - 1], kvs[n])]
           after == CHOOSE g : g = Loop(g)
<1>1. N \in Nat /\ kvs \in Seq(Pairs)
    BY DEF Queries
<1>2. Target!AddEach(q, kvs) = after[N]
    <2> DEFINE A(n, g) == Target!Add(g[n - 1], kvs[n][1], kvs[n][2])
    <2>1. Target!AddEach(q, kvs) =
              (CHOOSE g : g = [n \in 0..N |-> IF n = 0 THEN q ELSE A(n, g)])[N]
        BY DEF Target!AddEach
    <2>2. \A n, g : A(n, g) = AddNext(g[n - 1], kvs[n])
        BY TargetUsesText, Zenon DEF AddNext
    <2> HIDE DEF A
    <2>3. QED
        BY <2>1, <2>2
<1>3. step \in [1..N -> [Queries -> Queries]]
    <2>1. ASSUME NEW i \in 1..N, NEW t \in Queries PROVE AddNext(t, kvs[i]) \in Queries
        <3>1. kvs[i] \in Pairs
            BY <1>1
        <3>2. kvs[i][1] \in Text /\ kvs[i][2] \in Text
            BY <3>1 DEF Pairs
        <3>3. QED
            BY <3>2, AddIs DEF AddNext
    <2>2. QED
        BY <2>1
<1>4. PICK f \in [0..N -> Queries] : f[0] = q /\ \A i \in 1..N : f[i] = step[i][f[i - 1]]
    <2>1. Steps(step, N, Queries)
        BY <1>3 DEF Steps
    <2> HIDE DEF step, N
    <2>2. PICK f : Runs(f, q, step, N, Queries)
        BY <1>1, <2>1, Iterated
    <2>3. QED
        BY <2>2 DEF Runs
<1>5. \A i \in 1..N : f[i] = AddNext(f[i - 1], kvs[i])
    <2> SUFFICES ASSUME NEW i \in 1..N PROVE f[i] = AddNext(f[i - 1], kvs[i])
        OBVIOUS
    <2>1. f[i - 1] \in Queries
        BY <1>4
    <2>2. QED
        BY <1>4, <2>1
<1>6. f = Loop(f)
    BY <1>1, <1>4, <1>5
<1>7. after = Loop(after)
    BY <1>6
<1> HIDE DEF after
<1> DEFINE Same == {n \in Nat : n <= N => after[n] = f[n]}
<1>8. 0 \in Same
    BY <1>1, <1>4, <1>7
<1>9. ASSUME NEW n \in Nat, n \in Same PROVE n + 1 \in Same
    <2>1. CASE n + 1 <= N
        <3>1. n + 1 \in 1..N /\ n + 1 \in 0..N /\ (n + 1) - 1 = n /\ n + 1 # 0
            BY <1>1, <2>1
        <3>2. after[n + 1] = AddNext(after[n], kvs[n + 1])
            BY <1>7, <3>1
        <3>3. f[n + 1] = AddNext(f[n], kvs[n + 1])
            BY <1>5, <3>1
        <3>4. after[n] = f[n]
            BY <1>1, <1>9, <2>1
        <3>5. QED
            BY <3>2, <3>3, <3>4
    <2>2. QED
        BY <2>1
<1>10. after[N] = f[N]
    <2>1. N \in Same
        <3> HIDE DEF Same
        <3> QED
            BY <1>1, <1>8, <1>9, EveryNatural
    <2>2. QED
        BY <2>1
<1>11. AddingEach(q, kvs, f)
    BY <1>4, <1>5 DEF AddingEach
<1>12. QED
    BY <1>2, <1>10, <1>11

LEMMA AddNone ==
    ASSUME NEW q \in Queries
    PROVE  Target!AddEach(q, <<>>) = q
<1>1. <<>> \in Queries /\ Len(<<>>) = 0
    BY DEF Queries
<1>2. PICK A : AddingEach(q, <<>>, A) /\ Target!AddEach(q, <<>>) = A[Len(<<>>)]
    BY <1>1, AddEachIs
<1>3. QED
    BY <1>1, <1>2 DEF AddingEach

\* One more parameter.
LEMMA AddOneMore ==
    ASSUME NEW q \in Queries, NEW kvs \in Queries, NEW kv \in Pairs
    PROVE  Target!AddEach(q, Append(kvs, kv)) = Query!Add(Target!AddEach(q, kvs), kv[1], kv[2])
<1> DEFINE N == Len(kvs)
<1>1. PICK r \in Queries : r = Append(kvs, kv)
    <2>1. Append(kvs, kv) \in Queries
        BY DEF Queries
    <2>2. QED
        BY <2>1
<1>2. N \in Nat /\ Len(r) = N + 1 /\ r[N + 1] = kv /\ \A i \in 1..N : r[i] = kvs[i]
    BY <1>1 DEF Queries
<1>3. PICK A : AddingEach(q, kvs, A) /\ Target!AddEach(q, kvs) = A[N]
    BY AddEachIs
<1>4. PICK B : AddingEach(q, r, B) /\ Target!AddEach(q, r) = B[Len(r)]
    BY AddEachIs
<1> DEFINE Same == {n \in Nat : n <= N => A[n] = B[n]}
<1>5. 0 \in Same
    BY <1>3, <1>4 DEF AddingEach
<1>6. ASSUME NEW n \in Nat, n \in Same PROVE n + 1 \in Same
    <2>1. CASE n + 1 <= N
        <3>1. n + 1 \in 1..N /\ n + 1 \in 1..Len(r) /\ (n + 1) - 1 = n
            BY <1>2, <2>1
        <3>2. A[n + 1] = AddNext(A[n], kvs[n + 1])
            BY <1>3, <3>1 DEF AddingEach
        <3>3. B[n + 1] = AddNext(B[n], kvs[n + 1])
            BY <1>2, <1>4, <3>1 DEF AddingEach
        <3>4. A[n] = B[n]
            BY <1>2, <1>6, <2>1
        <3>5. QED
            BY <3>2, <3>3, <3>4
    <2>2. QED
        BY <2>1
<1>7. A[N] = B[N]
    <2>1. N \in Same
        <3> HIDE DEF Same
        <3> QED
            BY <1>2, <1>5, <1>6, EveryNatural
    <2>2. QED
        BY <1>2, <2>1
<1>8. B[N + 1] = AddNext(B[N], kv)
    <2>1. N + 1 \in 1..Len(r) /\ (N + 1) - 1 = N
        BY <1>2
    <2>2. QED
        BY <1>2, <1>4, <2>1 DEF AddingEach
<1>9. QED
    BY <1>1, <1>2, <1>3, <1>4, <1>7, <1>8 DEF AddNext

-----------------------------------------------------------------------------
\* Url::Parse.
Authority == <<Target!Colon, Target!Slash, Target!Slash>>

LEMMA Characters ==
    /\ Target!Space \in Byte /\ Target!Colon \in Byte /\ Target!Slash \in Byte
    /\ Target!Question \in Byte /\ Target!Slash # Target!Space
    /\ Target!Slash # Target!Question /\ Authority \in Text /\ Len(Authority) = 3
<1>1. /\ Target!Space \in Byte /\ Target!Colon \in Byte /\ Target!Slash \in Byte
      /\ Target!Question \in Byte /\ Target!Slash # Target!Space
      /\ Target!Slash # Target!Question
    BY DEF Target!Space, Target!Colon, Target!Slash, Target!Question, Byte
<1>2. PICK c \in Byte, s \in Byte : c = Target!Colon /\ s = Target!Slash
    BY <1>1
<1>3. <<c, s, s>> \in Seq(Byte) /\ Len(<<c, s, s>>) = 3
    OBVIOUS
<1>4. QED
    BY <1>1, <1>2, <1>3 DEF Authority, Text

\* find of a text gives a place where it fits.
LEMMA FindTextIs ==
    ASSUME NEW s \in Text, NEW t \in Text
    PROVE  Query!Find(s, t) = 0 \/ Query!Find(s, t) \in 1..(Len(s) - Len(t) + 1)
<1> DEFINE hits == {i \in 1..(Len(s) - Len(t) + 1) : SubSeq(s, i, i + Len(t) - 1) = t}
<1>1. Len(s) \in Nat /\ Len(t) \in Nat
    BY DEF Text
<1>2. Query!Find(s, t) = IF hits = {} THEN 0 ELSE Query!S!Min(hits)
    BY DEF Query!Find
<1>3. hits \in SUBSET Nat /\ hits \subseteq 1..(Len(s) - Len(t) + 1)
    BY <1>1
<1> HIDE DEF hits
<1>4. CASE hits # {}
    <2>1. \E m \in hits : \A n \in hits : m <= n
        BY <1>3, <1>4, LeastNatural
    <2>2. Query!S!Min(hits) \in hits
        BY <2>1 DEF Query!S!Min
    <2>3. QED
        BY <1>2, <1>3, <1>4, <2>2
<1>5. QED
    BY <1>2, <1>4

LEMMA TrimLeftIs ==
    ASSUME NEW s \in Text
    PROVE  /\ Target!TrimLeft(s) \in Text
           /\ Len(s) > 0 /\ s[1] # Target!Space => Target!TrimLeft(s) = s
<1> DEFINE rest == {i \in 1..Len(s) : s[i] # Target!Space}
<1>1. Len(s) \in Nat /\ <<>> \in Text /\ s \in Seq(Byte)
    BY DEF Text
<1>2. CASE rest = {}
    <2>1. \A i \in 1..Len(s) : s[i] = Target!Space
        BY <1>2
    <2>2. Target!TrimLeft(s) = <<>>
        BY <2>1 DEF Target!TrimLeft
    <2>3. Len(s) > 0 => s[1] = Target!Space
        BY <1>1, <2>1
    <2>4. QED
        BY <1>1, <2>2, <2>3
<1>3. CASE rest # {}
    <2>1. ~(\A i \in 1..Len(s) : s[i] = Target!Space)
        BY <1>3
    <2>2. Target!TrimLeft(s) = Target!From(s, Target!S!Min(rest))
        BY <2>1 DEF Target!TrimLeft
    <2>3. rest \in SUBSET Nat /\ rest \subseteq 1..Len(s)
        BY <1>1
    <2>4. PICK m \in rest : Target!S!Min(rest) = m /\ \A n \in rest : m <= n
        <3> HIDE DEF rest
        <3>1. \E m \in rest : \A n \in rest : m <= n
            BY <1>3, <2>3, LeastNatural
        <3>2. QED
            BY <3>1 DEF Target!S!Min
    <2>5. m \in 1..Len(s) + 1 /\ m \in 1..Len(s)
        BY <1>1, <2>3
    <2>6. Target!TrimLeft(s) = Query!From(s, m)
        BY <2>2, <2>4, TargetUsesText
    <2>7. Query!From(s, m) \in Text
        BY <2>5, FromIs
    <2>8. ASSUME Len(s) > 0, s[1] # Target!Space PROVE Target!TrimLeft(s) = s
        <3>1. 1 \in rest
            BY <1>1, <2>8
        <3>2. m = 1
            BY <2>4, <2>5, <3>1
        <3>3. Query!From(s, 1) = s
            BY <1>1 DEF Query!From
        <3>4. QED
            BY <2>6, <3>2, <3>3
    <2>9. QED
        BY <2>6, <2>7, <2>8
<1>4. QED
    BY <1>2, <1>3

\* The parts of a URL are texts, and its path ends at the first question mark.
UrlParts == [scheme : Text, host : Text, port : Text, path : Text, query : Text]
LEMMA ParseIs ==
    ASSUME NEW str \in Text
    PROVE  Target!Parse(str) \in UrlParts /\ Lacks(Target!Parse(str).path, Target!Question)
<1>0. <<>> \in Text
    BY DEF Text
<1>1. PICK all \in Text : all = Target!TrimLeft(str)
    BY TrimLeftIs
<1>2. PICK p : p = Query!Find(all, Authority)
    OBVIOUS
<1>3. p = 0 \/ (Query!Before(all, p) \in Text /\ Query!From(all, p + 3) \in Text)
    <2>1. Len(all) \in Nat
        BY DEF Text
    <2>2. p = 0 \/ p \in 1..(Len(all) - 3 + 1)
        BY <1>2, Characters, FindTextIs
    <2>3. p # 0 => p \in 1..Len(all) + 1 /\ p + 3 \in 1..Len(all) + 1
        BY <2>1, <2>2
    <2>4. QED
        BY <2>3, BeforeIs, FromIs
<1>4. PICK tmp \in Text : tmp = IF p = 0 THEN all ELSE Query!From(all, p + 3)
    BY <1>3
<1>5. PICK s : s = Query!Find(tmp, <<Target!Slash>>)
    OBVIOUS
<1>6. s = 0 \/ (Query!Before(tmp, s) \in Text /\ Query!From(tmp, s + 1) \in Text)
    BY <1>5, Characters, FindCharIs, PartsOfText
<1>7. PICK rest \in Text : rest = IF s = 0 THEN tmp ELSE Query!From(tmp, s + 1)
    BY <1>6
<1>8. PICK q : q = Query!Find(rest, <<Target!Question>>)
    OBVIOUS
<1>9. q = 0 \/ (Query!Before(rest, q) \in Text /\ Query!From(rest, q + 1) \in Text)
    BY <1>8, Characters, FindCharIs, PartsOfText
<1>10. PICK front \in Text : front = IF q = 0 THEN rest ELSE Query!Before(rest, q)
    BY <1>9
<1>11. Lacks(front, Target!Question)
    <2>1. CASE q = 0
        <3>1. front = rest /\ Query!Find(rest, <<Target!Question>>) = 0
            BY <1>8, <1>10, <2>1
        <3>2. \A k \in 1..Len(rest) : rest[k] # Target!Question
            BY <3>1, Characters, FindCharIs
        <3>3. QED
            BY <3>1, <3>2 DEF Lacks
    <2>2. CASE q # 0
        <3>1. q \in 1..Len(rest) /\ \A k \in 1..q - 1 : rest[k] # Target!Question
            BY <1>8, <2>2, Characters, FindCharIs
        <3>2. q \in 1..Len(rest) + 1
            BY <3>1 DEF Text
        <3>3. Len(front) = q - 1 /\ \A k \in 1..q - 1 : front[k] = rest[k]
            BY <1>10, <2>2, <3>2, BeforeIs
        <3>4. QED
            BY <3>1, <3>3 DEF Lacks
    <2>3. QED
        BY <2>1, <2>2
<1>12. PICK authority \in Text : authority = IF s = 0 THEN front ELSE Query!Before(tmp, s)
    BY <1>6
<1>13. PICK c : c = Query!Find(authority, <<Target!Colon>>)
    OBVIOUS
<1>14. c = 0 \/ (Query!Before(authority, c) \in Text /\ Query!From(authority, c + 1) \in Text)
    BY <1>13, Characters, FindCharIs, PartsOfText
<1>15. Target!Parse(str) =
           [scheme |-> IF p = 0 THEN <<>> ELSE Query!Before(all, p),
            host |-> IF c = 0 THEN authority ELSE Query!Before(authority, c),
            port |-> IF c = 0 THEN <<>> ELSE Query!From(authority, c + 1),
            path |-> IF s = 0 THEN <<>> ELSE front,
            query |-> IF q = 0 THEN <<>> ELSE Query!From(rest, q + 1)]
    BY <1>1, <1>2, <1>4, <1>5, <1>7, <1>8, <1>10, <1>12, <1>13, TargetUsesText
       DEF Target!Parse, Authority
<1>16. /\ (IF p = 0 THEN <<>> ELSE Query!Before(all, p)) \in Text
       /\ (IF c = 0 THEN authority ELSE Query!Before(authority, c)) \in Text
       /\ (IF c = 0 THEN <<>> ELSE Query!From(authority, c + 1)) \in Text
       /\ (IF s = 0 THEN <<>> ELSE front) \in Text
       /\ (IF q = 0 THEN <<>> ELSE Query!From(rest, q + 1)) \in Text
    BY <1>0, <1>3, <1>9, <1>14
<1>17. Lacks(IF s = 0 THEN <<>> ELSE front, Target!Question)
    <2>1. Lacks(<<>>, Target!Question)
        BY DEF Lacks
    <2>2. QED
        BY <1>11, <2>1
<1>18. QED
    BY <1>15, <1>16, <1>17 DEF UrlParts

LEMMA UrlInitIs ==
    ASSUME NEW str \in Text
    PROVE  Target!UrlInit(str) \in UrlParts /\ Lacks(Target!UrlInit(str).path, Target!Question)
<1>1. PICK at : Decoding(str, at) /\ Query!Decode(str) = at[1]
    BY DecodeIs
<1>2. 1 \in 1..Len(str) + 1
    BY DEF Text
<1>3. Query!Decode(str) = Query!Invalid \/ Query!Decode(str) \in Text
    BY <1>1, <1>2 DEF Decoding, Decoded
<1>4. PICK t \in Text : t = IF Target!Decode(str) = Target!Invalid THEN str ELSE Target!Decode(str)
    BY <1>3, TargetUsesDecode
<1>5. Target!UrlInit(str) = Target!Parse(t)
    BY <1>4 DEF Target!UrlInit
<1>6. QED
    BY <1>5, ParseIs

-----------------------------------------------------------------------------
\* The target that CreateStartLine writes for a path and the text of a query.
Marked(t) == IF t = <<>> THEN <<>> ELSE <<Target!Question>> \o t
Line(path, t) == <<Target!Slash>> \o path \o Marked(t)

LEMMA LineIs ==
    ASSUME NEW path \in Text, NEW t \in Text
    PROVE  /\ Line(path, t) \in Text /\ Len(Line(path, t)) > 0
           /\ Line(path, t)[1] = Target!Slash
           /\ Query!From(Line(path, t), 2) = path \o Marked(t)
           /\ path \o Marked(t) \in Text
           /\ t # <<>> => path \o Marked(t) = path \o <<Target!Question>> \o t
<1>1. PICK m \in Text : m = Marked(t)
    <2>1. <<>> \in Text
        BY DEF Text
    <2>2. <<Target!Question>> \o t \in Text
        BY Characters, ConsIs DEF Text
    <2>3. QED
        BY <2>1, <2>2 DEF Marked
<1>2. PICK c \in Byte : c = Target!Slash
    BY Characters
<1>3. <<c>> \in Seq(Byte) /\ path \in Seq(Byte) /\ m \in Seq(Byte)
    BY DEF Text
<1>4. PICK b \in Seq(Byte) : b = path \o m
    <2>1. path \o m \in Seq(Byte)
        BY <1>3
    <2>2. QED
        BY <2>1
<1>5. (<<c>> \o path) \o m = <<c>> \o b
    BY <1>3, <1>4, ConcatAssociative
<1>6. PICK r \in Seq(Byte) : r = <<c>> \o b
    <2>1. <<c>> \o b \in Seq(Byte)
        BY ConsIs
    <2>2. QED
        BY <2>1
<1>7. Len(r) = Len(b) + 1 /\ r[1] = c /\ \A k \in 1..Len(b) : r[k + 1] = b[k]
    <2>1. /\ Len(<<c>> \o b) = Len(b) + 1 /\ (<<c>> \o b)[1] = c
          /\ \A k \in 1..Len(b) : (<<c>> \o b)[k + 1] = b[k]
        BY ConsIs
    <2>2. QED
        BY <1>6, <2>1
<1>8. Line(path, t) = r
    BY <1>1, <1>2, <1>5, <1>6 DEF Line
<1>9. Len(b) \in Nat /\ 2 \in 1..Len(r) + 1 /\ Len(r) > 0
    BY <1>7
<1>10. Query!From(r, 2) = b
    <2>1. /\ Query!From(r, 2) \in Text /\ Len(Query!From(r, 2)) = Len(r) - 2 + 1
          /\ \A k \in 1..Len(r) - 2 + 1 : Query!From(r, 2)[k] = r[2 + k - 1]
        BY <1>9, FromIs DEF Text
    <2>2. Len(r) - 2 + 1 = Len(b) /\ \A k \in 1..Len(b) : 2 + k - 1 = k + 1
        BY <1>7, <1>9
    <2>3. \A k \in 1..Len(b) : Query!From(r, 2)[k] = b[k]
        BY <1>7, <2>1, <2>2
    <2>4. QED
        BY <2>1, <2>2, <2>3, SameText DEF Text
<1>11. ASSUME t # <<>> PROVE b = path \o <<Target!Question>> \o t
    <2>1. m = <<Target!Question>> \o t
        BY <1>1, <1>11 DEF Marked
    <2>2. PICK d \in Byte : d = Target!Question
        BY Characters
    <2>3. <<d>> \in Seq(Byte) /\ t \in Seq(Byte)
        BY DEF Text
    <2>4. (path \o <<d>>) \o t = path \o (<<d>> \o t)
        BY <1>3, <2>3, ConcatAssociative
    <2>5. QED
        BY <1>4, <2>1, <2>2, <2>4
<1>12. QED
    BY <1>1, <1>2, <1>4, <1>6, <1>7, <1>8, <1>9, <1>10, <1>11 DEF Text

Joins(r, q, c, kv) ==
    /\ r \in Text /\ Len(r) = Len(q) + 1 + Len(kv)
    /\ \A k \in 1..Len(q) : r[k] = q[k]
    /\ r[Len(q) + 1] = c
    /\ \A k \in 1..Len(kv) : r[Len(q) + 1 + k] = kv[k]
LEMMA JoinsIs ==
    ASSUME NEW q \in Text, NEW c \in Byte, NEW kv \in Text
    PROVE  Joins(q \o <<c>> \o kv, q, c, kv)
BY JoinIs DEF Joins

\* Url::Parse of such a target gives the path and the query it was written for.
LEMMA ParseLine ==
    ASSUME NEW path \in Text, NEW t \in Text, Lacks(path, Target!Question),
           Target!Find(Line(path, t), Authority) = 0
    PROVE  /\ Target!Parse(Line(path, t)).path = path
           /\ Target!Parse(Line(path, t)).query = t
<1>1. PICK r \in Text : r = Line(path, t) /\ Len(r) > 0 /\ r[1] = Target!Slash
    BY LineIs
<1>2. Target!TrimLeft(r) = r
    BY <1>1, Characters, TrimLeftIs
<1>3. Query!Find(r, Authority) = 0
    BY <1>1, TargetUsesText
<1>4. Query!Find(r, <<Target!Slash>>) = 1
    <2>1. 1 \in 1..Len(r) /\ \A k \in 1..1 - 1 : FALSE
        BY <1>1 DEF Text
    <2>2. QED
        BY <1>1, <2>1, Characters, FindAt
<1>5. PICK b \in Text : b = path \o Marked(t) /\ b = Query!From(r, 2)
    BY <1>1, LineIs
<1>6. PICK q : q = Query!Find(b, <<Target!Question>>)
    OBVIOUS
<1>7. /\ Target!Parse(r).path = IF q = 0 THEN b ELSE Query!Before(b, q)
      /\ Target!Parse(r).query = IF q = 0 THEN <<>> ELSE Query!From(b, q + 1)
    <2>0. PICK all : all = Target!TrimLeft(r)
        OBVIOUS
    <2>1. PICK p : p = Target!Find(all, Authority)
        OBVIOUS
    <2>2. PICK tmp : tmp = IF p = 0 THEN all ELSE Target!From(all, p + 3)
        OBVIOUS
    <2>3. PICK s : s = Target!Find(tmp, <<Target!Slash>>)
        OBVIOUS
    <2>4. PICK rest : rest = IF s = 0 THEN tmp ELSE Target!From(tmp, s + 1)
        OBVIOUS
    <2>5. PICK d : d = Target!Find(rest, <<Target!Question>>)
        OBVIOUS
    <2>6. PICK front : front = IF d = 0 THEN rest ELSE Target!Before(rest, d)
        OBVIOUS
    <2>7. PICK authority : authority = IF s = 0 THEN front ELSE Target!Before(tmp, s)
        OBVIOUS
    <2>8. PICK c : c = Target!Find(authority, <<Target!Colon>>)
        OBVIOUS
    <2>9. Target!Parse(r) =
              [scheme |-> IF p = 0 THEN <<>> ELSE Target!Before(all, p),
               host |-> IF c = 0 THEN authority ELSE Target!Before(authority, c),
               port |-> IF c = 0 THEN <<>> ELSE Target!From(authority, c + 1),
               path |-> IF s = 0 THEN <<>> ELSE front,
               query |-> IF d = 0 THEN <<>> ELSE Target!From(rest, d + 1)]
        BY <2>0, <2>1, <2>2, <2>3, <2>4, <2>5, <2>6, <2>7, <2>8 DEF Target!Parse, Authority
    <2>10. p = 0 /\ tmp = r
        BY <1>2, <1>3, <2>0, <2>1, <2>2, TargetUsesText
    <2>11. s = 1
        BY <1>4, <2>3, <2>10, TargetUsesText
    <2>12. rest = b
        BY <1>5, <2>4, <2>10, <2>11, TargetUsesText
    <2>13. d = q
        BY <1>6, <2>5, <2>12, TargetUsesText
    <2>14. QED
        BY <2>6, <2>9, <2>11, <2>12, <2>13, TargetUsesText
<1>8. CASE t = <<>>
    <2>1. b = path
        <3>1. Marked(t) = <<>>
            BY <1>8 DEF Marked
        <3>2. path \o <<>> = path
            BY DEF Text
        <3>3. QED
            BY <1>5, <3>1, <3>2
    <2>2. q = 0
        BY <1>6, <2>1, Characters, FindNone DEF Lacks
    <2>3. QED
        BY <1>1, <1>7, <1>8, <2>1, <2>2
<1>9. CASE t # <<>>
    <2> DEFINE m == Len(path) + 1
    <2>1. b = path \o <<Target!Question>> \o t
        BY <1>5, <1>9, LineIs
    <2>2. /\ Len(b) = Len(path) + 1 + Len(t)
          /\ \A k \in 1..Len(path) : b[k] = path[k]
          /\ b[Len(path) + 1] = Target!Question
          /\ \A k \in 1..Len(t) : b[Len(path) + 1 + k] = t[k]
        <3>1. PICK c \in Byte : c = Target!Question
            BY Characters
        <3>2. Joins(path \o <<c>> \o t, path, c, t)
            BY JoinsIs
        <3>3. b = path \o <<c>> \o t
            BY <2>1, <3>1
        <3>4. Joins(b, path, c, t)
            BY <3>2, <3>3
        <3>5. QED
            BY <3>1, <3>4 DEF Joins
    <2>3. Len(path) \in Nat /\ Len(t) \in Nat
        BY DEF Text
    <2>4. /\ m \in 1..Len(b) /\ m \in 1..Len(b) + 1 /\ m + 1 \in 1..Len(b) + 1
          /\ m # 0 /\ m - 1 = Len(path)
        BY <2>2, <2>3
    <2>5. q = m
        <3>1. \A k \in 1..m - 1 : b[k] # Target!Question
            BY <2>2, <2>4 DEF Lacks
        <3>2. QED
            BY <1>6, <2>2, <2>4, <3>1, Characters, FindAt
    <2>6. Query!Before(b, m) = path
        <3>1. /\ Query!Before(b, m) \in Text /\ Len(Query!Before(b, m)) = m - 1
              /\ \A k \in 1..m - 1 : Query!Before(b, m)[k] = b[k]
            BY <2>4, BeforeIs
        <3>2. QED
            BY <2>2, <2>4, <3>1, SameText DEF Text
    <2>7. Query!From(b, m + 1) = t
        <3>1. Len(b) - (m + 1) + 1 = Len(t) /\ \A k \in 1..Len(t) : m + 1 + k - 1 = m + k
            BY <2>2, <2>3
        <3>2. /\ Query!From(b, m + 1) \in Text /\ Len(Query!From(b, m + 1)) = Len(t)
              /\ \A k \in 1..Len(t) : Query!From(b, m + 1)[k] = b[m + 1 + k - 1]
            <4>1. PICK n \in 1..Len(b) + 1 : n = m + 1
                BY <2>4
            <4>2. /\ Query!From(b, n) \in Text /\ Len(Query!From(b, n)) = Len(b) - n + 1
                  /\ \A k \in 1..Len(b) - n + 1 : Query!From(b, n)[k] = b[n + k - 1]
                BY FromIs
            <4>3. QED
                BY <3>1, <4>1, <4>2
        <3>3. \A k \in 1..Len(t) : Query!From(b, m + 1)[k] = t[k]
            BY <2>2, <3>1, <3>2
        <3>4. QED
            BY <3>2, <3>3, SameText DEF Text
    <2>8. QED
        BY <1>1, <1>7, <2>4, <2>5, <2>6, <2>7
<1>10. QED
    BY <1>8, <1>9

\* A plain target is read as one token, decodes to itself and is taken apart again.
LEMMA ReadIs ==
    ASSUME NEW path \in Text, NEW t \in Text, Lacks(path, Target!Question),
           Target!Plain(Line(path, t))
    PROVE  Target!Read(Line(path, t)) =
               [status |-> "read", path |-> path, parameters |-> Query!UrlQuery(t)]
<1>1. PICK r \in Text : r = Line(path, t) /\ Len(r) > 0
    BY LineIs
<1>2. Len(r) \in Nat /\ r \in Seq(Byte)
    BY DEF Text
<1>3. /\ \A i \in 1..Len(r) : r[i] # Target!Space /\ r[i] # Target!Percent
      /\ Target!Find(r, Authority) = 0
    BY <1>1 DEF Target!Plain, Target!Without, Authority
<1>4. SubSeq(r, 1, Target!S!Max({i \in 1..Len(r) : r[i] # Target!Space})) = r
    <2> DEFINE places == {i \in 1..Len(r) : r[i] # Target!Space}
    <2>1. places = 1..Len(r)
        BY <1>3
    <2>2. Len(r) \in places /\ \A n \in places : Len(r) >= n
        BY <1>1, <1>2, <2>1
    <2>3. \A m \in places : m \in Nat
        BY <1>2
    <2>4. Target!S!Max(places) = Len(r)
        <3> HIDE DEF places
        <3>1. PICK m \in places : Target!S!Max(places) = m /\ \A n \in places : m >= n
            BY <2>2 DEF Target!S!Max
        <3>2. QED
            BY <1>2, <2>2, <2>3, <3>1
    <2>5. SubSeq(r, 1, Len(r)) = r
        BY <1>2
    <2>6. QED
        BY <2>4, <2>5
<1>5. ~\E i \in 1..Len(r) : r[i] = Target!Space
    BY <1>3
<1>6. Target!UrlInit(r) = Target!Parse(r)
    <2>1. Query!Percent = Target!Percent
        BY DEF Query!Percent, Target!Percent
    <2>2. Query!Decode(r) \in {r, Query!Invalid}
        BY <1>3, <2>1, DecodesToItself DEF Lacks
    <2>3. Target!Decode(r) = Query!Decode(r) /\ Target!Invalid = Query!Invalid
        BY TargetUsesDecode
    <2>4. QED
        BY <2>2, <2>3 DEF Target!UrlInit
<1>7. Target!Parse(r).path = path /\ Target!Parse(r).query = t
    BY <1>1, <1>3, ParseLine
<1>8. Target!Read(r) = [status |-> "read", path |-> Target!UrlInit(r).path,
                        parameters |-> Target!UrlQuery(Target!UrlInit(r).query)]
    BY <1>4, <1>5 DEF Target!Read
<1>9. Target!UrlQuery(t) = Query!UrlQuery(t)
    BY TargetUsesQuery
<1>10. QED
    BY <1>1, <1>6, <1>7, <1>8, <1>9

-----------------------------------------------------------------------------
\* The texts of a request's URL, and what was written of it.
TargetType == /\ address \in UrlParts /\ url \in UrlParts
              /\ added \in Queries /\ built \in Queries
PathWhole == Lacks(address.path, Target!Question) /\ url.path = address.path
\* A text of a query that holds the address's parameters and then kvs.
Separated(kvs) == \A i \in 1..Len(kvs) : Target!Separable(kvs[i])
Carried(kvs, t) ==
    Separated(kvs) => Query!UrlQuery(t) = Target!AddEach(Query!UrlQuery(address.query), kvs)
QueryCarried == Carried(added, url.query)
LineBuilt ==
    start_line # <<>> => \E t \in Text : start_line = Line(address.path, t) /\ Carried(built, t)
SeenRead ==
    seen.status # "none" => start_line # <<>> /\ seen = Target!Read(start_line)
TargetInv == TargetType /\ PathWhole /\ QueryCarried /\ LineBuilt /\ SeenRead

LEMMA UrlQueryIs ==
    ASSUME NEW t \in Text
    PROVE  Query!UrlQuery(t) \in Queries
<1>1. <<97>> \in Text /\ <<97>> # <<>> /\ Lacks(<<97>>, Query!Ampersand)
    BY DEF Text, Byte, Lacks, Query!Ampersand
<1>2. QED
    BY <1>1, QueryJoined

LEMMA TargetInit == Target!Init => TargetInv
<1> SUFFICES ASSUME Target!Init PROVE TargetInv
    OBVIOUS
<1>1. PICK a \in Addresses : address = Target!UrlInit(a)
    BY DEF Target!Init
<1>2. a \in Text
    BY TextAssumption DEF Text, Byte
<1>3. address \in UrlParts /\ Lacks(address.path, Target!Question)
    BY <1>1, <1>2, UrlInitIs
<1>4. url = address /\ added = <<>> /\ start_line = <<>> /\ built = <<>> /\ seen = Target!Nothing
    BY DEF Target!Init
<1>5. TargetType /\ PathWhole
    BY <1>3, <1>4 DEF TargetType, PathWhole, Queries
<1>6. QueryCarried
    <2>1. address.query \in Text
        BY <1>3 DEF UrlParts
    <2>2. PICK q \in Queries : q = Query!UrlQuery(address.query)
        BY <2>1, UrlQueryIs
    <2>3. Target!AddEach(q, <<>>) = q
        BY AddNone
    <2>4. QED
        BY <1>4, <2>2, <2>3 DEF QueryCarried, Carried
<1>7. LineBuilt /\ SeenRead
    BY <1>4 DEF LineBuilt, SeenRead, Target!Nothing
<1>8. QED
    BY <1>5, <1>6, <1>7 DEF TargetInv

LEMMA AddQueryStep ==
    ASSUME TargetInv, NEW k \in TargetKeys, NEW v \in TargetValues, Target!CallAddQuery(k, v)
    PROVE  TargetInv'
<1>1. k \in Text /\ v \in Text
    BY TextAssumption DEF Text, Byte
<1>2. /\ address \in UrlParts /\ url \in UrlParts /\ added \in Queries /\ built \in Queries
      /\ Lacks(address.path, Target!Question) /\ url.path = address.path
    BY DEF TargetInv, TargetType, PathWhole
<1>3. /\ address' = address /\ start_line' = start_line /\ built' = built /\ seen' = seen
      /\ added' = Append(added, <<k, v>>)
      /\ url' = [url EXCEPT !.query = Query!Joined(url.query, Query!KeyValue(k, v))]
    BY TargetUsesText DEF Target!CallAddQuery, Target!AddQuery
<1>4. PICK s \in Text : s = url.query
    BY <1>2 DEF UrlParts
<1>5. PICK t \in Text : t = Query!Joined(s, Query!KeyValue(k, v))
    BY <1>1, KeyValueIs, JoinedIs
<1>6. url' \in UrlParts /\ url'.path = url.path /\ url'.query = t
    BY <1>2, <1>3, <1>4, <1>5 DEF UrlParts
<1>7. PICK kv \in Pairs : kv = <<k, v>> /\ kv[1] = k /\ kv[2] = v
    <2>1. <<k, v>> \in Pairs
        BY <1>1 DEF Pairs
    <2>2. QED
        BY <2>1
<1>8. Append(added, kv) \in Queries
    BY <1>2 DEF Queries
<1>9. Carried(Append(added, kv), t)
    <2> SUFFICES ASSUME Separated(Append(added, kv))
                 PROVE  Query!UrlQuery(t)
                            = Target!AddEach(Query!UrlQuery(address.query), Append(added, kv))
        BY DEF Carried
    <2>1. /\ Len(added) \in Nat /\ Len(Append(added, kv)) = Len(added) + 1
          /\ Append(added, kv)[Len(added) + 1] = kv
          /\ \A i \in 1..Len(added) : Append(added, kv)[i] = added[i]
        BY <1>2 DEF Queries
    <2>2. /\ Len(added) + 1 \in 1..Len(Append(added, kv))
          /\ \A i \in 1..Len(added) : i \in 1..Len(Append(added, kv))
        BY <2>1
    <2>3. Target!Separable(kv)
        BY <2>1, <2>2 DEF Separated
    <2>4. Separated(added)
        BY <2>1, <2>2 DEF Separated
    <2>5. Parted(k, v)
        BY <1>7, <2>3 DEF Parted, Lacks, Target!Separable, Target!Without, Target!Ampersand,
                          Target!Equals, Query!Ampersand, Query!Equals
    <2>6. Query!UrlQuery(t) = Query!Add(Query!UrlQuery(s), k, v)
        BY <1>1, <1>5, <2>5, QueryAdded
    <2>7. PICK q \in Queries : q = Query!UrlQuery(address.query)
        BY <1>2, UrlQueryIs DEF UrlParts
    <2>8. Query!UrlQuery(s) = Target!AddEach(q, added)
        BY <1>4, <2>4, <2>7 DEF TargetInv, QueryCarried, Carried
    <2>9. Target!AddEach(q, Append(added, kv)) = Query!Add(Target!AddEach(q, added), kv[1], kv[2])
        BY <1>2, AddOneMore
    <2>10. QED
        BY <1>7, <2>6, <2>7, <2>8, <2>9
<1>10. TargetType' /\ PathWhole'
    BY <1>2, <1>3, <1>6, <1>7, <1>8 DEF TargetType, PathWhole
<1>11. QueryCarried'
    BY <1>3, <1>6, <1>7, <1>9 DEF QueryCarried, Carried
<1>12. LineBuilt' /\ SeenRead'
    BY <1>3 DEF TargetInv, LineBuilt, SeenRead, Carried
<1>13. QED
    BY <1>10, <1>11, <1>12 DEF TargetInv

LEMMA TargetSendStep ==
    ASSUME TargetInv, Target!Send
    PROVE  TargetInv'
<1>1. /\ address' = address /\ url' = url /\ added' = added
      /\ start_line' = IF start_line = <<>> THEN Target!CreateStartLine(url) ELSE start_line
      /\ built' = IF start_line = <<>> THEN added ELSE built
      /\ seen' = Target!Read(start_line')
    BY DEF Target!Send
<1>2. PICK t \in Text : t = url.query
    BY DEF TargetInv, TargetType, UrlParts
<1>3. PICK path \in Text : path = address.path
    BY DEF TargetInv, TargetType, UrlParts
<1>4. Target!CreateStartLine(url) = Line(path, t)
    BY <1>2, <1>3 DEF TargetInv, PathWhole, Target!CreateStartLine, Line, Marked
<1>5. Line(path, t) # <<>>
    <2>1. Len(Line(path, t)) > 0
        BY LineIs
    <2>2. QED
        BY <2>1
<1>6. start_line' # <<>>
    BY <1>1, <1>4, <1>5
<1>7. TargetType' /\ PathWhole' /\ QueryCarried'
    BY <1>1 DEF TargetInv, TargetType, PathWhole, QueryCarried, Carried
<1>8. LineBuilt'
    <2>1. CASE start_line = <<>>
        <3>1. start_line' = Line(path, t) /\ built' = added
            BY <1>1, <1>4, <2>1
        <3>2. Carried(added, t)
            BY <1>2 DEF TargetInv, QueryCarried
        <3>3. QED
            BY <1>1, <1>3, <3>1, <3>2 DEF LineBuilt, Carried
    <2>2. CASE start_line # <<>>
        BY <1>1, <2>2 DEF TargetInv, LineBuilt, Carried
    <2>3. QED
        BY <2>1, <2>2
<1>9. SeenRead'
    BY <1>1, <1>6 DEF SeenRead
<1>10. QED
    BY <1>7, <1>8, <1>9 DEF TargetInv

LEMMA TargetInvariant == Spec => []TargetInv
<1>1. Init => TargetInv
    BY TargetInit DEF Init
<1>2. TargetInv /\ [Next]_vars => TargetInv'
    <2> SUFFICES ASSUME TargetInv, [Target!Next]_Target!vars PROVE TargetInv'
        BY PartSteps
    <2>1. CASE Target!Next
        BY <2>1, AddQueryStep, TargetSendStep DEF Target!Next
    <2>2. CASE UNCHANGED Target!vars
        BY <2>2 DEF Target!vars, TargetInv, TargetType, PathWhole, QueryCarried, LineBuilt,
                    SeenRead, Carried
    <2>3. QED
        BY <2>1, <2>2
<1>3. QED
    BY <1>1, <1>2, PTL DEF Spec

\* For any address, any parameters and any number of sends: a target without blanks,
\* percent signs or "://" is read by the server as the path of the address and the
\* parameters of its query, followed by the ones that were added before the first
\* send, if the syntax of a query does not take these apart.
THEOREM TargetSafe == Spec => []TargetArrives
<1>1. TargetInv => TargetArrives
    <2> SUFFICES ASSUME TargetInv, seen.status # "none", Target!Plain(start_line)
                 PROVE  /\ seen.path = address.path
                        /\ Separated(built)
                               => seen.parameters
                                      = Target!AddEach(Target!UrlQuery(address.query), built)
        BY Zenon DEF TargetArrives, Target!TargetArrives, Separated
    <2>1. start_line # <<>> /\ seen = Target!Read(start_line)
        BY DEF TargetInv, SeenRead
    <2>2. PICK t \in Text : start_line = Line(address.path, t) /\ Carried(built, t)
        BY <2>1 DEF TargetInv, LineBuilt
    <2>3. PICK path \in Text : path = address.path /\ Lacks(path, Target!Question)
        BY DEF TargetInv, TargetType, PathWhole, UrlParts
    <2>4. seen = [status |-> "read", path |-> path, parameters |-> Query!UrlQuery(t)]
        <3>1. Target!Plain(Line(path, t))
            BY <2>2, <2>3
        <3>2. Target!Read(Line(path, t)) =
                  [status |-> "read", path |-> path, parameters |-> Query!UrlQuery(t)]
            BY <2>3, <3>1, ReadIs
        <3>3. QED
            BY <2>1, <2>2, <2>3, <3>2
    <2>5. seen.path = path /\ seen.parameters = Query!UrlQuery(t)
        BY <2>4
    <2>6. Target!UrlQuery(address.query) = Query!UrlQuery(address.query)
        BY TargetUsesQuery
    <2>7. QED
        BY <2>2, <2>3, <2>5, <2>6 DEF Carried
<1>2. QED
    BY <1>1, TargetInvariant, PTL
=============================================================================

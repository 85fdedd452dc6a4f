------------------------ MODULE LogicalAcquireProofs ------------------------
(***************************************************************************)
(* That nothing is lost silently in a logical acquisition, for any tree,   *)
(* any order of the two threads, any queue bound and any failure.          *)
(* First the walk: InlineItems is what its recursion says (by induction on *)
(* depth), and what the scanner has sent, is sending and has still to walk *)
(* is always the inline walk of the roots.  Then the tree: the items taken *)
(* one by one build frames, roots and edges as a function of the items     *)
(* (Turn), and the items of one entry, whatever is open around it, only    *)
(* join that entry to the innermost directory and add the edges of the     *)
(* directories in it.  Then the acquisition: its invariant splits the walk *)
(* into what was taken - of which everything has been told, and which has  *)
(* built the tree there is - what is in hand, and what is ahead.           *)
(***************************************************************************)
EXTENDS LogicalAcquire, Inductions, SequenceTheorems, FiniteSetTheorems, TLAPS

-----------------------------------------------------------------------------
(* The walk without a thread *)

\* What a directory's listing yields by the items its entries yield, and what
\* an entry does.
ListingOf(items, dir) ==
  IF dir \in Listable
  THEN Times(Unlisted[dir], Of("Skipped", dir))
       \o FlattenSeq([i \in DOMAIN Children[dir] |-> items[Children[dir][i]]])
  ELSE <<Of("Skipped", dir)>>
ItemsOf(items, path) ==
  CASE Kind[path] \in {"special", "unreadable"} -> <<Of("Skipped", path)>>
    [] Kind[path] = "file" -> <<Of("File", path)>>
    [] OTHER -> <<Of("Dir", path)>> \o ListingOf(items, path) \o <<Of("DirEnd", path)>>

\* Items are items.
LEMMA OfType ==
  ASSUME NEW path \in Entries
  PROVE  /\ Of("Skipped", path) \in Item /\ Of("File", path) \in Item
         /\ Of("Dir", path) \in Item /\ Of("DirEnd", path) \in Item
BY DEF Of, Item

\* One item is a sequence of items.
LEMMA OneItem ==
  ASSUME NEW S, NEW x \in S
  PROVE  <<x>> \in Seq(S) /\ Len(<<x>>) = 1 /\ <<x>>[1] = x
OBVIOUS

\* So is an item again and again.
LEMMA TimesType ==
  ASSUME NEW S, NEW x \in S, NEW n \in Nat
  PROVE  Times(n, x) \in Seq(S) /\ Len(Times(n, x)) = n
BY DEF Times

\* What the entries of a directory yield, one after another.
LEMMA PicksType ==
  ASSUME NEW items \in [Entries -> Seq(Item)], NEW paths \in Seq(Entries)
  PROVE  [i \in DOMAIN paths |-> items[paths[i]]] \in Seq(Seq(Item))
<1>1. Len(paths) \in Nat /\ DOMAIN paths = 1..Len(paths) /\ \A i \in 1..Len(paths) : paths[i] \in Entries
  OBVIOUS
<1>2. \A i \in 1..Len(paths) : items[paths[i]] \in Seq(Item)
  BY <1>1
<1>. QED BY <1>1, <1>2

LEMMA ListingType ==
  ASSUME NEW items \in [Entries -> Seq(Item)], NEW dir \in Entries
  PROVE  ListingOf(items, dir) \in Seq(Item)
<1>1. CASE dir \in Listable
  <2>1. Times(Unlisted[dir], Of("Skipped", dir)) \in Seq(Item)
    BY ScanAssumption, TimesType, OfType
  <2>2. FlattenSeq([i \in DOMAIN Children[dir] |-> items[Children[dir][i]]]) \in Seq(Item)
    BY ScanAssumption, PicksType, FlattenedIsSequence
  <2>. QED BY <1>1, <2>1, <2>2 DEF ListingOf
<1>2. CASE dir \notin Listable
  BY <1>2, OfType, OneItem DEF ListingOf
<1>. QED BY <1>1, <1>2

LEMMA ItemsType ==
  ASSUME NEW items \in [Entries -> Seq(Item)], NEW path \in Entries
  PROVE  ItemsOf(items, path) \in Seq(Item)
<1>1. /\ <<Of("Skipped", path)>> \in Seq(Item) /\ <<Of("File", path)>> \in Seq(Item)
      /\ <<Of("Dir", path)>> \in Seq(Item) /\ <<Of("DirEnd", path)>> \in Seq(Item)
  BY OfType, OneItem
<1>2. <<Of("Dir", path)>> \o ListingOf(items, path) \in Seq(Item)
  BY <1>1, ListingType
<1>3. <<Of("Dir", path)>> \o ListingOf(items, path) \o <<Of("DirEnd", path)>> \in Seq(Item)
  BY <1>1, <1>2
<1>. QED BY <1>1, <1>3 DEF ItemsOf

\* An entry's items depend on those of what is in it.
LEMMA ItemsAlike ==
  ASSUME NEW f, NEW g, NEW path \in Entries,
         \A child \in Range(Children[path]) : f[child] = g[child]
  PROVE  ItemsOf(f, path) = ItemsOf(g, path)
<1>1. \A i \in DOMAIN Children[path] : f[Children[path][i]] = g[Children[path][i]]
  BY DEF Range
<1>2. [i \in DOMAIN Children[path] |-> f[Children[path][i]]]
      = [i \in DOMAIN Children[path] |-> g[Children[path][i]]]
  BY <1>1
<1>. QED BY <1>2 DEF ItemsOf, ListingOf

\* The children of an entry are entries.
LEMMA ChildrenAreEntries ==
  ASSUME NEW path \in Entries
  PROVE  Children[path] \in Seq(Entries) /\ Range(Children[path]) \subseteq Entries
BY ScanAssumption DEF Range

\* A function that is the recursion: one more level of every tree at a time.
LEMMA WalkExists ==
  \E f : f \in [Entries -> Seq(Item)] /\ f = [path \in Entries |-> ItemsOf(f, path)]
<1>. PICK depth \in [Entries -> 0..MaxDepth] :
       \A dir \in Entries : \A child \in Range(Children[dir]) : depth[child] < depth[dir]
  BY ScanAssumption
<1>. DEFINE N == MaxDepth + 1
            X == [Entries -> Seq(Item)]
            a == [path \in Entries |-> <<>>]
            Turn == [items \in X |-> [path \in Entries |-> ItemsOf(items, path)]]
            F == [k \in 1..N |-> Turn]
<1>1. N \in Nat /\ MaxDepth \in Nat
  BY ScanAssumption
<1>2. a \in X
  OBVIOUS
<1>3. \A items \in X : [path \in Entries |-> ItemsOf(items, path)] \in X
  BY ItemsType
<1>4. F \in [1..N -> [X -> X]]
  BY <1>3
<1>. HIDE DEF X
<1>5. HasTurns(N, X, a, F)
  BY <1>1, <1>2, <1>4, TurnByTurn
<1>6. PICK g \in [0..N -> X] : g[0] = a /\ \A k \in 1..N : g[k] = F[k][g[k - 1]]
  BY <1>5 DEF HasTurns
<1>7. ASSUME NEW k \in 1..N
      PROVE  g[k - 1] \in X /\ \A path \in Entries : g[k][path] = ItemsOf(g[k - 1], path)
  <2>1. k - 1 \in 0..N
    BY <1>1
  <2>2. g[k - 1] \in X
    BY <1>6, <2>1
  <2>3. g[k] = Turn[g[k - 1]]
    BY <1>6
  <2>. QED BY <2>2, <2>3
<1>. DEFINE S == {k \in 0..N : \A path \in Entries : depth[path] < k => g[k][path] = ItemsOf(g[k], path)}
<1>8. 0 \in S
  BY <1>1
<1>9. ASSUME NEW k \in 0..(N - 1), k \in S PROVE k + 1 \in S
  <2>1. k + 1 \in 1..N /\ k + 1 - 1 = k
    BY <1>1
  <2>2. \A path \in Entries : g[k + 1][path] = ItemsOf(g[k], path)
    BY <1>7, <2>1
  <2>3. ASSUME NEW path \in Entries, depth[path] < k + 1
        PROVE  g[k + 1][path] = ItemsOf(g[k + 1], path)
    <3>1. ASSUME NEW child \in Range(Children[path]) PROVE g[k + 1][child] = g[k][child]
      <4>1. child \in Entries /\ depth[child] < depth[path]
        BY ChildrenAreEntries
      <4>2. depth[child] \in Int /\ depth[path] \in Int
        BY <4>1, <1>1
      <4>3. depth[child] < k
        BY <2>3, <4>1, <4>2, <1>1
      <4>4. g[k][child] = ItemsOf(g[k], child)
        BY <1>9, <4>1, <4>3
      <4>. QED BY <2>2, <4>1, <4>4
    <3>2. ItemsOf(g[k + 1], path) = ItemsOf(g[k], path)
      BY <3>1, ItemsAlike
    <3>. QED BY <2>2, <3>2
  <2>. QED BY <2>1, <2>3
<1>. HIDE DEF S
<1>10. 0..N \subseteq S
  BY <1>1, <1>8, <1>9, NumbersUpTo
<1>11. N \in S /\ g[N] \in X
  BY <1>1, <1>6, <1>10
<1>12. \A path \in Entries : depth[path] < N
  BY <1>1
<1>13. \A path \in Entries : g[N][path] = ItemsOf(g[N], path)
  BY <1>11, <1>12 DEF S
<1>14. g[N] \in [Entries -> Seq(Item)]
  BY <1>11 DEF X
<1>. QED BY <1>13, <1>14

\* There is one such function.
LEMMA WalkIsOne ==
  ASSUME NEW f, f = [path \in Entries |-> ItemsOf(f, path)],
         NEW g, g = [path \in Entries |-> ItemsOf(g, path)]
  PROVE  f = g
<1>. PICK depth \in [Entries -> 0..MaxDepth] :
       \A dir \in Entries : \A child \in Range(Children[dir]) : depth[child] < depth[dir]
  BY ScanAssumption
<1>. DEFINE N == MaxDepth + 1
            S == {k \in 0..N : \A path \in Entries : depth[path] < k => f[path] = g[path]}
<1>1. N \in Nat /\ MaxDepth \in Nat
  BY ScanAssumption
<1>2. 0 \in S
  BY <1>1
<1>3. ASSUME NEW k \in 0..(N - 1), k \in S PROVE k + 1 \in S
  <2>1. ASSUME NEW path \in Entries, depth[path] < k + 1 PROVE f[path] = g[path]
    <3>1. ASSUME NEW child \in Range(Children[path]) PROVE f[child] = g[child]
      <4>1. child \in Entries /\ depth[child] < depth[path]
        BY ChildrenAreEntries
      <4>2. depth[child] \in Int /\ depth[path] \in Int
        BY <4>1, <1>1
      <4>. QED BY <1>1, <1>3, <2>1, <4>1, <4>2
    <3>2. ItemsOf(f, path) = ItemsOf(g, path)
      BY <3>1, ItemsAlike
    <3>3. f[path] = ItemsOf(f, path) /\ g[path] = ItemsOf(g, path)
      OBVIOUS
    <3>. QED BY <3>2, <3>3
  <2>. QED BY <1>1, <2>1
<1>. HIDE DEF S
<1>4. 0..N \subseteq S
  BY <1>1, <1>2, <1>3, NumbersUpTo
<1>5. N \in S /\ \A path \in Entries : depth[path] < N
  BY <1>1, <1>4
<1>6. \A path \in Entries : f[path] = g[path]
  BY <1>5 DEF S
<1>7. \A path \in Entries : f[path] = ItemsOf(f, path) /\ g[path] = ItemsOf(g, path)
  OBVIOUS
<1>8. \A path \in Entries : ItemsOf(f, path) = ItemsOf(g, path)
  BY <1>6, <1>7
<1>9. [path \in Entries |-> ItemsOf(f, path)] = [path \in Entries |-> ItemsOf(g, path)]
  BY <1>8
<1>. QED BY <1>9

(* The inline walk is the recursion (collect_items of logical.rs).            *)
LEMMA InlineIsTheRecursion ==
  /\ InlineItems \in [Entries -> Seq(Item)]
  /\ \A path \in Entries : InlineItems[path] = ItemsOf(InlineItems, path)
<1>1. PICK f : f \in [Entries -> Seq(Item)] /\ f = [path \in Entries |-> ItemsOf(f, path)]
  BY WalkExists
<1>2. InlineItems = CHOOSE h : h = [path \in Entries |-> ItemsOf(h, path)]
  BY DEF InlineItems, ItemsOf, ListingOf
<1>3. InlineItems = [path \in Entries |-> ItemsOf(InlineItems, path)]
  BY <1>1, <1>2
<1>4. InlineItems = f
  BY <1>1, <1>3, WalkIsOne
<1>5. \A path \in Entries : InlineItems[path] = ItemsOf(InlineItems, path)
  BY <1>3
<1>. QED BY <1>1, <1>4, <1>5

-----------------------------------------------------------------------------
(* The scanner *)

\* What is sent for a task, and for what is left of the walk.
Yield(task) ==
  CASE task.do = "visit" -> InlineItems[task.path]
    [] task.do = "list" -> ListingOf(InlineItems, task.path) \o <<Of("DirEnd", task.path)>>
    [] task.do = "skip" -> <<Of("Skipped", task.path)>>
    [] OTHER -> <<Of("DirEnd", task.path)>>
Yields(tasks) == [i \in DOMAIN tasks |-> Yield(tasks[i])]
WalkedBy(tasks) == FlattenSeq(Yields(tasks))

\* A task is one.
LEMMA DoType ==
  ASSUME NEW path \in Entries, NEW what \in {"visit", "list", "skip", "end"}
  PROVE  Do(what, path) \in Task /\ Do(what, path).do = what /\ Do(what, path).path = path
BY DEF Do, Task

LEMMA YieldType == \A task \in Task : Yield(task) \in Seq(Item)
<1>. SUFFICES ASSUME NEW task \in Task PROVE Yield(task) \in Seq(Item)
  OBVIOUS
<1>1. task.path \in Entries
  BY DEF Task
<1>2. InlineItems[task.path] \in Seq(Item)
  BY <1>1, InlineIsTheRecursion
<1>3. <<Of("Skipped", task.path)>> \in Seq(Item) /\ <<Of("DirEnd", task.path)>> \in Seq(Item)
  BY <1>1, OfType, OneItem
<1>4. ListingOf(InlineItems, task.path) \o <<Of("DirEnd", task.path)>> \in Seq(Item)
  BY <1>1, <1>3, ListingType, InlineIsTheRecursion
<1>. QED BY <1>2, <1>3, <1>4 DEF Yield

LEMMA YieldsType ==
  ASSUME NEW tasks \in Seq(Task)
  PROVE  Yields(tasks) \in Seq(Seq(Item)) /\ WalkedBy(tasks) \in Seq(Item)
<1>1. Yields(tasks) \in Seq(Seq(Item))
  <2>1. DOMAIN tasks = 1..Len(tasks) /\ \A i \in 1..Len(tasks) : tasks[i] \in Task
    OBVIOUS
  <2>2. \A i \in 1..Len(tasks) : Yield(tasks[i]) \in Seq(Item)
    BY <2>1, YieldType
  <2>. QED BY <2>1, <2>2 DEF Yields
<1>. QED BY <1>1, FlattenedIsSequence DEF WalkedBy

\* Tasks after tasks yield items after items.
LEMMA WalkedTogether ==
  ASSUME NEW a \in Seq(Task), NEW b \in Seq(Task)
  PROVE  WalkedBy(a \o b) = WalkedBy(a) \o WalkedBy(b)
<1>1. Yields(a \o b) = Yields(a) \o Yields(b)
  <2>1. /\ a \o b \in Seq(Task) /\ Len(a \o b) = Len(a) + Len(b)
        /\ \A i \in 1..(Len(a) + Len(b)) : (a \o b)[i] = IF i <= Len(a) THEN a[i] ELSE b[i - Len(a)]
    BY ConcatProperties
  <2>2. /\ DOMAIN a = 1..Len(a) /\ DOMAIN b = 1..Len(b) /\ DOMAIN (a \o b) = 1..(Len(a) + Len(b))
        /\ Len(a) \in Nat /\ Len(b) \in Nat
    BY <2>1
  <2>3. Yields(a) \in Seq(Seq(Item)) /\ Yields(b) \in Seq(Seq(Item)) /\ Yields(a \o b) \in Seq(Seq(Item))
    BY <2>1, YieldsType
  <2>4. Len(Yields(a)) = Len(a) /\ Len(Yields(b)) = Len(b) /\ Len(Yields(a \o b)) = Len(a) + Len(b)
    BY <2>2, <2>3 DEF Yields
  <2>5. /\ \A i \in 1..Len(a) : Yields(a)[i] = Yield(a[i])
        /\ \A i \in 1..Len(b) : Yields(b)[i] = Yield(b[i])
        /\ \A i \in 1..(Len(a) + Len(b)) : Yields(a \o b)[i] = Yield((a \o b)[i])
    BY <2>2 DEF Yields
  <2>6. /\ Yields(a) \o Yields(b) \in Seq(Seq(Item))
        /\ Len(Yields(a) \o Yields(b)) = Len(a) + Len(b)
        /\ \A i \in 1..(Len(a) + Len(b)) :
             (Yields(a) \o Yields(b))[i] = IF i <= Len(a) THEN Yields(a)[i] ELSE Yields(b)[i - Len(a)]
    <3>1. PICK ya \in Seq(Seq(Item)) : ya = Yields(a)
      BY <2>3
    <3>2. PICK yb \in Seq(Seq(Item)) : yb = Yields(b)
      BY <2>3
    <3>3. /\ ya \o yb \in Seq(Seq(Item)) /\ Len(ya \o yb) = Len(a) + Len(b)
          /\ \A i \in 1..(Len(a) + Len(b)) : (ya \o yb)[i] = IF i <= Len(a) THEN ya[i] ELSE yb[i - Len(a)]
      <4>1. PICK m \in Nat : m = Len(a)
        BY <2>2
      <4>2. PICK n \in Nat : n = Len(b)
        BY <2>2
      <4>3. Len(ya) = m /\ Len(yb) = n
        BY <2>4, <3>1, <3>2, <4>1, <4>2
      <4>4. ya \o yb \in Seq(Seq(Item)) /\ Len(ya \o yb) = m + n
        <5>1. ya \o yb \in Seq(Seq(Item)) /\ Len(ya \o yb) = Len(ya) + Len(yb)
          BY <3>1, <3>2, ConcatProperties, Zenon
        <5>. QED BY <4>3, <5>1
      <4>5. \A i \in 1..(m + n) : (ya \o yb)[i] = IF i <= m THEN ya[i] ELSE yb[i - m]
        BY <3>1, <3>2, <4>1, <4>2, <4>3
      <4>. QED BY <4>1, <4>2, <4>4, <4>5
    <3>. QED BY <3>1, <3>2, <3>3
  <2>7. \A i \in 1..(Len(a) + Len(b)) : Yields(a \o b)[i] = (Yields(a) \o Yields(b))[i]
    <3>. TAKE i \in 1..(Len(a) + Len(b))
    <3>1. CASE i <= Len(a)
      <4>1. i \in 1..Len(a)
        BY <2>2, <3>1
      <4>. QED BY <2>1, <2>5, <2>6, <3>1, <4>1
    <3>2. CASE ~(i <= Len(a))
      <4>1. i - Len(a) \in 1..Len(b)
        BY <2>2, <3>2
      <4>. QED BY <2>1, <2>5, <2>6, <3>2, <4>1
    <3>. QED BY <3>1, <3>2
  <2>. QED BY <2>3, <2>4, <2>6, <2>7, SeqEqual
<1>. QED BY <1>1, YieldsType, FlattenTogether DEF WalkedBy

LEMMA WalkedOne ==
  ASSUME NEW task \in Task
  PROVE  WalkedBy(<<task>>) = Yield(task)
<1>1. Yields(<<task>>) = <<Yield(task)>>
  BY DEF Yields
<1>. QED BY <1>1, YieldType, FlattenOne DEF WalkedBy

LEMMA WalkedNone == WalkedBy(<<>>) = <<>>
<1>1. Yields(<<>>) = <<>>
  BY DEF Yields
<1>. QED BY <1>1, FlattenNone DEF WalkedBy

\* The first task is done before the rest.
LEMMA WalkedFirst ==
  ASSUME NEW tasks \in Seq(Task), tasks # <<>>
  PROVE  /\ Head(tasks) \in Task /\ Tail(tasks) \in Seq(Task)
         /\ WalkedBy(tasks) = Yield(Head(tasks)) \o WalkedBy(Tail(tasks))
<1>1. Head(tasks) \in Task /\ Tail(tasks) \in Seq(Task)
  OBVIOUS
<1>2. <<Head(tasks)>> \in Seq(Task) /\ tasks = <<Head(tasks)>> \o Tail(tasks)
  BY <1>1
<1>3. WalkedBy(tasks) = WalkedBy(<<Head(tasks)>>) \o WalkedBy(Tail(tasks))
  BY <1>1, <1>2, WalkedTogether
<1>. QED BY <1>1, <1>3, WalkedOne

\* Visiting paths one after another.
LEMMA WalkedVisits ==
  ASSUME NEW paths \in Seq(Entries)
  PROVE  /\ Visits(paths) \in Seq(Task)
         /\ WalkedBy(Visits(paths)) = FlattenSeq([i \in DOMAIN paths |-> InlineItems[paths[i]]])
<1>1. DOMAIN paths = 1..Len(paths) /\ Len(paths) \in Nat /\ \A i \in 1..Len(paths) : paths[i] \in Entries
  OBVIOUS
<1>2. \A i \in 1..Len(paths) : Do("visit", paths[i]) \in Task /\ Yield(Do("visit", paths[i])) = InlineItems[paths[i]]
  BY <1>1, DoType DEF Yield
<1>3. Visits(paths) \in Seq(Task) /\ DOMAIN Visits(paths) = 1..Len(paths)
      /\ \A i \in 1..Len(paths) : Visits(paths)[i] = Do("visit", paths[i])
  BY <1>1, <1>2 DEF Visits
<1>4. Yields(Visits(paths)) = [i \in DOMAIN paths |-> InlineItems[paths[i]]]
  BY <1>1, <1>2, <1>3 DEF Yields
<1>. QED BY <1>3, <1>4 DEF WalkedBy

\* Reporting one path again and again.
LEMMA WalkedSkips ==
  ASSUME NEW path \in Entries, NEW n \in Nat
  PROVE  /\ Times(n, Do("skip", path)) \in Seq(Task)
         /\ WalkedBy(Times(n, Do("skip", path))) = Times(n, Of("Skipped", path))
<1>. DEFINE task == Do("skip", path)
            skip == Of("Skipped", path)
            S == {k \in 0..n : WalkedBy(Times(k, task)) = Times(k, skip)}
<1>1. task \in Task /\ Yield(task) = <<skip>> /\ skip \in Item
  BY DoType, OfType DEF Yield
<1>. HIDE DEF task, skip
<1>2. \A k \in Nat : Times(k, task) \in Seq(Task) /\ Times(k, skip) \in Seq(Item)
  BY <1>1, TimesType
<1>3. ASSUME NEW T, NEW x \in T, NEW k \in Nat PROVE Times(k + 1, x) = Times(k, x) \o <<x>>
  <2>1. Times(k + 1, x) \in Seq(T) /\ Len(Times(k + 1, x)) = k + 1
        /\ Times(k, x) \in Seq(T) /\ Len(Times(k, x)) = k
    BY <1>3, TimesType
  <2>2. <<x>> \in Seq(T) /\ Len(<<x>>) = 1 /\ <<x>>[1] = x
    OBVIOUS
  <2>3. Times(k, x) \o <<x>> \in Seq(T) /\ Len(Times(k, x) \o <<x>>) = k + 1
        /\ \A i \in 1..(k + 1) : (Times(k, x) \o <<x>>)[i] = IF i <= k THEN Times(k, x)[i] ELSE <<x>>[i - k]
    BY <2>1, <2>2, ConcatProperties
  <2>4. \A i \in 1..(k + 1) : Times(k + 1, x)[i] = x /\ (i <= k => Times(k, x)[i] = x) /\ (~(i <= k) => i - k = 1)
    BY DEF Times
  <2>5. \A i \in 1..(k + 1) : Times(k + 1, x)[i] = (Times(k, x) \o <<x>>)[i]
    BY <2>2, <2>3, <2>4
  <2>. QED BY <2>1, <2>3, <2>5, SeqEqual
<1>4. 0 \in S
  <2>1. Times(0, task) = <<>> /\ Times(0, skip) = <<>>
    BY DEF Times
  <2>. QED BY <2>1, WalkedNone
<1>5. ASSUME NEW k \in 0..(n - 1), k \in S PROVE k + 1 \in S
  <2>1. k \in Nat /\ k + 1 \in 0..n
    OBVIOUS
  <2>2. Times(k + 1, task) = Times(k, task) \o <<task>> /\ Times(k + 1, skip) = Times(k, skip) \o <<skip>>
    BY <1>1, <1>3, <2>1
  <2>3. WalkedBy(Times(k, task) \o <<task>>) = WalkedBy(Times(k, task)) \o WalkedBy(<<task>>)
    BY <1>1, <1>2, <2>1, OneItem, WalkedTogether
  <2>4. WalkedBy(<<task>>) = <<skip>>
    BY <1>1, WalkedOne
  <2>. QED BY <1>5, <2>1, <2>2, <2>3, <2>4
<1>. HIDE DEF S
<1>6. 0..n \subseteq S
  BY <1>4, <1>5, NumbersUpTo
<1>7. n \in S
  BY <1>6
<1>. QED BY <1>2, <1>7 DEF S, task, skip

\* read_dir turns a directory still to be listed into what it yields.
LEMMA WalkedListed ==
  ASSUME NEW dir \in Entries
  PROVE  Listed(dir) \in Seq(Task) /\ WalkedBy(Listed(dir)) = Yield(Do("list", dir))
<1>. DEFINE skips == Times(Unlisted[dir], Do("skip", dir))
            inner == IF dir \in Listable THEN skips \o Visits(Children[dir]) ELSE <<Do("skip", dir)>>
<1>1. /\ Unlisted[dir] \in Nat /\ Children[dir] \in Seq(Entries)
      /\ Do("skip", dir) \in Task /\ Do("end", dir) \in Task /\ Do("list", dir) \in Task
  BY ScanAssumption, DoType
<1>2. /\ Yield(Do("end", dir)) = <<Of("DirEnd", dir)>>
      /\ Yield(Do("skip", dir)) = <<Of("Skipped", dir)>>
      /\ Yield(Do("list", dir)) = ListingOf(InlineItems, dir) \o <<Of("DirEnd", dir)>>
  BY DoType DEF Yield
<1>3. inner \in Seq(Task) /\ WalkedBy(inner) = ListingOf(InlineItems, dir)
  <2>1. CASE dir \in Listable
    <3>1. skips \in Seq(Task) /\ WalkedBy(skips) = Times(Unlisted[dir], Of("Skipped", dir))
      BY <1>1, WalkedSkips
    <3>2. /\ Visits(Children[dir]) \in Seq(Task)
          /\ WalkedBy(Visits(Children[dir]))
             = FlattenSeq([i \in DOMAIN Children[dir] |-> InlineItems[Children[dir][i]]])
      BY <1>1, WalkedVisits
    <3>3. inner = skips \o Visits(Children[dir])
      BY <2>1
    <3>. HIDE DEF skips, inner
    <3>4. inner \in Seq(Task)
      BY <3>1, <3>2, <3>3
    <3>5. WalkedBy(skips \o Visits(Children[dir])) = WalkedBy(skips) \o WalkedBy(Visits(Children[dir]))
      BY <3>1, <3>2, WalkedTogether
    <3>. QED BY <2>1, <3>1, <3>2, <3>3, <3>4, <3>5 DEF ListingOf
  <2>2. CASE dir \notin Listable
    <3>1. inner = <<Do("skip", dir)>> /\ inner \in Seq(Task)
      BY <1>1, <2>2, OneItem
    <3>. QED BY <1>1, <1>2, <2>2, <3>1, WalkedOne DEF ListingOf
  <2>. QED BY <2>1, <2>2
<1>4. Listed(dir) = inner \o <<Do("end", dir)>>
  BY DEF Listed
<1>. HIDE DEF inner
<1>5. <<Do("end", dir)>> \in Seq(Task) /\ WalkedBy(<<Do("end", dir)>>) = <<Of("DirEnd", dir)>>
  BY <1>1, <1>2, OneItem, WalkedOne
<1>6. WalkedBy(inner \o <<Do("end", dir)>>) = WalkedBy(inner) \o WalkedBy(<<Do("end", dir)>>)
  BY <1>3, <1>5, WalkedTogether
<1>7. inner \o <<Do("end", dir)>> \in Seq(Task)
  BY <1>3, <1>5
<1>. QED BY <1>2, <1>3, <1>4, <1>5, <1>6, <1>7

\* What is being sent.
Sending == IF item = NoItem THEN <<>> ELSE <<item>>
\* The scanner sends the walk, or has been hung up on.
OnCourse == sent \o Sending \o WalkedBy(walk) = WalkItems
HungUp == ~receiving /\ item = NoItem /\ walk = <<>> /\ IsPrefix(sent, WalkItems)
WalkTypes ==
  /\ walk \in Seq(Task) /\ item \in Item \cup {NoItem} /\ sent \in Seq(Item)
  /\ receiving \in BOOLEAN /\ scanner \in {"unborn", "walking", "complete", "gone"}
WalkInv ==
  /\ WalkTypes
  /\ scanner \in {"complete", "gone"} => item = NoItem /\ walk = <<>>
  /\ OnCourse \/ HungUp

\* No item is no item.
LEMMA NoItemIsNone == NoItem \notin Item /\ \A i \in Item : i # NoItem
BY DEF NoItem, Item

LEMMA WalkItemsType == WalkItems \in Seq(Item)
BY ScanAssumption, InlineIsTheRecursion, PicksType, FlattenedIsSequence DEF WalkItems

\* What comes first of two joined is a prefix of both.
LEMMA PrefixOfJoined ==
  ASSUME NEW S, NEW s \in Seq(S), NEW t \in Seq(S)
  PROVE  IsPrefix(s, s \o t)
<1>1. s \o t \in Seq(S) /\ Len(s \o t) = Len(s) + Len(t) /\ Len(s) \in Nat /\ Len(t) \in Nat
      /\ \A i \in 1..Len(s) : (s \o t)[i] = s[i]
  BY ConcatProperties
<1>2. SubSeq(s, 1, Len(s)) = s
  BY SubSeqFull
<1>3. \A i \in 1..Len(s) : (s \o t)[i] \in S
  BY <1>1
<1>4. /\ SubSeq(s \o t, 1, Len(s)) \in Seq(S) /\ Len(SubSeq(s \o t, 1, Len(s))) = Len(s)
      /\ \A i \in 1..Len(s) : SubSeq(s \o t, 1, Len(s))[i] = (s \o t)[i]
  <2>. DEFINE n == Len(s)
  <2>1. n \in Nat
    BY <1>1
  <2>. QED BY <1>1, <1>3
<1>5. SubSeq(s \o t, 1, Len(s)) = s
  BY <1>1, <1>4, SeqEqual
<1>. QED BY <1>1, <1>2, <1>5 DEF IsPrefix

\* A sequence is a prefix of itself.
LEMMA PrefixOfItself ==
  ASSUME NEW S, NEW s \in Seq(S)
  PROVE  IsPrefix(s, s)
BY LenProperties DEF IsPrefix

\* Three joined, however they are.
LEMMA JoinThree ==
  ASSUME NEW S, NEW a \in Seq(S), NEW b \in Seq(S), NEW c \in Seq(S)
  PROVE  /\ a \o b \in Seq(S) /\ b \o c \in Seq(S) /\ (a \o b) \o c \in Seq(S)
         /\ (a \o b) \o c = a \o (b \o c)
         /\ a \o <<>> = a /\ <<>> \o a = a
BY ConcatAssociative, ConcatProperties, ConcatEmptySeq

LEMMA SendingType ==
  ASSUME WalkTypes
  PROVE  Sending \in Seq(Item)
<1>1. CASE item = NoItem
  BY <1>1, EmptySeq DEF Sending
<1>2. CASE item # NoItem
  BY <1>2 DEF Sending, WalkTypes
<1>. QED BY <1>1, <1>2

\* On course, what was sent begins the walk.
LEMMA CourseBegins ==
  ASSUME WalkInv
  PROVE  IsPrefix(sent, WalkItems)
<1>1. CASE HungUp
  BY <1>1 DEF HungUp
<1>2. CASE OnCourse
  <2>1. sent \in Seq(Item) /\ Sending \in Seq(Item) /\ WalkedBy(walk) \in Seq(Item)
    BY SendingType, YieldsType DEF WalkInv, WalkTypes
  <2>2. sent \o Sending \o WalkedBy(walk) = sent \o (Sending \o WalkedBy(walk))
    BY <2>1, JoinThree
  <2>3. Sending \o WalkedBy(walk) \in Seq(Item)
    BY <2>1, JoinThree
  <2>. QED BY <1>2, <2>1, <2>2, <2>3, PrefixOfJoined DEF OnCourse
<1>. QED BY <1>1, <1>2 DEF WalkInv

\* The scanner takes one item off the first task.
LEMMA TakesAnItem ==
  ASSUME WalkInv, Walking("visit") \/ Walking("skip") \/ Walking("end"),
         NEW i \in Item, NEW more \in Seq(Task), Yield(Head(walk)) = <<i>> \o WalkedBy(more),
         item' = i, walk' = more \o Tail(walk), sent' = sent, scanner' = scanner, receiving' = receiving
  PROVE  WalkInv'
<1>1. scanner = "walking" /\ item = NoItem /\ walk # <<>> /\ walk \in Seq(Task) /\ sent \in Seq(Item)
  BY DEF Walking, WalkInv, WalkTypes
<1>2. OnCourse
  BY <1>1 DEF WalkInv, HungUp
<1>3. /\ Tail(walk) \in Seq(Task) /\ Head(walk) \in Task
      /\ WalkedBy(walk) = Yield(Head(walk)) \o WalkedBy(Tail(walk))
  BY <1>1, WalkedFirst
<1>4. WalkedBy(walk') = WalkedBy(more) \o WalkedBy(Tail(walk)) /\ walk' \in Seq(Task)
  <2>1. WalkedBy(more \o Tail(walk)) = WalkedBy(more) \o WalkedBy(Tail(walk))
    BY <1>3, WalkedTogether
  <2>2. more \o Tail(walk) \in Seq(Task)
    BY <1>3
  <2>. QED BY <2>1, <2>2
<1>5. <<i>> \in Seq(Item) /\ WalkedBy(more) \in Seq(Item) /\ WalkedBy(Tail(walk)) \in Seq(Item)
  BY <1>3, OneItem, YieldsType
<1>6. Sending = <<>> /\ Sending' = <<i>>
  BY <1>1, NoItemIsNone DEF Sending
<1>7. (sent \o <<>>) \o WalkedBy(walk) = sent \o ((<<i>> \o WalkedBy(more)) \o WalkedBy(Tail(walk)))
  BY <1>1, <1>3, JoinThree
<1>8. (<<i>> \o WalkedBy(more)) \o WalkedBy(Tail(walk)) = <<i>> \o (WalkedBy(more) \o WalkedBy(Tail(walk)))
  BY <1>5, JoinThree
<1>9. sent \o (<<i>> \o WalkedBy(walk')) = (sent \o <<i>>) \o WalkedBy(walk')
  <2>1. WalkedBy(walk') \in Seq(Item)
    BY <1>4, YieldsType
  <2>2. sent \in Seq(Item) /\ <<i>> \in Seq(Item)
    BY <1>1, <1>5
  <2>3. PICK a, b, c : a = sent /\ b = <<i>> /\ c = WalkedBy(walk')
    OBVIOUS
  <2>4. a \in Seq(Item) /\ b \in Seq(Item) /\ c \in Seq(Item)
    BY <2>1, <2>2, <2>3
  <2>5. (a \o b) \o c = a \o (b \o c)
    <3>1. Regroups(Item, a, b, c)
      BY <2>4, Regrouped
    <3>. QED BY <3>1 DEF Regroups
  <2>. QED BY <2>3, <2>5
<1>10. (sent \o Sending) \o WalkedBy(walk) = (sent' \o Sending') \o WalkedBy(walk')
  BY <1>4, <1>6, <1>7, <1>8, <1>9
<1>11. OnCourse'
  <2>1. WalkItems' = WalkItems
    OBVIOUS
  <2>2. (WalkedBy(walk))' = WalkedBy(walk')
    OBVIOUS
  <2>. QED BY <1>2, <1>10, <2>1, <2>2 DEF OnCourse
<1>. QED BY <1>1, <1>4, <1>11, Zenon DEF WalkInv, WalkTypes

\* A send, a listing and the end of the walk keep what is to come.
LEMMA ScanStepInv ==
  ASSUME WalkInv, ScanStep
  PROVE  WalkInv'
<1>0. walk \in Seq(Task) /\ sent \in Seq(Item) /\ WalkTypes
  BY DEF WalkInv, WalkTypes
<1>a. ASSUME Walking("visit") \/ Walking("skip") \/ Walking("end") \/ Walking("list")
      PROVE  /\ scanner = "walking" /\ item = NoItem /\ walk # <<>> /\ OnCourse
             /\ Head(walk) \in Task /\ Tail(walk) \in Seq(Task) /\ Head(walk).path \in Entries
             /\ WalkedBy(walk) = Yield(Head(walk)) \o WalkedBy(Tail(walk))
             /\ <<>> \o Tail(walk) = Tail(walk) /\ <<>> \in Seq(Task)
  <2>1. scanner = "walking" /\ item = NoItem /\ walk # <<>>
    BY <1>a DEF Walking
  <2>2. Head(walk) \in Task /\ Tail(walk) \in Seq(Task)
        /\ WalkedBy(walk) = Yield(Head(walk)) \o WalkedBy(Tail(walk))
    BY <1>0, <2>1, WalkedFirst
  <2>3. OnCourse
    BY <2>1 DEF WalkInv, HungUp
  <2>. QED BY <2>1, <2>2, <2>3, ConcatEmptySeq, EmptySeq DEF Task
<1>b. ASSUME NEW i \in Item, Yield(Head(walk)) = <<i>>,
             Walking("visit") \/ Walking("skip") \/ Walking("end"),
             item' = i, walk' = Tail(walk), sent' = sent, scanner' = scanner, receiving' = receiving
      PROVE  WalkInv'
  <2>1. <<i>> \o WalkedBy(<<>>) = <<i>>
    <3>1. <<i>> \in Seq(Item)
      OBVIOUS
    <3>. QED BY <3>1, WalkedNone, ConcatEmptySeq
  <2>2. <<>> \in Seq(Task) /\ walk' = <<>> \o Tail(walk)
    BY <1>a, <1>b
  <2>. QED BY <1>b, <2>1, <2>2, TakesAnItem
<1>1. CASE ScanPassedOver
  <2>1. Head(walk).path \in Entries /\ Head(walk).do = "visit"
    BY <1>1, <1>a DEF ScanPassedOver, Walking
  <2>2. Yield(Head(walk)) = <<Of("Skipped", Head(walk).path)>>
    BY <1>1, <2>1, InlineIsTheRecursion DEF Yield, ScanPassedOver, ItemsOf
  <2>. QED BY <1>1, <1>b, <2>1, <2>2, OfType DEF ScanPassedOver
<1>2. CASE ScanFile
  <2>1. Head(walk).path \in Entries /\ Head(walk).do = "visit"
    BY <1>2, <1>a DEF ScanFile, Walking
  <2>2. Yield(Head(walk)) = <<Of("File", Head(walk).path)>>
    BY <1>2, <2>1, InlineIsTheRecursion DEF Yield, ScanFile, ItemsOf
  <2>. QED BY <1>2, <1>b, <2>1, <2>2, OfType DEF ScanFile
<1>3. CASE ScanDir
  <2>. DEFINE path == Head(walk).path
  <2>1. path \in Entries /\ Head(walk).do = "visit" /\ Walking("visit") /\ Kind[path] = "dir"
    BY <1>3, <1>a DEF ScanDir, Walking
  <2>2. Yield(Head(walk)) = <<Of("Dir", path)>> \o ListingOf(InlineItems, path) \o <<Of("DirEnd", path)>>
    BY <2>1, InlineIsTheRecursion DEF Yield, ItemsOf
  <2>3. Do("list", path) \in Task /\ Yield(Do("list", path)) = ListingOf(InlineItems, path) \o <<Of("DirEnd", path)>>
    BY <2>1, DoType DEF Yield
  <2>4. <<Do("list", path)>> \in Seq(Task) /\ WalkedBy(<<Do("list", path)>>) = Yield(Do("list", path))
    BY <2>3, OneItem, WalkedOne
  <2>5. Yield(Head(walk)) = <<Of("Dir", path)>> \o WalkedBy(<<Do("list", path)>>)
    <3>1. /\ <<Of("Dir", path)>> \in Seq(Item) /\ ListingOf(InlineItems, path) \in Seq(Item)
          /\ <<Of("DirEnd", path)>> \in Seq(Item)
      BY <2>1, OfType, OneItem, ListingType, InlineIsTheRecursion
    <3>2. PICK a, b, c : /\ a = <<Of("Dir", path)>> /\ b = ListingOf(InlineItems, path)
                         /\ c = <<Of("DirEnd", path)>>
      OBVIOUS
    <3>3. a \in Seq(Item) /\ b \in Seq(Item) /\ c \in Seq(Item)
      BY <3>1, <3>2
    <3>4. (a \o b) \o c = a \o (b \o c)
      BY <3>3, JoinThree
    <3>. QED BY <2>2, <2>3, <2>4, <3>2, <3>4
  <2>6. Of("Dir", path) \in Item
    BY <2>1, OfType
  <2>7. /\ item' = Of("Dir", path) /\ walk' = <<Do("list", path)>> \o Tail(walk)
        /\ sent' = sent /\ scanner' = scanner /\ receiving' = receiving
    BY <1>3 DEF ScanDir
  <2>. QED BY <2>1, <2>4, <2>5, <2>6, <2>7, TakesAnItem
<1>4. CASE ScanList
  <2>. DEFINE path == Head(walk).path
  <2>1. path \in Entries /\ Head(walk).do = "list" /\ Walking("list") /\ OnCourse
    BY <1>4, <1>a DEF ScanList, Walking
  <2>2. Listed(path) \in Seq(Task) /\ WalkedBy(Listed(path)) = Yield(Do("list", path))
    BY <2>1, WalkedListed
  <2>3. Yield(Head(walk)) = Yield(Do("list", path))
    BY <2>1, DoType DEF Yield
  <2>4. /\ walk' = Listed(path) \o Tail(walk) /\ item' = item /\ sent' = sent
        /\ scanner' = scanner /\ receiving' = receiving
    BY <1>4 DEF ScanList
  <2>5. Tail(walk) \in Seq(Task) /\ WalkedBy(walk) = Yield(Head(walk)) \o WalkedBy(Tail(walk))
    BY <1>a, <2>1
  <2>6. WalkedBy(walk') = WalkedBy(walk) /\ walk' \in Seq(Task)
    <3>1. WalkedBy(Listed(path) \o Tail(walk)) = WalkedBy(Listed(path)) \o WalkedBy(Tail(walk))
      BY <2>2, <2>5, WalkedTogether
    <3>2. Listed(path) \o Tail(walk) \in Seq(Task)
      BY <2>2, <2>5
    <3>. QED BY <2>2, <2>3, <2>4, <2>5, <3>1, <3>2
  <2>7. OnCourse'
    <3>1. Sending' = Sending
      BY <2>4 DEF Sending
    <3>2. (WalkedBy(walk))' = WalkedBy(walk')
      OBVIOUS
    <3>. QED BY <2>1, <2>4, <2>6, <3>1, <3>2 DEF OnCourse
  <2>8. scanner = "walking"
    BY <1>a, <2>1
  <2>. QED BY <1>0, <2>4, <2>6, <2>7, <2>8, Zenon DEF WalkInv, WalkTypes
<1>5. CASE ScanSkip
  <2>1. Head(walk).path \in Entries /\ Head(walk).do = "skip"
    BY <1>5, <1>a DEF ScanSkip, Walking
  <2>2. Yield(Head(walk)) = <<Of("Skipped", Head(walk).path)>>
    BY <2>1 DEF Yield
  <2>. QED BY <1>5, <1>b, <2>1, <2>2, OfType DEF ScanSkip
<1>6. CASE ScanEnd
  <2>1. Head(walk).path \in Entries /\ Head(walk).do = "end"
    BY <1>6, <1>a DEF ScanEnd, Walking
  <2>2. Yield(Head(walk)) = <<Of("DirEnd", Head(walk).path)>>
    BY <2>1 DEF Yield
  <2>. QED BY <1>6, <1>b, <2>1, <2>2, OfType DEF ScanEnd
<1>7. CASE ScanSend
  <2>1. scanner = "walking" /\ item # NoItem /\ receiving
        /\ sent' = Append(sent, item) /\ item' = NoItem
        /\ walk' = walk /\ scanner' = scanner /\ receiving' = receiving
    BY <1>7 DEF ScanSend
  <2>2. OnCourse
    BY <2>1 DEF WalkInv, HungUp
  <2>3. item \in Item /\ sent' \in Seq(Item) /\ sent' = sent \o <<item>>
    BY <1>0, <2>1, AppendIsConcat DEF WalkTypes
  <2>4. Sending = <<item>> /\ Sending' = <<>>
    BY <2>1 DEF Sending
  <2>5. sent' \o <<>> = sent'
    BY <2>3, ConcatEmptySeq
  <2>6. OnCourse'
    <3>1. (WalkedBy(walk))' = WalkedBy(walk)
      BY <2>1
    <3>. QED BY <2>2, <2>3, <2>4, <2>5, <3>1 DEF OnCourse
  <2>. QED BY <1>0, <2>1, <2>3, <2>6, Zenon DEF WalkInv, WalkTypes
<1>8. CASE ScanHungUp
  <2>1. scanner = "walking" /\ ~receiving /\ item' = NoItem /\ walk' = <<>>
        /\ scanner' = scanner /\ receiving' = receiving /\ sent' = sent
    BY <1>8 DEF ScanHungUp
  <2>2. HungUp'
    BY <2>1, CourseBegins DEF HungUp
  <2>3. <<>> \in Seq(Task)
    BY EmptySeq
  <2>. QED BY <1>0, <2>1, <2>2, <2>3, Zenon DEF WalkInv, WalkTypes
<1>9. CASE ScanComplete \/ ScanGone
  <2>1. item = NoItem /\ walk = <<>> /\ scanner' \in {"complete", "gone"}
        /\ item' = item /\ walk' = walk /\ sent' = sent /\ receiving' = receiving
    BY <1>9 DEF ScanComplete, ScanGone, WalkInv
  <2>2. WalkTypes' /\ (OnCourse' \/ HungUp')
    <3>1. OnCourse <=> OnCourse'
      BY <2>1 DEF OnCourse, Sending
    <3>2. HungUp <=> HungUp'
      BY <2>1 DEF HungUp
    <3>3. WalkTypes'
      BY <1>0, <2>1 DEF WalkTypes
    <3>. QED BY <3>1, <3>2, <3>3 DEF WalkInv
  <2>. QED BY <2>1, <2>2 DEF WalkInv
<1>. QED BY <1>1, <1>2, <1>3, <1>4, <1>5, <1>6, <1>7, <1>8, <1>9 DEF ScanStep

\* What a step that is not the scanner's may do to it: start it, or hang up.
ScanFrame ==
  /\ walk' = walk /\ item' = item /\ sent' = sent
  /\ scanner' \in {scanner, "walking"} /\ receiving' \in {receiving, FALSE}

\* Nobody else walks.
LEMMA OthersDoNotWalk ==
  ASSUME Acquire \/ LogicalFails
  PROVE  ScanFrame
<1>0. ASSUME UNCHANGED scanVars PROVE ScanFrame
  BY <1>0 DEF scanVars, ScanFrame
<1>t. ASSUME Take PROVE ScanFrame
  BY <1>t, <1>0 DEF Take, ScanFrame, scanVars
<1>1. CASE Collect
  BY <1>1 DEF Collect, ScanFrame
<1>2. CASE Create
  BY <1>2 DEF Create, ScanFrame
<1>3. CASE CollectEnds \/ NextRoot \/ ItemsEnd \/ Join \/ JoinAbandoned \/ FinishStorage \/ CloseVolume
  BY <1>3, <1>0 DEF CollectEnds, NextRoot, ItemsEnd, Join, JoinAbandoned, FinishStorage, CloseVolume
<1>4. CASE TakeSkipped \/ TakeDir \/ TakeDirEnd \/ TakeFile \/ TakeFileAttributeFails
  BY <1>4, <1>t DEF TakeSkipped, TakeDir, TakeDirEnd, TakeFile, TakeFileAttributeFails, FileTaken
<1>5. CASE StoreFile
  <2>1. PICK bytes \in ContentOf[File] :
          StoreSegment(bytes) \/ StoreReserved(bytes) \/ StoreStream(bytes)
          \/ StorePooled(bytes) \/ StoreShared(bytes)
    BY <1>5 DEF StoreFile
  <2>. QED BY <2>1, <1>0 DEF StoreSegment, StoreReserved, StoreStream, StorePooled, StoreShared, recordFrame
<1>6. CASE StoreFileFails
  <2>1. CASE RecordUnreadable \/ StoreSharedUnplaced
    BY <2>1, <1>0 DEF RecordUnreadable, StoreSharedUnplaced, recordFrame
  <2>2. CASE \E bytes \in ContentOf[File] :
               StoreSegmentFails(bytes) \/ StoreStreamFails(bytes) \/ StoreSharedUnmapped(bytes)
    BY <2>2, <1>0 DEF StoreSegmentFails, StoreStreamFails, StoreSharedUnmapped, recordFrame
  <2>3. CASE \E bytes \in ContentOf[File] : \E n \in 0..Len(bytes) :
               StoreStreamUnread(bytes, n) \/ StorePooledUnread(bytes, n)
    BY <2>3, <1>0 DEF StoreStreamUnread, StorePooledUnread, recordFrame
  <2>. QED BY <1>6, <2>1, <2>2, <2>3 DEF StoreFileFails
<1>7. CASE CreateFails \/ FinishStorageFails \/ CloseVolumeFails
  BY <1>7, <1>0 DEF CreateFails, FinishStorageFails, CloseVolumeFails
<1>8. CASE MintFails
  BY <1>8, <1>0 DEF MintFails, ScanFrame
<1>. QED BY <1>1, <1>2, <1>3, <1>4, <1>5, <1>6, <1>7, <1>8 DEF Acquire, LogicalFails

\* And what they do leaves the scanner on its course.
LEMMA FrameKeepsWalk ==
  ASSUME WalkInv, ScanFrame
  PROVE  WalkInv'
<1>1. WalkTypes'
  BY DEF WalkInv, WalkTypes, ScanFrame
<1>2. OnCourse => OnCourse'
  <2>1. (WalkedBy(walk))' = WalkedBy(walk) /\ Sending' = Sending
    BY DEF ScanFrame, Sending
  <2>. QED BY <2>1 DEF OnCourse, ScanFrame
<1>3. HungUp => HungUp'
  BY DEF HungUp, ScanFrame
<1>. QED BY <1>1, <1>2, <1>3, Zenon DEF WalkInv, ScanFrame

LEMMA WalkInit == LogicalInit => WalkInv
<1>. SUFFICES ASSUME LogicalInit PROVE WalkInv
  OBVIOUS
<1>1. walk = Visits(Roots) /\ item = NoItem /\ receiving = TRUE /\ sent = <<>>
      /\ scanner \in {"unborn", "walking"}
  BY DEF LogicalInit, ScanInit
<1>2. walk \in Seq(Task) /\ WalkedBy(walk) = WalkItems
  BY <1>1, ScanAssumption, WalkedVisits DEF WalkItems
<1>3. <<>> \in Seq(Item) /\ <<>> \o <<>> = <<>> /\ <<>> \o WalkItems = WalkItems
  BY EmptySeq, ConcatEmptySeq, WalkItemsType
<1>4. OnCourse
  BY <1>1, <1>2, <1>3 DEF OnCourse, Sending
<1>. QED BY <1>1, <1>2, <1>3, <1>4 DEF WalkInv, WalkTypes

LEMMA WalkStep == WalkInv /\ [LogicalNext]_logicalVars => WalkInv'
<1>. SUFFICES ASSUME WalkInv, [LogicalNext]_logicalVars PROVE WalkInv'
  OBVIOUS
<1>1. CASE Scan
  BY <1>1, ScanStepInv DEF Scan
<1>2. CASE Acquire \/ LogicalFails
  BY <1>2, OthersDoNotWalk, FrameKeepsWalk
<1>3. CASE UNCHANGED logicalVars
  <2>1. ScanFrame
    BY <1>3 DEF logicalVars, scanVars, ScanFrame
  <2>. QED BY <2>1, FrameKeepsWalk
<1>. QED BY <1>1, <1>2, <1>3 DEF LogicalNext

LEMMA WalkInvAgrees == WalkInv => BothWalksAgree
<1>. SUFFICES ASSUME WalkInv PROVE BothWalksAgree
  OBVIOUS
<1>1. IsPrefix(sent, WalkItems)
  BY CourseBegins
<1>2. ASSUME scanner \in {"complete", "gone"}, receiving PROVE sent = WalkItems
  <2>1. item = NoItem /\ walk = <<>> /\ OnCourse /\ sent \in Seq(Item)
    BY <1>2 DEF WalkInv, WalkTypes, HungUp
  <2>2. (sent \o <<>>) \o <<>> = sent
    BY <2>1, ConcatEmptySeq
  <2>. QED BY <2>1, <2>2, WalkedNone DEF OnCourse, Sending
<1>. QED BY <1>1, <1>2 DEF BothWalksAgree

(* "They must emit the same items in the same order for the same tree"        *)
(* (scan.rs): for every tree, whatever the queue's bound and wherever the     *)
(* acquisition gives up, what the scanner's thread has sent is the beginning  *)
(* of the walk the acquisition would have made without it, and all of it when *)
(* the thread is through and nobody has hung up.                              *)
THEOREM BothWalksAreOne == LogicalSpec => []BothWalksAgree
BY WalkInit, WalkStep, WalkInvAgrees, PTL DEF LogicalSpec

-----------------------------------------------------------------------------
(* What the walk of a tree has in it *)

\* What holds of an entry when it holds of all in it holds of all entries.
LEMMA EntriesByInduction ==
  ASSUME NEW G, \A path \in Entries : Range(Children[path]) \subseteq G => path \in G
  PROVE  Entries \subseteq G
<1>. PICK depth \in [Entries -> 0..MaxDepth] :
       \A dir \in Entries : \A child \in Range(Children[dir]) : depth[child] < depth[dir]
  BY ScanAssumption
<1>. DEFINE N == MaxDepth + 1
            S == {k \in 0..N : \A path \in Entries : depth[path] < k => path \in G}
<1>1. N \in Nat /\ MaxDepth \in Nat
  BY ScanAssumption
<1>2. 0 \in S
  BY <1>1
<1>3. ASSUME NEW k \in 0..(N - 1), k \in S PROVE k + 1 \in S
  <2>1. ASSUME NEW path \in Entries, depth[path] < k + 1 PROVE path \in G
    <3>1. ASSUME NEW child \in Range(Children[path]) PROVE child \in G
      <4>1. child \in Entries /\ depth[child] < depth[path]
        BY ChildrenAreEntries
      <4>2. depth[child] \in Int /\ depth[path] \in Int
        BY <4>1, <1>1
      <4>. QED BY <1>1, <1>3, <2>1, <4>1, <4>2
    <3>. QED BY <3>1
  <2>. QED BY <1>1, <2>1
<1>. HIDE DEF S
<1>4. 0..N \subseteq S
  BY <1>1, <1>2, <1>3, NumbersUpTo
<1>5. N \in S /\ \A path \in Entries : depth[path] < N
  BY <1>1, <1>4
<1>. QED BY <1>5 DEF S

\* Members of two joined, of one and of none.
LEMMA RangeOfJoined ==
  ASSUME NEW S, NEW s \in Seq(S), NEW t \in Seq(S)
  PROVE  Range(s \o t) = Range(s) \cup Range(t)
<1>1. /\ s \o t \in Seq(S) /\ DOMAIN (s \o t) = 1..(Len(s) + Len(t)) /\ DOMAIN s = 1..Len(s) /\ DOMAIN t = 1..Len(t)
      /\ Len(s) \in Nat /\ Len(t) \in Nat
      /\ \A i \in 1..(Len(s) + Len(t)) : (s \o t)[i] = IF i <= Len(s) THEN s[i] ELSE t[i - Len(s)]
  BY ConcatProperties
<1>2. ASSUME NEW i \in DOMAIN (s \o t) PROVE (s \o t)[i] \in Range(s) \cup Range(t)
  <2>1. CASE i <= Len(s)
    BY <1>1, <2>1 DEF Range
  <2>2. CASE ~(i <= Len(s))
    <3>1. i - Len(s) \in 1..Len(t)
      BY <1>1, <2>2
    <3>. QED BY <1>1, <2>2, <3>1 DEF Range
  <2>. QED BY <2>1, <2>2
<1>3. ASSUME NEW i \in DOMAIN s PROVE s[i] \in Range(s \o t)
  BY <1>1 DEF Range
<1>4. ASSUME NEW i \in DOMAIN t PROVE t[i] \in Range(s \o t)
  <2>1. Len(s) + i \in 1..(Len(s) + Len(t)) /\ ~(Len(s) + i <= Len(s)) /\ Len(s) + i - Len(s) = i
    BY <1>1
  <2>2. (s \o t)[Len(s) + i] = t[i]
    BY <1>1, <2>1
  <2>. QED BY <1>1, <2>1, <2>2 DEF Range
<1>. QED BY <1>2, <1>3, <1>4 DEF Range

LEMMA RangeOfOne == \A x : Range(<<x>>) = {x}
BY DEF Range
LEMMA RangeOfNone == Range(<<>>) = {}
BY DEF Range

\* Members of what is flattened.
LEMMA RangeOfFlat ==
  ASSUME NEW S, NEW s \in Seq(Seq(S))
  PROVE  Range(FlattenSeq(s)) = UNION {Range(s[i]) : i \in DOMAIN s}
<1>1. PICK h : FlatTurns(S, s, h)
  BY FlatTurnsExist DEF HasFlatTurns
<1>. DEFINE N == Len(s)
            T == {k \in 0..N : Range(h[k]) = UNION {Range(s[i]) : i \in 1..k}}
<1>2. N \in Nat /\ DOMAIN s = 1..N /\ h[0] = <<>> /\ \A k \in 1..N : h[k] = h[k - 1] \o s[k] /\ s[k] \in Seq(S)
  BY <1>1 DEF FlatTurns
<1>3. \A k \in 0..N : h[k] \in Seq(S)
  BY <1>1 DEF FlatTurns
<1>4. 0 \in T
  <2>1. 1..0 = {}
    OBVIOUS
  <2>. QED BY <1>2, <2>1, RangeOfNone
<1>5. ASSUME NEW k \in 0..(N - 1), k \in T PROVE k + 1 \in T
  <2>1. k + 1 \in 1..N /\ k + 1 \in 0..N /\ k + 1 - 1 = k /\ k \in 0..N
    BY <1>2
  <2>2. h[k + 1] = h[k] \o s[k + 1] /\ s[k + 1] \in Seq(S) /\ h[k] \in Seq(S)
    <3>1. PICK n \in 1..N : n = k + 1
      BY <2>1
    <3>2. h[n] = h[n - 1] \o s[n] /\ s[n] \in Seq(S)
      BY <1>2, <3>1
    <3>3. n - 1 = k
      BY <2>1, <3>1
    <3>. QED BY <1>3, <2>1, <3>1, <3>2, <3>3
  <2>3. Range(h[k] \o s[k + 1]) = Range(h[k]) \cup Range(s[k + 1])
    BY <2>2, RangeOfJoined
  <2>4. 1..(k + 1) = (1..k) \cup {k + 1}
    BY <2>1
  <2>5. Range(h[k + 1]) = (UNION {Range(s[i]) : i \in 1..k}) \cup Range(s[k + 1])
    BY <1>5, <2>2, <2>3
  <2>. QED BY <2>1, <2>4, <2>5
<1>. HIDE DEF T
<1>6. 0..N \subseteq T
  BY <1>2, <1>4, <1>5, NumbersUpTo
<1>7. N \in T
  BY <1>2, <1>6
<1>8. FlattenSeq(s) = h[N]
  BY <1>1, FlattenedByTurns
<1>. QED BY <1>2, <1>7, <1>8 DEF T

\* What paths yield, one after another.
AllItems(paths) == FlattenSeq([i \in DOMAIN paths |-> InlineItems[paths[i]]])

LEMMA AllItemsType ==
  ASSUME NEW paths \in Seq(Entries)
  PROVE  /\ AllItems(paths) \in Seq(Item)
         /\ Range(AllItems(paths)) = UNION {Range(InlineItems[p]) : p \in Range(paths)}
<1>1. [i \in DOMAIN paths |-> InlineItems[paths[i]]] \in Seq(Seq(Item))
  BY InlineIsTheRecursion, PicksType
<1>2. Range(AllItems(paths)) = UNION {Range(InlineItems[paths[i]]) : i \in DOMAIN paths}
  <2>1. PICK s \in Seq(Seq(Item)) : s = [i \in DOMAIN paths |-> InlineItems[paths[i]]]
    BY <1>1
  <2>2. Range(FlattenSeq(s)) = UNION {Range(s[i]) : i \in DOMAIN s}
    BY <2>1, RangeOfFlat
  <2>3. DOMAIN s = DOMAIN paths /\ \A i \in DOMAIN paths : s[i] = InlineItems[paths[i]]
    BY <2>1
  <2>4. {Range(s[i]) : i \in DOMAIN s} = {Range(InlineItems[paths[i]]) : i \in DOMAIN paths}
    BY <2>3
  <2>. QED BY <2>1, <2>2, <2>4 DEF AllItems
<1>3. AllItems(paths) \in Seq(Item)
  BY <1>1, FlattenedIsSequence DEF AllItems
<1>4. UNION {Range(InlineItems[paths[i]]) : i \in DOMAIN paths} = UNION {Range(InlineItems[p]) : p \in Range(paths)}
  BY DEF Range
<1>. QED BY <1>2, <1>3, <1>4

\* A directory's items: itself, what its listing yields, its end.
LEMMA DirItems ==
  ASSUME NEW path \in Entries, Kind[path] = "dir"
  PROVE  /\ InlineItems[path] = <<Of("Dir", path)>> \o ListingOf(InlineItems, path) \o <<Of("DirEnd", path)>>
         /\ ListingOf(InlineItems, path) \in Seq(Item)
         /\ path \in Listable => ListingOf(InlineItems, path) =
              Times(Unlisted[path], Of("Skipped", path)) \o AllItems(Children[path])
         /\ path \notin Listable => ListingOf(InlineItems, path) = <<Of("Skipped", path)>>
<1>1. InlineItems[path] = ItemsOf(InlineItems, path)
  BY InlineIsTheRecursion
<1>2. ListingOf(InlineItems, path) \in Seq(Item)
  BY InlineIsTheRecursion, ListingType
<1>. QED BY <1>1, <1>2 DEF ItemsOf, ListingOf, AllItems

LEMMA ListingRange ==
  ASSUME NEW path \in Entries, Kind[path] = "dir"
  PROVE  /\ Range(ListingOf(InlineItems, path)) \subseteq
              {Of("Skipped", path)} \cup UNION {Range(InlineItems[c]) : c \in Range(Children[path])}
         /\ path \in Listable =>
              UNION {Range(InlineItems[c]) : c \in Range(Children[path])} \subseteq Range(ListingOf(InlineItems, path))
<1>1. CASE path \notin Listable
  BY <1>1, DirItems, RangeOfOne
<1>2. CASE path \in Listable
  <2>. DEFINE skips == Times(Unlisted[path], Of("Skipped", path))
  <2>1. skips \in Seq(Item) /\ Range(skips) \subseteq {Of("Skipped", path)}
    BY ScanAssumption, OfType, TimesType DEF Times, Range
  <2>2. /\ AllItems(Children[path]) \in Seq(Item)
        /\ Range(AllItems(Children[path])) = UNION {Range(InlineItems[c]) : c \in Range(Children[path])}
    BY ChildrenAreEntries, AllItemsType
  <2>3. ListingOf(InlineItems, path) = skips \o AllItems(Children[path])
    BY <1>2, DirItems
  <2>. HIDE DEF skips
  <2>4. Range(skips \o AllItems(Children[path])) = Range(skips) \cup Range(AllItems(Children[path]))
    BY <2>1, <2>2, RangeOfJoined
  <2>. QED BY <2>1, <2>2, <2>3, <2>4
<1>. QED BY <1>1, <1>2

LEMMA DirRange ==
  ASSUME NEW path \in Entries, Kind[path] = "dir"
  PROVE  Range(InlineItems[path]) =
           {Of("Dir", path), Of("DirEnd", path)} \cup Range(ListingOf(InlineItems, path))
<1>1. /\ <<Of("Dir", path)>> \in Seq(Item) /\ <<Of("DirEnd", path)>> \in Seq(Item)
  BY OfType, OneItem
<1>2. PICK a, b, c : a = <<Of("Dir", path)>> /\ b = ListingOf(InlineItems, path) /\ c = <<Of("DirEnd", path)>>
  OBVIOUS
<1>3. a \in Seq(Item) /\ b \in Seq(Item) /\ c \in Seq(Item)
  BY <1>1, <1>2, DirItems
<1>9. a \o b \in Seq(Item)
  BY <1>3
<1>4. PICK d : d = a \o b /\ d \in Seq(Item)
  BY <1>9
<1>5. Range(d \o c) = Range(d) \cup Range(c)
  BY <1>3, <1>4, RangeOfJoined
<1>6. Range(a \o b) = Range(a) \cup Range(b)
  BY <1>3, RangeOfJoined
<1>7. Range(a) = {Of("Dir", path)} /\ Range(c) = {Of("DirEnd", path)}
  BY <1>2, RangeOfOne
<1>8. InlineItems[path] = (a \o b) \o c
  BY <1>2, DirItems
<1>. QED BY <1>2, <1>4, <1>5, <1>6, <1>7, <1>8

\* The items of an entry that is not a directory.
LEMMA LeafItems ==
  ASSUME NEW path \in Entries, Kind[path] # "dir"
  PROVE  InlineItems[path] = <<Of(IF Kind[path] = "file" THEN "File" ELSE "Skipped", path)>>
<1>1. Kind[path] \in {"special", "unreadable"} \/ Kind[path] = "file"
  BY ScanAssumption
<1>2. InlineItems[path] = ItemsOf(InlineItems, path)
  BY InlineIsTheRecursion
<1>. QED BY <1>1, <1>2 DEF ItemsOf

\* What is entered in the graph: files and directories.
Enterable == {p \in Entries : Kind[p] \in {"file", "dir"}}
ItemFor(p) == Of(IF Kind[p] = "file" THEN "File" ELSE "Dir", p)

\* An item tells what its path is, and what can be entered is.
LEMMA ItemsAreTrue ==
  ASSUME NEW path \in Entries
  PROVE  /\ \A x \in Range(InlineItems[path]) :
              (x.kind = "Dir" => Kind[x.path] = "dir") /\ (x.kind = "File" => Kind[x.path] = "file")
         /\ path \in Enterable => ItemFor(path) \in Range(InlineItems[path])
<1>. DEFINE True(x) == (x.kind = "Dir" => Kind[x.path] = "dir") /\ (x.kind = "File" => Kind[x.path] = "file")
            G == {p \in Entries : \A x \in Range(InlineItems[p]) : True(x)}
<1>1. ASSUME NEW p \in Entries, Range(Children[p]) \subseteq G PROVE p \in G
  <2>1. CASE Kind[p] # "dir"
    <3>1. Range(InlineItems[p]) = {Of(IF Kind[p] = "file" THEN "File" ELSE "Skipped", p)}
      BY <2>1, LeafItems, RangeOfOne
    <3>. QED BY <2>1, <3>1 DEF Of
  <2>2. CASE Kind[p] = "dir"
    <3>1. \A x \in Range(InlineItems[p]) : x \in {Of("Dir", p), Of("DirEnd", p), Of("Skipped", p)}
             \/ \E c \in Range(Children[p]) : x \in Range(InlineItems[c])
      BY <2>2, DirRange, ListingRange
    <3>2. True(Of("Dir", p)) /\ True(Of("DirEnd", p)) /\ True(Of("Skipped", p))
      BY <2>2 DEF Of
    <3>. QED BY <1>1, <3>1, <3>2
  <2>. QED BY <2>1, <2>2
<1>2. Entries \subseteq G
  BY <1>1, EntriesByInduction
<1>3. path \in Enterable => ItemFor(path) \in Range(InlineItems[path])
  <2>1. CASE Kind[path] = "dir"
    BY <2>1, DirRange DEF ItemFor, Enterable
  <2>2. CASE Kind[path] = "file"
    BY <2>2, LeafItems, RangeOfOne DEF ItemFor, Enterable
  <2>. QED BY <2>1, <2>2 DEF Enterable
<1>. QED BY <1>2, <1>3

\* What a directory of the walk lists is in the walk too.
LEMMA WalkIsClosed ==
  ASSUME NEW path \in Entries
  PROVE  \A d \in Listable \cap Entries : Of("Dir", d) \in Range(InlineItems[path]) =>
           \A c \in Range(Children[d]) : Range(InlineItems[c]) \subseteq Range(InlineItems[path])
<1>. DEFINE Closed(p) == \A d \in Listable \cap Entries : Of("Dir", d) \in Range(InlineItems[p]) =>
                 \A c \in Range(Children[d]) : Range(InlineItems[c]) \subseteq Range(InlineItems[p])
            G == {p \in Entries : Closed(p)}
<1>1. ASSUME NEW p \in Entries, Range(Children[p]) \subseteq G PROVE p \in G
  <2>. SUFFICES ASSUME NEW d \in Listable \cap Entries, Of("Dir", d) \in Range(InlineItems[p]),
                       NEW c \in Range(Children[d])
                PROVE  Range(InlineItems[c]) \subseteq Range(InlineItems[p])
    OBVIOUS
  <2>1. CASE Kind[p] # "dir"
    <3>1. Range(InlineItems[p]) = {Of(IF Kind[p] = "file" THEN "File" ELSE "Skipped", p)}
      BY <2>1, LeafItems, RangeOfOne
    <3>. QED BY <3>1 DEF Of
  <2>2. CASE Kind[p] = "dir" /\ d = p
    BY <2>2, DirRange, ListingRange
  <2>3. CASE Kind[p] = "dir" /\ d # p
    <3>1. Of("Dir", d) \notin {Of("Dir", p), Of("DirEnd", p), Of("Skipped", p)}
      BY <2>3 DEF Of
    <3>2. PICK e \in Range(Children[p]) : Of("Dir", d) \in Range(InlineItems[e])
      BY <2>3, <3>1, DirRange, ListingRange
    <3>3. Range(InlineItems[c]) \subseteq Range(InlineItems[e])
      BY <1>1, <3>2
    <3>4. p \in Listable
      <4>1. CASE p \notin Listable
        <5>1. Range(ListingOf(InlineItems, p)) = {Of("Skipped", p)}
          BY <2>3, <4>1, DirItems, RangeOfOne
        <5>. QED BY <2>3, <3>1, <5>1, DirRange
      <4>. QED BY <4>1
    <3>. QED BY <2>3, <3>2, <3>3, <3>4, DirRange, ListingRange
  <2>. QED BY <2>1, <2>2, <2>3
<1>2. Entries \subseteq G
  BY <1>1, EntriesByInduction
<1>. QED BY <1>2

-----------------------------------------------------------------------------
(* The tree the items build: acquire_from_items, one item at a time.  In w is *)
(* whether child edges are written.                                           *)

Frame == [dir : Entries, children : SUBSET Entries]
TreeState == [open : Seq(Frame), roots : SUBSET Entries, edges : SUBSET (Entries \X Entries)]
Tree(o, r, e) == [open |-> o, roots |-> r, edges |-> e]
Opened(dir, children) == [dir |-> dir, children |-> children]

JoinedBy(t, paths) ==
  IF t.open = <<>> THEN Tree(t.open, t.roots \cup paths, t.edges)
  ELSE Tree([t.open EXCEPT ![Len(t.open)] = Opened(@.dir, @.children \cup paths)], t.roots, t.edges)
WithEdges(t, e) == Tree(t.open, t.roots, t.edges \cup e)
EdgesOfFrame(w, f) == IF w THEN ChildEdges(f) ELSE {}

\* What one item does.
Turn(w, t, x) ==
  CASE x.kind = "Dir" -> Tree(Append(t.open, Opened(x.path, {})), t.roots, t.edges)
    [] x.kind = "DirEnd" ->
         WithEdges(JoinedBy(Tree(Front(t.open), t.roots, t.edges), {Last(t.open).dir}),
                   EdgesOfFrame(w, Last(t.open)))
    [] x.kind = "File" -> JoinedBy(t, {x.path})
    [] OTHER -> t

\* What items do, one after another.
Leads(w, a, items, b) ==
  \E g \in [0..Len(items) -> TreeState] :
    g[0] = a /\ g[Len(items)] = b /\ \A k \in 1..Len(items) : g[k] = Turn(w, g[k - 1], items[k])

\* The edges below the directories among items, and what a tree becomes by the
\* items of paths.
EdgesOf(w, items) ==
  IF w THEN {e \in Entries \X Enterable : Of("Dir", e[1]) \in Range(items)
                                           /\ e[1] \in Listable /\ e[2] \in Range(Children[e[1]])}
  ELSE {}
Grown(w, a, paths, items) == WithEdges(JoinedBy(a, paths \cap Enterable), EdgesOf(w, items))

LEMMA TreeFields ==
  ASSUME NEW o, NEW r, NEW e
  PROVE  Tree(o, r, e).open = o /\ Tree(o, r, e).roots = r /\ Tree(o, r, e).edges = e
BY DEF Tree

LEMMA TreeType ==
  ASSUME NEW o \in Seq(Frame), NEW r \in SUBSET Entries, NEW e \in SUBSET (Entries \X Entries)
  PROVE  Tree(o, r, e) \in TreeState
BY DEF Tree, TreeState

LEMMA StateFields ==
  ASSUME NEW t \in TreeState
  PROVE  /\ t.open \in Seq(Frame) /\ t.roots \in SUBSET Entries /\ t.edges \in SUBSET (Entries \X Entries)
         /\ t = Tree(t.open, t.roots, t.edges)
BY DEF Tree, TreeState

LEMMA WithEdgesOf ==
  ASSUME NEW o, NEW r, NEW e, NEW f
  PROVE  WithEdges(Tree(o, r, e), f) = Tree(o, r, e \cup f)
BY DEF Tree, WithEdges

LEMMA JoinedToRoots ==
  ASSUME NEW r, NEW e, NEW paths
  PROVE  JoinedBy(Tree(<<>>, r, e), paths) = Tree(<<>>, r \cup paths, e)
BY DEF Tree, JoinedBy

LEMMA JoinedToFrame ==
  ASSUME NEW o, NEW r, NEW e, NEW paths, o # <<>>
  PROVE  JoinedBy(Tree(o, r, e), paths)
         = Tree([o EXCEPT ![Len(o)] = Opened(@.dir, @.children \cup paths)], r, e)
BY DEF Tree, JoinedBy

LEMMA FrameType ==
  ASSUME NEW d \in Entries, NEW c \in SUBSET Entries
  PROVE  /\ Opened(d, c) \in Frame /\ Opened(d, c).dir = d /\ Opened(d, c).children = c
BY DEF Frame, Opened

LEMMA FrameFields ==
  ASSUME NEW f \in Frame
  PROVE  f.dir \in Entries /\ f.children \in SUBSET Entries /\ f = Opened(f.dir, f.children)
BY DEF Frame, Opened

\* Joining paths to a tree.
LEMMA JoinedType ==
  ASSUME NEW t \in TreeState, NEW paths \in SUBSET Entries
  PROVE  JoinedBy(t, paths) \in TreeState /\ JoinedBy(t, paths).edges = t.edges
<1>0. t.open \in Seq(Frame) /\ t.roots \in SUBSET Entries /\ t.edges \in SUBSET (Entries \X Entries)
  BY StateFields
<1>1. CASE t.open = <<>>
  <2>1. t.roots \cup paths \in SUBSET Entries
    BY <1>0
  <2>2. JoinedBy(t, paths) = Tree(t.open, t.roots \cup paths, t.edges)
    BY <1>1 DEF JoinedBy
  <2>3. Tree(t.open, t.roots \cup paths, t.edges) \in TreeState
    BY <1>0, <2>1, TreeType
  <2>4. Tree(t.open, t.roots \cup paths, t.edges).edges = t.edges
    BY TreeFields
  <2>. QED BY <2>2, <2>3, <2>4
<1>2. CASE t.open # <<>>
  <2>. DEFINE n == Len(t.open)
              f == t.open[n]
              more == [t.open EXCEPT ![n] = Opened(@.dir, @.children \cup paths)]
  <2>1. n \in 1..n /\ f \in Frame
    BY <1>0, <1>2
  <2>2. Opened(f.dir, f.children \cup paths) \in Frame
    BY <2>1, FrameFields, FrameType
  <2>3. more \in Seq(Frame)
    BY <1>0, <2>1, <2>2
  <2>4. JoinedBy(t, paths) = Tree(more, t.roots, t.edges)
    BY <1>2 DEF JoinedBy
  <2>. HIDE DEF more
  <2>5. Tree(more, t.roots, t.edges) \in TreeState
    BY <1>0, <2>3, TreeType
  <2>6. Tree(more, t.roots, t.edges).edges = t.edges
    BY TreeFields
  <2>. QED BY <2>4, <2>5, <2>6
<1>. QED BY <1>1, <1>2

LEMMA WithEdgesType ==
  ASSUME NEW t \in TreeState, NEW e \in SUBSET (Entries \X Entries)
  PROVE  WithEdges(t, e) \in TreeState
BY StateFields, TreeType DEF WithEdges

LEMMA EdgesOfType ==
  ASSUME NEW w, NEW items
  PROVE  EdgesOf(w, items) \in SUBSET (Entries \X Entries)
BY DEF EdgesOf, Enterable

LEMMA GrownType ==
  ASSUME NEW w, NEW a \in TreeState, NEW paths \in SUBSET Entries, NEW items
  PROVE  Grown(w, a, paths, items) \in TreeState
<1>1. paths \cap Enterable \in SUBSET Entries
  OBVIOUS
<1>. QED BY <1>1, JoinedType, WithEdgesType, EdgesOfType DEF Grown

\* No item, one item, and items after items.
LEMMA LeadsNowhere ==
  ASSUME NEW w, NEW a \in TreeState
  PROVE  Leads(w, a, <<>>, a)
<1>. DEFINE g == [k \in 0..0 |-> a]
<1>1. g \in [0..Len(<<>>) -> TreeState] /\ g[0] = a /\ g[Len(<<>>)] = a /\ 1..Len(<<>>) = {}
  OBVIOUS
<1>. HIDE DEF g
<1>. QED BY <1>1 DEF Leads

LEMMA LeadsByOne ==
  ASSUME NEW w, NEW a \in TreeState, NEW x, Turn(w, a, x) \in TreeState
  PROVE  Leads(w, a, <<x>>, Turn(w, a, x))
<1>. DEFINE g == [k \in 0..1 |-> IF k = 0 THEN a ELSE Turn(w, a, x)]
<1>1. Len(<<x>>) = 1 /\ <<x>>[1] = x
  OBVIOUS
<1>2. g \in [0..1 -> TreeState] /\ g[0] = a /\ g[1] = Turn(w, a, x)
  OBVIOUS
<1>. HIDE DEF g
<1>3. \A k \in 1..1 : g[k] = Turn(w, g[k - 1], <<x>>[k])
  BY <1>1, <1>2
<1>. QED BY <1>1, <1>2, <1>3 DEF Leads

LEMMA LeadsOn ==
  ASSUME NEW w, NEW a, NEW b, NEW c, NEW S, NEW s \in Seq(S), NEW t \in Seq(S),
         Leads(w, a, s, b), Leads(w, b, t, c)
  PROVE  Leads(w, a, s \o t, c)
<1>. PICK m \in Nat : m = Len(s)
  OBVIOUS
<1>. PICK n \in Nat : n = Len(t)
  OBVIOUS
<1>1. PICK g \in [0..m -> TreeState] :
        g[0] = a /\ g[m] = b /\ \A k \in 1..m : g[k] = Turn(w, g[k - 1], s[k])
  BY DEF Leads
<1>2. PICK h \in [0..n -> TreeState] :
        h[0] = b /\ h[n] = c /\ \A k \in 1..n : h[k] = Turn(w, h[k - 1], t[k])
  BY DEF Leads
<1>. DEFINE f == [k \in 0..(m + n) |-> IF k <= m THEN g[k] ELSE h[k - m]]
<1>3. f \in [0..(m + n) -> TreeState]
  <2>1. \A k \in 0..(m + n) : (k <= m => k \in 0..m) /\ (~(k <= m) => k - m \in 0..n)
    OBVIOUS
  <2>2. (\A k \in 0..m : g[k] \in TreeState) /\ (\A k \in 0..n : h[k] \in TreeState)
    BY <1>1, <1>2
  <2>. QED BY <2>1, <2>2
<1>4. (\A k \in 0..m : f[k] = g[k]) /\ (\A k \in 0..n : f[m + k] = h[k])
  <2>1. ASSUME NEW k \in 0..m PROVE f[k] = g[k]
    OBVIOUS
  <2>2. ASSUME NEW k \in 0..n PROVE f[m + k] = h[k]
    <3>1. CASE k = 0
      BY <1>1, <1>2, <3>1
    <3>2. CASE k # 0
      <4>1. m + k \in 0..(m + n) /\ ~(m + k <= m) /\ m + k - m = k
        BY <3>2
      <4>. QED BY <4>1
    <3>. QED BY <3>1, <3>2
  <2>. QED BY <2>1, <2>2
<1>. HIDE DEF f
<1>5. Len(s \o t) = m + n /\ \A k \in 1..(m + n) : (s \o t)[k] = IF k <= m THEN s[k] ELSE t[k - m]
  OBVIOUS
<1>6. ASSUME NEW k \in 1..(m + n) PROVE f[k] = Turn(w, f[k - 1], (s \o t)[k])
  <2>1. CASE k <= m
    <3>1. k \in 1..m /\ k \in 0..m /\ k - 1 \in 0..m
      BY <2>1
    <3>. QED BY <1>1, <1>4, <1>5, <2>1, <3>1
  <2>2. CASE ~(k <= m)
    <3>0. k - m \in 1..n
      BY <2>2
    <3>1. PICK j \in 1..n : j = k - m
      BY <3>0
    <3>2. k = m + j /\ k - 1 = m + (j - 1) /\ j \in 0..n /\ j - 1 \in 0..n
      BY <3>1
    <3>3. f[k] = h[j] /\ f[k - 1] = h[j - 1]
      BY <1>4, <3>2
    <3>4. (s \o t)[k] = t[j]
      BY <1>5, <2>2, <3>1
    <3>5. h[j] = Turn(w, h[j - 1], t[j])
      BY <1>2
    <3>. QED BY <3>3, <3>4, <3>5
  <2>. QED BY <2>1, <2>2
<1>7. f[0] = a /\ f[m + n] = c
  BY <1>1, <1>2, <1>4
<1>. QED BY <1>3, <1>5, <1>6, <1>7 DEF Leads

\* The same items lead to one tree only.
LEMMA LeadsToOne ==
  ASSUME NEW w, NEW a, NEW b, NEW c, NEW s, Len(s) \in Nat, Leads(w, a, s, b), Leads(w, a, s, c)
  PROVE  b = c
<1>. PICK n \in Nat : n = Len(s)
  OBVIOUS
<1>1. PICK g \in [0..n -> TreeState] :
        g[0] = a /\ g[n] = b /\ \A k \in 1..n : g[k] = Turn(w, g[k - 1], s[k])
  BY DEF Leads
<1>2. PICK h \in [0..n -> TreeState] :
        h[0] = a /\ h[n] = c /\ \A k \in 1..n : h[k] = Turn(w, h[k - 1], s[k])
  BY DEF Leads
<1>. DEFINE S == {k \in 0..n : g[k] = h[k]}
<1>3. 0 \in S
  BY <1>1, <1>2
<1>4. ASSUME NEW k \in 0..(n - 1), k \in S PROVE k + 1 \in S
  <2>1. PICK j \in 1..n : j = k + 1
    OBVIOUS
  <2>2. g[j] = Turn(w, g[j - 1], s[j]) /\ h[j] = Turn(w, h[j - 1], s[j])
    BY <1>1, <1>2
  <2>3. j - 1 = k
    BY <2>1
  <2>. QED BY <1>4, <2>1, <2>2, <2>3
<1>. HIDE DEF S
<1>5. 0..n \subseteq S
  BY <1>3, <1>4, NumbersUpTo
<1>6. n \in S
  BY <1>5
<1>. QED BY <1>1, <1>2, <1>6 DEF S

\* Trees that grow, and grow again.
LEMMA JoinedTwice ==
  ASSUME NEW a \in TreeState, NEW P \in SUBSET Entries, NEW Q \in SUBSET Entries, NEW E, NEW F
  PROVE  WithEdges(JoinedBy(WithEdges(JoinedBy(a, P), E), Q), F)
         = WithEdges(JoinedBy(a, P \cup Q), E \cup F)
<1>0. a.open \in Seq(Frame)
  BY StateFields
<1>1. (a.edges \cup E) \cup F = a.edges \cup (E \cup F)
  OBVIOUS
<1>2. CASE a.open = <<>>
  <2>1. /\ JoinedBy(a, P) = Tree(<<>>, a.roots \cup P, a.edges)
        /\ JoinedBy(a, P \cup Q) = Tree(<<>>, a.roots \cup (P \cup Q), a.edges)
    BY <1>2 DEF JoinedBy
  <2>2. WithEdges(JoinedBy(a, P), E) = Tree(<<>>, a.roots \cup P, a.edges \cup E)
    BY <2>1, WithEdgesOf
  <2>3. JoinedBy(Tree(<<>>, a.roots \cup P, a.edges \cup E), Q)
        = Tree(<<>>, (a.roots \cup P) \cup Q, a.edges \cup E)
    BY JoinedToRoots
  <2>4. WithEdges(Tree(<<>>, (a.roots \cup P) \cup Q, a.edges \cup E), F)
        = Tree(<<>>, (a.roots \cup P) \cup Q, (a.edges \cup E) \cup F)
    BY WithEdgesOf
  <2>5. WithEdges(JoinedBy(a, P \cup Q), E \cup F)
        = Tree(<<>>, a.roots \cup (P \cup Q), a.edges \cup (E \cup F))
    BY <2>1, WithEdgesOf
  <2>6. (a.roots \cup P) \cup Q = a.roots \cup (P \cup Q)
    OBVIOUS
  <2>. QED BY <1>1, <2>2, <2>3, <2>4, <2>5, <2>6
<1>3. CASE a.open # <<>>
  <2>. DEFINE n == Len(a.open)
              f == a.open[n]
              More(c) == [a.open EXCEPT ![n] = Opened(f.dir, f.children \cup c)]
  <2>1. n \in 1..n /\ f \in Frame /\ DOMAIN a.open = 1..n
    BY <1>0, <1>3
  <2>2. ASSUME NEW c \in SUBSET Entries
        PROVE  /\ More(c) \in Seq(Frame) /\ Len(More(c)) = n /\ More(c) # <<>>
               /\ More(c)[n] = Opened(f.dir, f.children \cup c)
    <3>1. Opened(f.dir, f.children \cup c) \in Frame
      BY <2>1, FrameFields, FrameType
    <3>2. More(c) \in Seq(Frame) /\ Len(More(c)) = n /\ More(c)[n] = Opened(f.dir, f.children \cup c)
      BY <1>0, <2>1, <3>1
    <3>3. More(c) # <<>>
      BY <2>1, <3>2
    <3>. QED BY <3>2, <3>3
  <2>3. \A c : JoinedBy(a, c) = Tree(More(c), a.roots, a.edges)
    BY <1>3 DEF JoinedBy
  <2>4. [More(P) EXCEPT ![n] = Opened(@.dir, @.children \cup Q)] = More(P \cup Q)
    <3>1. More(P)[n] = Opened(f.dir, f.children \cup P)
      BY <2>2
    <3>2. Opened(f.dir, f.children \cup P).dir = f.dir /\ Opened(f.dir, f.children \cup P).children = f.children \cup P
      BY DEF Opened
    <3>3. (f.children \cup P) \cup Q = f.children \cup (P \cup Q)
      OBVIOUS
    <3>4. Opened(More(P)[n].dir, More(P)[n].children \cup Q) = Opened(f.dir, f.children \cup (P \cup Q))
      BY <3>1, <3>2, <3>3
    <3>5. [More(P) EXCEPT ![n] = Opened(f.dir, f.children \cup (P \cup Q))] = More(P \cup Q)
      BY <2>1
    <3>. QED BY <3>4, <3>5
  <2>5. More(P) # <<>> /\ Len(More(P)) = n
    BY <2>2
  <2>. HIDE DEF More
  <2>6. WithEdges(JoinedBy(a, P), E) = Tree(More(P), a.roots, a.edges \cup E)
    BY <2>3, WithEdgesOf
  <2>7. JoinedBy(Tree(More(P), a.roots, a.edges \cup E), Q) = Tree(More(P \cup Q), a.roots, a.edges \cup E)
    <3>1. JoinedBy(Tree(More(P), a.roots, a.edges \cup E), Q)
          = Tree([More(P) EXCEPT ![n] = Opened(@.dir, @.children \cup Q)], a.roots, a.edges \cup E)
      <4>1. PICK M : M = More(P)
        OBVIOUS
      <4>2. JoinedBy(Tree(M, a.roots, a.edges \cup E), Q)
            = Tree([M EXCEPT ![Len(M)] = Opened(@.dir, @.children \cup Q)], a.roots, a.edges \cup E)
        BY <2>5, <4>1 DEF Tree, JoinedBy
      <4>. QED BY <2>5, <4>1, <4>2
    <3>. QED BY <2>4, <3>1
  <2>8. WithEdges(Tree(More(P \cup Q), a.roots, a.edges \cup E), F)
        = Tree(More(P \cup Q), a.roots, (a.edges \cup E) \cup F)
    BY WithEdgesOf
  <2>9. WithEdges(JoinedBy(a, P \cup Q), E \cup F) = Tree(More(P \cup Q), a.roots, a.edges \cup (E \cup F))
    BY <2>3, WithEdgesOf
  <2>. QED BY <1>1, <2>6, <2>7, <2>8, <2>9
<1>. QED BY <1>2, <1>3

LEMMA GrownTwice ==
  ASSUME NEW w, NEW a \in TreeState, NEW p \in SUBSET Entries, NEW q \in SUBSET Entries,
         NEW s, NEW t, NEW u, Range(u) = Range(s) \cup Range(t)
  PROVE  Grown(w, Grown(w, a, p, s), q, t) = Grown(w, a, p \cup q, u)
<1>1. EdgesOf(w, u) = EdgesOf(w, s) \cup EdgesOf(w, t)
  BY DEF EdgesOf
<1>. PICK E, F : E = EdgesOf(w, s) /\ F = EdgesOf(w, t)
  OBVIOUS
<1>. PICK P, Q : P = p \cap Enterable /\ Q = q \cap Enterable
  OBVIOUS
<1>2. /\ P \in SUBSET Entries /\ Q \in SUBSET Entries /\ (p \cup q) \cap Enterable = P \cup Q
      /\ EdgesOf(w, u) = E \cup F
  BY <1>1
<1>3. a.open \in Seq(Frame)
  BY StateFields
<1>4. WithEdges(JoinedBy(WithEdges(JoinedBy(a, P), E), Q), F) = WithEdges(JoinedBy(a, P \cup Q), E \cup F)
  BY <1>2, <1>3, JoinedTwice
<1>. QED BY <1>2, <1>4 DEF Grown

-----------------------------------------------------------------------------
(* What the items of an entry do to the tree *)

\* Joining nothing, and adding no edge.
LEMMA JoinedByNone ==
  ASSUME NEW a \in TreeState
  PROVE  JoinedBy(a, {}) = a
<1>0. a.open \in Seq(Frame) /\ a = Tree(a.open, a.roots, a.edges)
  BY StateFields
<1>1. CASE a.open = <<>>
  <2>1. JoinedBy(a, {}) = Tree(a.open, a.roots \cup {}, a.edges)
    BY <1>1 DEF JoinedBy
  <2>2. a.roots \cup {} = a.roots
    OBVIOUS
  <2>. QED BY <1>0, <2>1, <2>2
<1>2. CASE a.open # <<>>
  <2>. DEFINE n == Len(a.open)
              f == a.open[n]
  <2>1. n \in 1..n /\ f \in Frame
    BY <1>0, <1>2
  <2>2. Opened(f.dir, f.children \cup {}) = f
    <3>1. f.children \cup {} = f.children
      OBVIOUS
    <3>. QED BY <2>1, <3>1, FrameFields
  <2>3. [a.open EXCEPT ![n] = Opened(f.dir, f.children \cup {})] = a.open
    BY <1>0, <2>2
  <2>4. JoinedBy(a, {}) = Tree([a.open EXCEPT ![n] = Opened(f.dir, f.children \cup {})], a.roots, a.edges)
    BY <1>2 DEF JoinedBy
  <2>. QED BY <1>0, <2>3, <2>4
<1>. QED BY <1>1, <1>2

LEMMA WithNoEdges ==
  ASSUME NEW a \in TreeState
  PROVE  WithEdges(a, {}) = a
<1>1. a.edges \cup {} = a.edges
  OBVIOUS
<1>. QED BY <1>1, StateFields DEF WithEdges

LEMMA NoDirNoEdges ==
  ASSUME NEW w, NEW items, \A x \in Range(items) : x.kind # "Dir"
  PROVE  EdgesOf(w, items) = {}
BY DEF EdgesOf, Of

LEMMA GrownByNone ==
  ASSUME NEW w, NEW a \in TreeState, NEW items, \A x \in Range(items) : x.kind # "Dir",
         NEW paths, paths \cap Enterable = {}
  PROVE  Grown(w, a, paths, items) = a
BY JoinedByNone, WithNoEdges, NoDirNoEdges DEF Grown

\* An edge is added before a path joins, or after.
LEMMA EdgesAside ==
  ASSUME NEW a \in TreeState, NEW paths \in SUBSET Entries, NEW e, NEW f,
         NEW g, g = e \cup f
  PROVE  WithEdges(JoinedBy(WithEdges(a, e), paths), f) = WithEdges(JoinedBy(a, paths), g)
<1>1. WithEdges(JoinedBy(WithEdges(JoinedBy(a, {}), e), paths), f) = WithEdges(JoinedBy(a, {} \cup paths), e \cup f)
  BY JoinedTwice
<1>2. {} \cup paths = paths
  OBVIOUS
<1>. QED BY <1>1, <1>2, JoinedByNone

\* Entries that are not walked do nothing.
LEMMA SkipsLead ==
  ASSUME NEW w, NEW a \in TreeState, NEW path \in Entries, NEW n \in Nat
  PROVE  Leads(w, a, Times(n, Of("Skipped", path)), a)
<1>. PICK s : s = Times(n, Of("Skipped", path))
  OBVIOUS
<1>1. Len(s) = n /\ \A k \in 1..n : s[k] = Of("Skipped", path)
  BY TimesType, OfType DEF Times
<1>2. Turn(w, a, Of("Skipped", path)) = a
  BY DEF Turn, Of
<1>. DEFINE g == [k \in 0..n |-> a]
<1>3. g \in [0..n -> TreeState] /\ g[0] = a /\ g[n] = a
  OBVIOUS
<1>4. \A k \in 1..n : k - 1 \in 0..n /\ k \in 0..n
  OBVIOUS
<1>5. \A k \in 1..n : g[k] = a /\ g[k - 1] = a
  BY <1>4
<1>. HIDE DEF g
<1>6. \A k \in 1..n : g[k] = Turn(w, g[k - 1], s[k])
  BY <1>1, <1>2, <1>5
<1>. QED BY <1>1, <1>3, <1>6 DEF Leads

\* Where the items of an entry lead, whatever the tree is.
GrowsBy(path) ==
  \A w \in BOOLEAN, a \in TreeState : Leads(w, a, InlineItems[path], Grown(w, a, {path}, InlineItems[path]))

\* If each of paths leads there, their items together do.
LEMMA LeadsThrough ==
  ASSUME NEW w \in BOOLEAN, NEW a \in TreeState, NEW paths \in Seq(Entries),
         \A p \in Range(paths) : GrowsBy(p)
  PROVE  Leads(w, a, AllItems(paths), Grown(w, a, Range(paths), AllItems(paths)))
<1>1. PICK s \in Seq(Seq(Item)) : s = [i \in DOMAIN paths |-> InlineItems[paths[i]]]
  BY InlineIsTheRecursion, PicksType
<1>2. PICK h : FlatTurns(Item, s, h)
  BY FlatTurnsExist DEF HasFlatTurns
<1>. DEFINE N == Len(s)
            Upto(k) == {paths[i] : i \in 1..k}
            T == {k \in 0..N : Leads(w, a, h[k], Grown(w, a, Upto(k), h[k]))}
<1>3. N \in Nat /\ DOMAIN s = 1..N /\ h[0] = <<>> /\ \A k \in 1..N : h[k] = h[k - 1] \o s[k] /\ s[k] \in Seq(Item)
  <2>1. s \in Seq(Seq(Item))
    BY <1>1
  <2>2. N \in Nat /\ DOMAIN s = 1..N /\ \A k \in 1..N : s[k] \in Seq(Item)
    BY <2>1
  <2>. QED BY <1>2, <2>2 DEF FlatTurns
<1>4. \A k \in 0..N : h[k] \in Seq(Item)
  BY <1>2 DEF FlatTurns
<1>5. /\ DOMAIN paths = 1..N
      /\ \A i \in 1..N : paths[i] \in Entries /\ paths[i] \in Range(paths) /\ s[i] = InlineItems[paths[i]]
  <2>1. DOMAIN paths = 1..N
    BY <1>1, <1>3
  <2>. QED BY <1>1, <2>1 DEF Range
<1>6. 0 \in T
  <2>1. Upto(0) = {} /\ \A x \in Range(<<>>) : x.kind # "Dir"
    BY RangeOfNone
  <2>2. Grown(w, a, Upto(0), <<>>) = a
    BY <2>1, GrownByNone
  <2>3. Leads(w, a, <<>>, a)
    BY LeadsNowhere
  <2>. QED BY <1>3, <2>2, <2>3
<1>7. ASSUME NEW k \in 0..(N - 1), k \in T PROVE k + 1 \in T
  <2>1. k + 1 \in 1..N /\ k + 1 \in 0..N /\ k \in 0..N
    BY <1>3
  <2>2. PICK n \in 1..N : n = k + 1
    BY <2>1
  <2>3. h[n] = h[n - 1] \o s[n] /\ s[n] \in Seq(Item) /\ n - 1 = k
    <3>1. n - 1 = k
      BY <1>3, <2>2, <2>1
    <3>2. h[n] = h[n - 1] \o s[n] /\ s[n] \in Seq(Item)
      BY <1>3, <2>2
    <3>. QED BY <3>1, <3>2
  <2>4. PICK p : p = paths[n] /\ p \in Entries /\ GrowsBy(p) /\ s[n] = InlineItems[p]
    BY <1>5, <2>2
  <2>. DEFINE b == Grown(w, a, Upto(k), h[k])
  <2>5. Upto(k) \in SUBSET Entries
    BY <1>3, <1>5, <2>1
  <2>6. b \in TreeState
    BY <2>5, GrownType
  <2>7. Leads(w, b, s[n], Grown(w, b, {p}, s[n]))
    BY <2>4, <2>6 DEF GrowsBy
  <2>8. Range(h[n]) = Range(h[k]) \cup Range(s[n])
    BY <1>4, <2>1, <2>3, RangeOfJoined
  <2>9. Grown(w, b, {p}, s[n]) = Grown(w, a, Upto(k) \cup {p}, h[n])
    BY <2>4, <2>5, <2>8, GrownTwice
  <2>10. Upto(n) = Upto(k) \cup {p}
    <3>1. 1..n = (1..k) \cup {n}
      BY <2>1, <2>2
    <3>. QED BY <2>4, <3>1
  <2>11. Leads(w, a, h[k], b)
    BY <1>7
  <2>. HIDE DEF b
  <2>12. h[k] \in Seq(Item)
    BY <1>4, <2>1
  <2>13. Leads(w, a, h[k] \o s[n], Grown(w, b, {p}, s[n]))
    BY <2>3, <2>7, <2>11, <2>12, LeadsOn
  <2>14. Leads(w, a, h[n], Grown(w, a, Upto(n), h[n]))
    BY <2>3, <2>9, <2>10, <2>13
  <2>. QED BY <2>1, <2>2, <2>14
<1>. HIDE DEF T
<1>8. 0..N \subseteq T
  BY <1>3, <1>6, <1>7, NumbersUpTo
<1>9. N \in T
  BY <1>3, <1>8
<1>10. AllItems(paths) = h[N]
  BY <1>1, <1>2, FlattenedByTurns DEF AllItems
<1>11. Upto(N) = Range(paths)
  BY <1>5 DEF Range
<1>. QED BY <1>9, <1>10, <1>11 DEF T

\* A directory's children are what its listing has: nothing if it cannot be
\* listed.
ChildrenOf(path) == IF path \in Listable THEN Range(Children[path]) ELSE {}

LEMMA ListingLeads ==
  ASSUME NEW w \in BOOLEAN, NEW b \in TreeState, NEW path \in Entries, Kind[path] = "dir",
         \A p \in Range(Children[path]) : GrowsBy(p)
  PROVE  Leads(w, b, ListingOf(InlineItems, path), Grown(w, b, ChildrenOf(path), ListingOf(InlineItems, path)))
<1>. DEFINE skips == Times(Unlisted[path], Of("Skipped", path))
<1>1. \A n \in Nat : \A x \in Range(Times(n, Of("Skipped", path))) : x.kind # "Dir"
  BY DEF Times, Of, Range
<1>2. CASE path \notin Listable
  <2>1. ListingOf(InlineItems, path) = <<Of("Skipped", path)>>
    BY <1>2, DirItems
  <2>2. <<Of("Skipped", path)>> = Times(1, Of("Skipped", path))
    BY DEF Times
  <2>3. Leads(w, b, Times(1, Of("Skipped", path)), b)
    BY SkipsLead
  <2>4. Grown(w, b, {}, Times(1, Of("Skipped", path))) = b
    BY <1>1, GrownByNone
  <2>. QED BY <1>2, <2>1, <2>2, <2>3, <2>4 DEF ChildrenOf
<1>3. CASE path \in Listable
  <2>1. Unlisted[path] \in Nat
    BY ScanAssumption
  <2>2. skips \in Seq(Item) /\ AllItems(Children[path]) \in Seq(Item)
    BY <2>1, OfType, TimesType, ChildrenAreEntries, AllItemsType
  <2>3. Leads(w, b, skips, b)
    BY <2>1, SkipsLead
  <2>4. Leads(w, b, AllItems(Children[path]), Grown(w, b, Range(Children[path]), AllItems(Children[path])))
    BY ChildrenAreEntries, LeadsThrough
  <2>5. Grown(w, b, {}, skips) = b
    BY <1>1, <2>1, GrownByNone
  <2>. HIDE DEF skips
  <2>6. Leads(w, b, skips \o AllItems(Children[path]), Grown(w, b, Range(Children[path]), AllItems(Children[path])))
    BY <2>2, <2>3, <2>4, LeadsOn
  <2>7. Range(skips \o AllItems(Children[path])) = Range(skips) \cup Range(AllItems(Children[path]))
    BY <2>2, RangeOfJoined
  <2>8. Grown(w, Grown(w, b, {}, skips), Range(Children[path]), AllItems(Children[path]))
        = Grown(w, b, {} \cup Range(Children[path]), skips \o AllItems(Children[path]))
    <3>1. {} \in SUBSET Entries /\ Range(Children[path]) \in SUBSET Entries
      BY ChildrenAreEntries
    <3>. QED BY <2>7, <3>1, GrownTwice
  <2>9. {} \cup Range(Children[path]) = Range(Children[path])
    OBVIOUS
  <2>10. ListingOf(InlineItems, path) = skips \o AllItems(Children[path])
    BY <1>3, DirItems DEF skips
  <2>. QED BY <1>3, <2>5, <2>6, <2>8, <2>9, <2>10 DEF ChildrenOf
<1>. QED BY <1>2, <1>3

\* The edges a directory's end adds are those the others have not.
LEMMA EdgesOfDir ==
  ASSUME NEW w \in BOOLEAN, NEW path \in Entries, Kind[path] = "dir"
  PROVE  EdgesOf(w, InlineItems[path])
         = EdgesOf(w, ListingOf(InlineItems, path))
           \cup EdgesOfFrame(w, Opened(path, ChildrenOf(path) \cap Enterable))
<1>. PICK s, t : s = InlineItems[path] /\ t = ListingOf(InlineItems, path)
  OBVIOUS
<1>1. Range(s) = {Of("Dir", path), Of("DirEnd", path)} \cup Range(t)
  BY DirRange
<1>2. \A d \in Entries : Of("Dir", d) \in Range(s) <=> d = path \/ Of("Dir", d) \in Range(t)
  BY <1>1 DEF Of
<1>3. CASE w
  <2>1. EdgesOfFrame(w, Opened(path, ChildrenOf(path) \cap Enterable))
        = {<<path, child>> : child \in ChildrenOf(path) \cap Enterable}
    BY <1>3 DEF EdgesOfFrame, ChildEdges, Opened
  <2>2. {<<path, child>> : child \in ChildrenOf(path) \cap Enterable}
        = {e \in Entries \X Enterable : e[1] = path /\ e[1] \in Listable /\ e[2] \in Range(Children[e[1]])}
    BY DEF ChildrenOf
  <2>. QED BY <1>2, <1>3, <2>1, <2>2 DEF EdgesOf
<1>4. CASE ~w
  BY <1>4 DEF EdgesOf, EdgesOfFrame
<1>. QED BY <1>3, <1>4

LEMMA LastReplaced ==
  ASSUME NEW S, NEW s \in Seq(S), NEW f \in S, NEW g \in S
  PROVE  [Append(s, f) EXCEPT ![Len(s) + 1] = g] = Append(s, g)
<1>. DEFINE n == Len(s) + 1
            t == Append(s, f)
            u == Append(s, g)
<1>1. t \in Seq(S) /\ Len(t) = n /\ t[n] = f /\ \A i \in 1..Len(s) : t[i] = s[i]
  OBVIOUS
<1>2. u \in Seq(S) /\ Len(u) = n /\ u[n] = g /\ \A i \in 1..Len(s) : u[i] = s[i]
  OBVIOUS
<1>3. n \in Nat /\ DOMAIN t = 1..n /\ n \in 1..n /\ \A i \in 1..n : i = n \/ i \in 1..Len(s)
  BY <1>1
<1>. HIDE DEF t, u
<1>4. [t EXCEPT ![n] = g] \in Seq(S) /\ Len([t EXCEPT ![n] = g]) = n
  BY <1>1
<1>. HIDE DEF n
<1>5. \A i \in 1..n : [t EXCEPT ![n] = g][i] = u[i]
  <2>. TAKE i \in 1..n
  <2>1. CASE i = n
    BY <1>2, <1>3, <2>1
  <2>2. CASE i \in 1..Len(s) /\ i # n
    BY <1>1, <1>2, <1>3, <2>2
  <2>. QED BY <1>3, <2>1, <2>2
<1>. QED BY <1>2, <1>4, <1>5, SeqEqual DEF t, u, n

\* What an open directory's children do, and then its end.
LEMMA DirFills ==
  ASSUME NEW o \in Seq(Frame), NEW r, NEW e, NEW path \in Entries, NEW kids \in SUBSET Entries
  PROVE  JoinedBy(Tree(Append(o, Opened(path, {})), r, e), kids) = Tree(Append(o, Opened(path, kids)), r, e)
<1>1. /\ Opened(path, {}) \in Frame /\ Opened(path, {}).dir = path /\ Opened(path, {}).children = {}
      /\ Opened(path, kids) \in Frame
  BY FrameType
<1>2. PICK f : f = Opened(path, {}) /\ f \in Frame /\ f.dir = path /\ f.children = {}
  BY <1>1
<1>3. Append(o, f) # <<>> /\ Len(Append(o, f)) = Len(o) + 1 /\ Append(o, f)[Len(o) + 1] = f
  BY <1>2
<1>4. Opened(f.dir, f.children \cup kids) = Opened(path, kids)
  <2>1. {} \cup kids = kids
    OBVIOUS
  <2>. QED BY <1>2, <2>1
<1>5. [Append(o, f) EXCEPT ![Len(o) + 1] = Opened(path, kids)] = Append(o, Opened(path, kids))
  BY <1>1, <1>2, LastReplaced
<1>6. JoinedBy(Tree(Append(o, f), r, e), kids)
      = Tree([Append(o, f) EXCEPT ![Len(Append(o, f))] = Opened(@.dir, @.children \cup kids)], r, e)
  BY <1>3 DEF Tree, JoinedBy
<1>7. [Append(o, f) EXCEPT ![Len(Append(o, f))] = Opened(@.dir, @.children \cup kids)] = Append(o, Opened(path, kids))
  BY <1>3, <1>4, <1>5
<1>. QED BY <1>2, <1>6, <1>7

Filled(a, path, kids, e) == Tree(Append(a.open, Opened(path, kids)), a.roots, a.edges \cup e)
Closed(w, a, path, kids, e) ==
  WithEdges(JoinedBy(a, {path}), e \cup EdgesOfFrame(w, Opened(path, kids)))
LEMMA DirCloses ==
  ASSUME NEW w, NEW a \in TreeState, NEW path \in Entries, NEW kids \in SUBSET Entries, NEW e
  PROVE  Turn(w, Filled(a, path, kids, e), Of("DirEnd", path)) = Closed(w, a, path, kids, e)
<1>1. a.open \in Seq(Frame)
  BY StateFields
<1>2. PICK f : f = Opened(path, kids) /\ f \in Frame /\ f.dir = path
  BY FrameType
<1>3. Front(Append(a.open, f)) = a.open /\ Last(Append(a.open, f)) = f
  BY <1>1, <1>2 DEF Front, Last
<1>4. PICK c : c = Tree(Append(a.open, f), a.roots, a.edges \cup e)
  OBVIOUS
<1>5. c.open = Append(a.open, f) /\ c.roots = a.roots /\ c.edges = a.edges \cup e
  BY <1>4 DEF Tree
<1>6. Turn(w, c, Of("DirEnd", path))
      = WithEdges(JoinedBy(Tree(Front(c.open), c.roots, c.edges), {Last(c.open).dir}), EdgesOfFrame(w, Last(c.open)))
  BY DEF Turn, Of
<1>7. Front(c.open) = a.open /\ Last(c.open) = f
  BY <1>3, <1>5
<1>8. Turn(w, c, Of("DirEnd", path))
      = WithEdges(JoinedBy(Tree(a.open, a.roots, a.edges \cup e), {path}), EdgesOfFrame(w, f))
  BY <1>2, <1>5, <1>6, <1>7
<1>9. Tree(a.open, a.roots, a.edges \cup e) = WithEdges(a, e)
  BY DEF WithEdges
<1>10. \A P \in SUBSET Entries : \A g :
         WithEdges(JoinedBy(WithEdges(a, e), P), g) = WithEdges(JoinedBy(a, P), e \cup g)
  BY EdgesAside
<1>11. {path} \in SUBSET Entries
  OBVIOUS
<1>12. WithEdges(JoinedBy(WithEdges(a, e), {path}), EdgesOfFrame(w, f))
       = WithEdges(JoinedBy(a, {path}), e \cup EdgesOfFrame(w, f))
  BY <1>10, <1>11, Zenon
<1>. QED BY <1>2, <1>4, <1>8, <1>9, <1>12 DEF Filled, Closed

\* One item after another, a directory's items open it, fill it and close it.
LEMMA DirGrows ==
  ASSUME NEW path \in Entries, Kind[path] = "dir", \A p \in Range(Children[path]) : GrowsBy(p)
  PROVE  GrowsBy(path)
<1>. SUFFICES ASSUME NEW w \in BOOLEAN, NEW a \in TreeState
              PROVE  Leads(w, a, InlineItems[path], Grown(w, a, {path}, InlineItems[path]))
  BY DEF GrowsBy
<1>. DEFINE first == Of("Dir", path)
            last == Of("DirEnd", path)
            listing == ListingOf(InlineItems, path)
            kids == ChildrenOf(path) \cap Enterable
            E == EdgesOf(w, listing)
            F == EdgesOfFrame(w, Opened(path, kids))
            b == Tree(Append(a.open, Opened(path, {})), a.roots, a.edges)
            c == Grown(w, b, ChildrenOf(path), listing)
            d == WithEdges(JoinedBy(a, {path}), E \cup F)
<1>1. /\ InlineItems[path] = <<first>> \o listing \o <<last>>
      /\ <<first>> \in Seq(Item) /\ listing \in Seq(Item) /\ <<last>> \in Seq(Item)
  BY DirItems, OfType, OneItem
<1>2. a.open \in Seq(Frame) /\ a.roots \in SUBSET Entries /\ a.edges \in SUBSET (Entries \X Entries)
  BY StateFields
<1>3. b \in TreeState
  <2>1. Append(a.open, Opened(path, {})) \in Seq(Frame)
    BY <1>2, FrameType
  <2>. QED BY <1>2, <2>1, TreeType
<1>4. ChildrenOf(path) \in SUBSET Entries /\ kids \in SUBSET Entries /\ path \in Enterable
  BY ChildrenAreEntries DEF ChildrenOf, Enterable
<1>5. Leads(w, a, <<first>>, b)
  <2>1. Turn(w, a, first) = b
    BY DEF Turn, Of
  <2>. QED BY <1>3, <2>1, LeadsByOne
<1>6. Leads(w, b, listing, c) /\ c \in TreeState
  BY <1>3, <1>4, ListingLeads, GrownType
<1>7. c = Tree(Append(a.open, Opened(path, kids)), a.roots, a.edges \cup E)
  <2>1. JoinedBy(b, kids) = Tree(Append(a.open, Opened(path, kids)), a.roots, a.edges)
    <3>1. kids \in SUBSET Entries
      BY <1>4
    <3>. HIDE DEF kids
    <3>. QED BY <1>2, <3>1, DirFills
  <2>. HIDE DEF b
  <2>2. c = WithEdges(JoinedBy(b, kids), E)
    BY DEF Grown
  <2>. HIDE DEF kids, E
  <2>. QED BY <2>1, <2>2, WithEdgesOf
<1>8. Turn(w, c, last) = d
  <2>1. kids \in SUBSET Entries
    BY <1>4
  <2>2. c = Filled(a, path, kids, E) /\ d = Closed(w, a, path, kids, E)
    BY <1>7 DEF Filled, Closed
  <2>. HIDE DEF kids, E, c, d
  <2>. QED BY <2>1, <2>2, DirCloses
<1>9. d = Grown(w, a, {path}, InlineItems[path])
  <2>1. EdgesOf(w, InlineItems[path]) = E \cup F
    BY EdgesOfDir
  <2>2. {path} \cap Enterable = {path}
    BY <1>4
  <2>. QED BY <2>1, <2>2 DEF Grown
<1>10. d \in TreeState
  BY <1>9, GrownType
<1>11. Leads(w, c, <<last>>, d)
  <2>. HIDE DEF c, d
  <2>. QED BY <1>6, <1>8, <1>10, LeadsByOne
<1>. HIDE DEF b, c, d, listing
<1>12. Leads(w, a, <<first>> \o listing, c) /\ <<first>> \o listing \in Seq(Item)
  <2>1. <<first>> \o listing \in Seq(Item)
    BY <1>1
  <2>2. Leads(w, a, <<first>> \o listing, c)
    BY <1>1, <1>5, <1>6, LeadsOn
  <2>. QED BY <2>1, <2>2
<1>13. Leads(w, a, (<<first>> \o listing) \o <<last>>, d)
  BY <1>1, <1>11, <1>12, LeadsOn
<1>. QED BY <1>1, <1>9, <1>13

LEMMA LeafGrows ==
  ASSUME NEW path \in Entries, Kind[path] # "dir"
  PROVE  GrowsBy(path)
<1>. SUFFICES ASSUME NEW w \in BOOLEAN, NEW a \in TreeState
              PROVE  Leads(w, a, InlineItems[path], Grown(w, a, {path}, InlineItems[path]))
  BY DEF GrowsBy
<1>1. CASE Kind[path] = "file"
  <2>1. InlineItems[path] = <<Of("File", path)>>
    BY <1>1, LeafItems
  <2>2. Turn(w, a, Of("File", path)) = JoinedBy(a, {path})
    BY DEF Turn, Of
  <2>3. JoinedBy(a, {path}) \in TreeState
    BY JoinedType
  <2>4. {path} \cap Enterable = {path}
    BY <1>1 DEF Enterable
  <2>5. EdgesOf(w, <<Of("File", path)>>) = {}
    <3>1. \A x \in Range(<<Of("File", path)>>) : x.kind # "Dir"
      BY RangeOfOne DEF Of
    <3>. QED BY <3>1, NoDirNoEdges
  <2>6. Grown(w, a, {path}, <<Of("File", path)>>) = JoinedBy(a, {path})
    BY <2>3, <2>4, <2>5, WithNoEdges DEF Grown
  <2>7. Leads(w, a, <<Of("File", path)>>, JoinedBy(a, {path}))
    BY <2>2, <2>3, LeadsByOne
  <2>. QED BY <2>1, <2>6, <2>7
<1>2. CASE Kind[path] # "file"
  <2>1. InlineItems[path] = <<Of("Skipped", path)>>
    BY <1>2, LeafItems
  <2>2. Turn(w, a, Of("Skipped", path)) = a
    BY DEF Turn, Of
  <2>3. {path} \cap Enterable = {}
    BY <1>2 DEF Enterable
  <2>4. \A x \in Range(<<Of("Skipped", path)>>) : x.kind # "Dir"
    BY RangeOfOne DEF Of
  <2>5. Grown(w, a, {path}, <<Of("Skipped", path)>>) = a
    BY <2>3, <2>4, GrownByNone
  <2>6. Leads(w, a, <<Of("Skipped", path)>>, a)
    BY <2>2, LeadsByOne
  <2>. QED BY <2>1, <2>5, <2>6
<1>. QED BY <1>1, <1>2

LEMMA EntryGrows ==
  ASSUME NEW path \in Entries
  PROVE  GrowsBy(path)
<1>. DEFINE G == {p \in Entries : GrowsBy(p)}
<1>1. \A p \in Entries : Range(Children[p]) \subseteq G => p \in G
  BY DirGrows, LeafGrows
<1>. HIDE DEF G
<1>2. Entries \subseteq G
  BY <1>1, EntriesByInduction
<1>. QED BY <1>2 DEF G

-----------------------------------------------------------------------------
(* The tree all items build                                                  *)

NoTree == Tree(<<>>, {}, {})
RootsEntered == Range(Roots) \cap Enterable

LEMMA NoTreeType == NoTree \in TreeState
BY TreeType, EmptySeq DEF NoTree

LEMMA RootsAreEntries == Roots \in Seq(Entries) /\ Range(Roots) \subseteq Entries
BY ScanAssumption DEF Range

LEMMA WalkIsAllItems == WalkItems = AllItems(Roots)
BY DEF WalkItems, AllItems

LEMMA WalkBuilds ==
  ASSUME NEW w \in BOOLEAN
  PROVE  Leads(w, NoTree, WalkItems, Tree(<<>>, RootsEntered, EdgesOf(w, WalkItems)))
<1>1. \A p \in Range(Roots) : GrowsBy(p)
  BY EntryGrows, RootsAreEntries
<1>2. Leads(w, NoTree, AllItems(Roots), Grown(w, NoTree, Range(Roots), AllItems(Roots)))
  BY <1>1, LeadsThrough, NoTreeType, RootsAreEntries
<1>3. \A r, e : WithEdges(JoinedBy(NoTree, r), e) = Tree(<<>>, r, e)
  <2>. TAKE r, e
  <2>1. JoinedBy(NoTree, r) = Tree(<<>>, {} \cup r, {})
    BY JoinedToRoots DEF NoTree
  <2>2. WithEdges(Tree(<<>>, {} \cup r, {}), e) = Tree(<<>>, {} \cup r, {} \cup e)
    BY WithEdgesOf
  <2>3. {} \cup r = r /\ {} \cup e = e
    OBVIOUS
  <2>. QED BY <2>1, <2>2, <2>3
<1>4. Grown(w, NoTree, Range(Roots), WalkItems) = Tree(<<>>, RootsEntered, EdgesOf(w, WalkItems))
  BY <1>3 DEF Grown, RootsEntered
<1>. QED BY <1>2, <1>4, WalkIsAllItems

\* What is in the walk: every item in it is an entry's.
LEMMA InTheWalk ==
  /\ \A p \in Range(Roots) : Range(InlineItems[p]) \subseteq Range(WalkItems)
  /\ \A x \in Range(WalkItems) : \E p \in Range(Roots) : x \in Range(InlineItems[p])
  /\ Range(WalkItems) \subseteq Item
<1>1. Range(WalkItems) = UNION {Range(InlineItems[p]) : p \in Range(Roots)}
  BY AllItemsType, RootsAreEntries, WalkIsAllItems
<1>2. Range(WalkItems) \subseteq Item
  <2>1. \A s \in Seq(Item) : Range(s) \subseteq Item
    BY DEF Range
  <2>. QED BY <2>1, WalkItemsType
<1>. QED BY <1>1, <1>2

LEMMA WalkedIs ==
  ASSUME NEW kind, NEW p
  PROVE  p \in Walked(kind) <=> \E x \in Range(WalkItems) : x.kind = kind /\ x.path = p
<1>1. WalkItems \in Seq(Item) /\ DOMAIN WalkItems = 1..Len(WalkItems)
  BY WalkItemsType
<1>. QED BY <1>1 DEF Walked, Range

LEMMA ItemIs ==
  ASSUME NEW x \in Item
  PROVE  x = Of(x.kind, x.path) /\ x.path \in Entries
BY DEF Item, Of

\* An entry entered in the graph is a file or a directory, and an item that can
\* be entered is.
LEMMA EnteredIs ==
  /\ Entered \subseteq Enterable
  /\ \A p \in Enterable : Range(InlineItems[p]) \subseteq Range(WalkItems) => p \in Entered
  /\ \A p \in Entered : Kind[p] = "dir" => Of("Dir", p) \in Range(WalkItems)
<1>1. ASSUME NEW p \in Entered
      PROVE  /\ p \in Enterable
             /\ Kind[p] = "dir" => Of("Dir", p) \in Range(WalkItems)
  <2>1. PICK x \in Range(WalkItems) : x.kind \in {"Dir", "File"} /\ x.path = p
    BY WalkedIs DEF Entered
  <2>2. x \in Item
    BY <2>1, InTheWalk
  <2>3. x = Of(x.kind, p) /\ p \in Entries
    BY <2>1, <2>2, ItemIs
  <2>4. PICK r \in Range(Roots) : x \in Range(InlineItems[r])
    BY <2>1, InTheWalk
  <2>5. r \in Entries
    BY <2>4, RootsAreEntries
  <2>6. (x.kind = "Dir" => Kind[p] = "dir") /\ (x.kind = "File" => Kind[p] = "file")
    BY <2>1, <2>4, <2>5, ItemsAreTrue
  <2>. QED BY <2>1, <2>3, <2>6 DEF Enterable
<1>2. ASSUME NEW p \in Enterable, Range(InlineItems[p]) \subseteq Range(WalkItems)
      PROVE  p \in Entered
  <2>1. p \in Entries /\ ItemFor(p) \in Range(WalkItems)
    BY <1>2, ItemsAreTrue DEF Enterable
  <2>2. ItemFor(p).kind \in {"Dir", "File"} /\ ItemFor(p).path = p
    BY DEF ItemFor, Of
  <2>. QED BY <2>1, <2>2, WalkedIs DEF Entered
<1>. QED BY <1>1, <1>2

\* The roots are entered, and so is what a listed directory of the walk has.
LEMMA WalkHasRoots == Range(Roots) \cap Entered = RootsEntered
BY EnteredIs, InTheWalk DEF RootsEntered

LEMMA WalkHasChildren ==
  ASSUME NEW d \in Listable, Of("Dir", d) \in Range(WalkItems), NEW c \in Range(Children[d])
  PROVE  Range(InlineItems[c]) \subseteq Range(WalkItems)
<1>1. PICK r \in Range(Roots) : Of("Dir", d) \in Range(InlineItems[r])
  BY InTheWalk
<1>2. r \in Entries /\ d \in Entries
  BY <1>1, RootsAreEntries, ScanAssumption
<1>3. Range(InlineItems[c]) \subseteq Range(InlineItems[r])
  BY <1>1, <1>2, WalkIsClosed
<1>. QED BY <1>1, <1>3, InTheWalk

LEMMA WalkHasEdges ==
  EdgesOf(WritesChildren, WalkItems) =
    IF WritesChildren
    THEN {edge \in Entered \X Entered : edge[1] \in Listable /\ edge[2] \in Range(Children[edge[1]])}
    ELSE {}
<1>1. CASE WritesChildren
  <2>1. ASSUME NEW d \in Entries, NEW c \in Enterable, Of("Dir", d) \in Range(WalkItems),
               d \in Listable, c \in Range(Children[d])
        PROVE  d \in Entered /\ c \in Entered
    <3>1. Range(InlineItems[c]) \subseteq Range(WalkItems)
      BY <2>1, WalkHasChildren
    <3>2. c \in Entered
      BY <3>1, EnteredIs
    <3>3. d \in Walked("Dir")
      BY <2>1, WalkedIs DEF Of
    <3>. QED BY <3>2, <3>3 DEF Entered
  <2>2. ASSUME NEW d \in Entered, NEW c \in Entered, d \in Listable
        PROVE  d \in Entries /\ c \in Enterable /\ Of("Dir", d) \in Range(WalkItems)
    <3>1. d \in Entries /\ Kind[d] = "dir"
      BY <2>2, ScanAssumption
    <3>. QED BY <3>1, EnteredIs
  <2>. QED BY <1>1, <2>1, <2>2 DEF EdgesOf
<1>2. CASE ~WritesChildren
  BY <1>2 DEF EdgesOf
<1>. QED BY <1>1, <1>2

LEMMA TreeHasAllEdges ==
  TreeEdges = EdgesOf(WritesChildren, WalkItems) \cup {<<TaskArn, root>> : root \in RootsEntered}
BY WalkHasEdges, WalkHasRoots DEF TreeEdges

-----------------------------------------------------------------------------
(* What has been recorded of the items taken, and what is still to come       *)

InHand == IF inHand = NoItem THEN <<>> ELSE <<inHand>>
Ahead == IF mode = "scanned" THEN channel ELSE feed \o AllItems(rootsLeft)
Whole == IF mode = "scanned" THEN sent ELSE WalkItems
TreeNow == Tree(open, roots, edges)

\* The items taken are all in what comes, and the acquisition takes them in order.
Fed(taken) ==
  /\ Whole = taken \o (InHand \o Ahead)
  /\ mode = "scanned" => rootsLeft = <<>>
  /\ mode # "scanned" => scanner \in {"unborn", "gone"}

\* Every item taken has left what the graph or the report says of it, and of
\* files only those taken have.
Told(taken) ==
  /\ inHand = NoItem \/ (inHand \in Item /\ inHand.kind = "File" /\ <<inHand.path, "FileImage">> \in types)
  /\ \A x \in Range(taken) :
       /\ x.kind = "Skipped" => <<x.path, "not walked">> \in skipped
       /\ x.kind = "Dir" => <<x.path, "Folder">> \in types
       /\ x.kind = "File" => /\ <<x.path, "FileImage">> \in types
                             /\ x.path \in DOMAIN held \/ <<x.path, "not stored">> \in skipped
  /\ \A p : p \in DOMAIN held \/ <<p, "not stored">> \in skipped => Of("File", p) \in Range(taken)
  /\ \A p : ComesOnce(p) => ~(p \in DOMAIN held /\ <<p, "not stored">> \in skipped)

\* Where the acquisition stands, phase by phase.
Untouched ==
  /\ inHand = NoItem /\ rootsLeft = <<>>
  /\ open = <<>> /\ roots = {} /\ edges = {} /\ held = <<>> /\ skipped = {}
Collecting == phase = "collecting" /\ mode = "prescanned" /\ sent = feed \o channel /\ Untouched
Creating ==
  /\ phase = "creating" /\ Untouched
  /\ mode = "prescanned" => feed = WalkItems /\ scanner = "gone"
  /\ mode # "prescanned" => feed = <<>> /\ scanner = "unborn" /\ sent = <<>> /\ channel = <<>>
TakingItems ==
  /\ phase = "items"
  /\ \E taken \in Seq(Item) :
       Fed(taken) /\ Told(taken) /\ Leads(WritesChildren, NoTree, taken, TreeNow)
AllTaken == inHand = NoItem /\ Told(WalkItems)
Joining ==
  /\ phase = "joining" /\ AllTaken
  /\ open = <<>> /\ roots = RootsEntered /\ edges = EdgesOf(WritesChildren, WalkItems)
Ending == phase \in {"finishing", "closing", "done"} /\ AllTaken /\ edges = TreeEdges
Lost == phase \in {"abandoning", "failed"}

FeedTypes ==
  /\ mode \in {"scanned", "prescanned", "inline"}
  /\ channel \in Seq(Item) /\ feed \in Seq(Item) /\ rootsLeft \in Seq(Entries)
LogicalInv ==
  /\ WalkInv /\ FeedTypes
  /\ Lost \/ (receiving /\ (Collecting \/ Creating \/ TakingItems \/ Joining \/ Ending))

\* Items are sequences of items.
LEMMA AheadType ==
  ASSUME FeedTypes
  PROVE  Ahead \in Seq(Item) /\ AllItems(rootsLeft) \in Seq(Item)
<1>1. AllItems(rootsLeft) \in Seq(Item)
  BY AllItemsType DEF FeedTypes
<1>. QED BY <1>1 DEF Ahead, FeedTypes

LEMMA NoItemsAtAll == AllItems(<<>>) = <<>>
<1>1. [i \in DOMAIN <<>> |-> InlineItems[<<>>[i]]] = <<>>
  OBVIOUS
<1>. QED BY <1>1, FlattenNone DEF AllItems

\* A tree is one when items lead to it.
LEMMA LeadsType ==
  ASSUME NEW w, NEW a, NEW b, NEW S, NEW s \in Seq(S), Leads(w, a, s, b)
  PROVE  b \in TreeState
<1>. PICK n \in Nat : n = Len(s)
  OBVIOUS
<1>1. PICK g \in [0..n -> TreeState] : g[n] = b
  BY DEF Leads
<1>. QED BY <1>1

LEMMA TurnType ==
  ASSUME NEW w, NEW t \in TreeState, NEW x \in Item, x.kind = "DirEnd" => t.open # <<>>
  PROVE  Turn(w, t, x) \in TreeState
<1>0. /\ t.open \in Seq(Frame) /\ t.roots \in SUBSET Entries /\ t.edges \in SUBSET (Entries \X Entries)
      /\ x.path \in Entries /\ {x.path} \in SUBSET Entries
  BY StateFields, ItemIs
<1>1. CASE x.kind = "Dir"
  <2>1. Append(t.open, Opened(x.path, {})) \in Seq(Frame)
    BY <1>0, FrameType
  <2>2. Tree(Append(t.open, Opened(x.path, {})), t.roots, t.edges) \in TreeState
    BY <1>0, <2>1, TreeType
  <2>. QED BY <1>1, <2>2 DEF Turn
<1>2. CASE x.kind = "DirEnd"
  <2>1. t.open # <<>>
    BY <1>2
  <2>. PICK n : n = Len(t.open)
    OBVIOUS
  <2>2. n \in Nat \ {0} /\ Front(t.open) \in Seq(Frame) /\ Last(t.open) \in Frame
    BY <1>0, <2>1 DEF Front, Last
  <2>3. /\ Last(t.open).dir \in Entries /\ {Last(t.open).dir} \in SUBSET Entries
        /\ Last(t.open).children \in SUBSET Entries
    BY <2>2, FrameFields
  <2>4. Tree(Front(t.open), t.roots, t.edges) \in TreeState
    BY <1>0, <2>2, TreeType
  <2>5. JoinedBy(Tree(Front(t.open), t.roots, t.edges), {Last(t.open).dir}) \in TreeState
    BY <2>3, <2>4, JoinedType
  <2>6. EdgesOfFrame(w, Last(t.open)) \in SUBSET (Entries \X Entries)
    BY <2>3 DEF EdgesOfFrame, ChildEdges
  <2>7. WithEdges(JoinedBy(Tree(Front(t.open), t.roots, t.edges), {Last(t.open).dir}), EdgesOfFrame(w, Last(t.open)))
        \in TreeState
    BY <2>5, <2>6, WithEdgesType
  <2>. QED BY <1>2, <2>7 DEF Turn
<1>3. CASE x.kind = "File"
  <2>1. JoinedBy(t, {x.path}) \in TreeState
    BY <1>0, JoinedType
  <2>. QED BY <1>3, <2>1 DEF Turn
<1>4. CASE x.kind = "Skipped"
  BY <1>4 DEF Turn
<1>. QED BY <1>1, <1>2, <1>3, <1>4 DEF Item

LEMMA LeadsFurther ==
  ASSUME NEW w, NEW a, NEW t, NEW s \in Seq(Item), Leads(w, a, s, t), NEW x \in Item, x.kind = "DirEnd" => t.open # <<>>
  PROVE  Leads(w, a, Append(s, x), Turn(w, t, x))
<1>1. t \in TreeState
  BY LeadsType
<1>2. Turn(w, t, x) \in TreeState
  BY <1>1, TurnType
<1>3. Leads(w, t, <<x>>, Turn(w, t, x)) /\ <<x>> \in Seq(Item)
  BY <1>1, <1>2, LeadsByOne
<1>4. Leads(w, a, s \o <<x>>, Turn(w, t, x))
  BY <1>3, LeadsOn
<1>5. s \o <<x>> = Append(s, x)
  OBVIOUS
<1>. QED BY <1>4, <1>5

LEMMA FrameGrows ==
  ASSUME NEW f \in Frame, NEW path
  PROVE  [f EXCEPT !.children = @ \cup {path}] = Opened(f.dir, f.children \cup {path})
BY DEF Frame, Opened

\* What Joins does is what the replay does.
LEMMA JoinsIs ==
  ASSUME NEW stack \in Seq(Frame), NEW path \in Entries, Joins(stack, path), NEW e
  PROVE  Tree(open', roots', e) = JoinedBy(Tree(stack, roots, e), {path})
<1>1. CASE stack = <<>>
  <2>1. open' = <<>> /\ roots' = roots \cup {path}
    BY <1>1 DEF Joins
  <2>. QED BY <1>1, <2>1, JoinedToRoots
<1>2. CASE stack # <<>>
  <2>. PICK n : n = Len(stack)
    OBVIOUS
  <2>. PICK f : f = stack[n]
    OBVIOUS
  <2>1. n \in 1..n /\ f \in Frame
    BY <1>2
  <2>2. [f EXCEPT !.children = @ \cup {path}] = Opened(f.dir, f.children \cup {path})
    BY <2>1, FrameGrows
  <2>3. open' = [stack EXCEPT ![n] = [f EXCEPT !.children = @ \cup {path}]] /\ roots' = roots
    BY <1>2, <2>1 DEF Joins
  <2>4. JoinedBy(Tree(stack, roots, e), {path})
        = Tree([stack EXCEPT ![n] = Opened(f.dir, f.children \cup {path})], roots, e)
    BY <1>2 DEF JoinedBy, Tree
  <2>. QED BY <2>2, <2>3, <2>4
<1>. QED BY <1>1, <1>2

-----------------------------------------------------------------------------
(* What a step that takes, keeps or records an item does                      *)

\* What a prefix has, the whole has in the same place.
LEMMA PrefixPoints ==
  ASSUME NEW S, NEW s \in Seq(S), NEW t \in Seq(S), IsPrefix(s, t), NEW i \in 1..Len(s)
  PROVE  i \in DOMAIN t /\ t[i] = s[i]
<1>1. Len(s) \in Nat /\ Len(t) \in Nat /\ Len(s) <= Len(t) /\ SubSeq(s, 1, Len(s)) = SubSeq(t, 1, Len(s))
  BY DEF IsPrefix
<1>2. SubSeq(s, 1, Len(s)) = s
  BY SubSeqFull
<1>3. SubSeq(t, 1, Len(s))[i] = t[i]
  BY <1>1
<1>. QED BY <1>1, <1>2, <1>3

\* What is taken begins the walk.
LEMMA WholeBegins ==
  ASSUME WalkInv
  PROVE  Whole \in Seq(Item) /\ IsPrefix(Whole, WalkItems)
<1>1. sent \in Seq(Item) /\ IsPrefix(sent, WalkItems)
  BY CourseBegins DEF WalkInv, WalkTypes
<1>2. WalkItems \in Seq(Item) /\ IsPrefix(WalkItems, WalkItems)
  BY WalkItemsType, PrefixOfItself
<1>. QED BY <1>1, <1>2 DEF Whole

\* An entry the walk comes to once is not among the items taken while its own
\* is in hand.
LEMMA NotYetTaken ==
  ASSUME WalkInv, FeedTypes, NEW taken \in Seq(Item), Fed(taken), inHand # NoItem, inHand \in Item,
         NEW p, inHand = Of("File", p), ComesOnce(p)
  PROVE  inHand \notin Range(taken)
<1>1. SUFFICES ASSUME NEW i \in DOMAIN taken, taken[i] = inHand PROVE FALSE
  BY DEF Range
<1>. PICK m \in Nat : m = Len(taken)
  OBVIOUS
<1>2. InHand = <<inHand>> /\ Ahead \in Seq(Item)
  BY AheadType DEF InHand
<1>a. InHand \o Ahead \in Seq(Item)
  <2>1. <<inHand>> \in Seq(Item)
    BY OneItem
  <2>. QED BY <1>2, <2>1
<1>. PICK rest \in Seq(Item) : rest = InHand \o Ahead
  BY <1>a
<1>3. rest \in Seq(Item) /\ rest = <<inHand>> \o Ahead
  BY <1>a, <1>2
<1>4. Len(rest) > 0 /\ Len(rest) \in Nat /\ rest[1] = inHand
  BY <1>2, <1>3
<1>5. Whole = taken \o rest
  BY <1>3, <1>2 DEF Fed
<1>6. Len(Whole) = m + Len(rest) /\ Whole[i] = taken[i] /\ Whole[m + 1] = rest[1] /\ i \in 1..m
  BY <1>3, <1>4, <1>5
<1>7. i \in 1..Len(Whole) /\ m + 1 \in 1..Len(Whole)
  BY <1>4, <1>6
<1>8. /\ i \in DOMAIN WalkItems /\ WalkItems[i] = Whole[i]
      /\ m + 1 \in DOMAIN WalkItems /\ WalkItems[m + 1] = Whole[m + 1]
  BY <1>7, WholeBegins, WalkItemsType, PrefixPoints
<1>9. i = m + 1
  BY <1>1, <1>4, <1>6, <1>8 DEF ComesOnce
<1>. QED BY <1>6, <1>9

\* Taking one.
LEMMA TakesFirst ==
  ASSUME FeedTypes, Ready, Next1 # <<>>, Take, mode' = mode, rootsLeft' = rootsLeft
  PROVE  /\ Head(Next1) \in Item /\ Ahead = <<Head(Next1)>> \o Ahead' /\ Ahead' \in Seq(Item)
         /\ Whole' = Whole /\ scanner' = scanner /\ receiving' = receiving /\ FeedTypes'
<1>1. CASE mode = "scanned"
  <2>1. /\ channel' = Tail(channel) /\ channel # <<>> /\ feed' = feed /\ sent' = sent
        /\ scanner' = scanner /\ receiving' = receiving
    BY <1>1 DEF Take, Next1
  <2>2. Head(channel) \in Item /\ Tail(channel) \in Seq(Item) /\ channel = <<Head(channel)>> \o Tail(channel)
    BY <2>1 DEF FeedTypes
  <2>. QED BY <1>1, <2>1, <2>2 DEF Next1, Ahead, Whole, FeedTypes
<1>2. CASE mode # "scanned"
  <2>1. feed' = Tail(feed) /\ feed # <<>> /\ UNCHANGED scanVars
    BY <1>2 DEF Take, Next1
  <2>2. /\ Head(feed) \in Item /\ Tail(feed) \in Seq(Item) /\ <<Head(feed)>> \in Seq(Item)
        /\ feed = <<Head(feed)>> \o Tail(feed)
    BY <2>1 DEF FeedTypes
  <2>3. AllItems(rootsLeft) \in Seq(Item) /\ AllItems(rootsLeft') = AllItems(rootsLeft)
    BY AheadType
  <2>4. (<<Head(feed)>> \o Tail(feed)) \o AllItems(rootsLeft) = <<Head(feed)>> \o (Tail(feed) \o AllItems(rootsLeft))
    BY <2>2, <2>3, JoinThree
  <2>5. Tail(feed) \o AllItems(rootsLeft) \in Seq(Item)
    BY <2>2, <2>3
  <2>6. Ahead = feed \o AllItems(rootsLeft) /\ Ahead' = Tail(feed) \o AllItems(rootsLeft)
    BY <1>2, <2>1, <2>3 DEF Ahead
  <2>7. Whole' = Whole /\ scanner' = scanner /\ receiving' = receiving /\ FeedTypes'
    BY <1>2, <2>1, <2>2 DEF Whole, FeedTypes, scanVars
  <2>8. Ahead = <<Head(feed)>> \o Ahead'
    BY <2>2, <2>4, <2>6
  <2>. QED BY <1>2, <2>2, <2>5, <2>6, <2>7, <2>8 DEF Next1
<1>. QED BY <1>1, <1>2

\* An item taken is taken after the others.
LEMMA TakenNext ==
  ASSUME NEW taken \in Seq(Item), NEW x \in Item, NEW rest \in Seq(Item)
  PROVE  /\ taken \o (<<>> \o (<<x>> \o rest)) = Append(taken, x) \o (<<>> \o rest)
         /\ taken \o (<<>> \o (<<x>> \o rest)) = taken \o (<<x>> \o rest)
         /\ Append(taken, x) \in Seq(Item) /\ Range(Append(taken, x)) = Range(taken) \cup {x}
<1>1. <<x>> \in Seq(Item) /\ <<x>> \o rest \in Seq(Item) /\ Append(taken, x) = taken \o <<x>>
  OBVIOUS
<1>2. <<>> \o rest = rest /\ <<>> \o (<<x>> \o rest) = <<x>> \o rest
  BY <1>1, ConcatEmptySeq
<1>3. taken \o (<<x>> \o rest) = (taken \o <<x>>) \o rest
  BY <1>1, JoinThree
<1>4. Range(taken \o <<x>>) = Range(taken) \cup Range(<<x>>)
  BY <1>1, RangeOfJoined
<1>5. Append(taken, x) \in Seq(Item)
  OBVIOUS
<1>. QED BY <1>1, <1>2, <1>3, <1>4, <1>5, RangeOfOne

\* What is told stays told.
NothingUnstored == \A p : <<p, "not stored">> \in skipped' => <<p, "not stored">> \in skipped
TellsMore == types \subseteq types' /\ skipped \subseteq skipped'

LEMMA ToldStays ==
  ASSUME NEW taken, Told(taken), held' = held, TellsMore, NothingUnstored,
         inHand' = NoItem \/ (inHand' \in Item /\ inHand'.kind = "File" /\ <<inHand'.path, "FileImage">> \in types')
  PROVE  Told(taken)'
BY DEF Told, TellsMore, NothingUnstored, ComesOnce

\* A directory, its end, or what is not walked.
LEMMA ToldOfOne ==
  ASSUME NEW taken, Told(taken), NEW x, x.kind # "File", NEW more, Range(more) = Range(taken) \cup {x},
         held' = held, TellsMore, NothingUnstored, inHand' = NoItem,
         x.kind = "Skipped" => <<x.path, "not walked">> \in skipped',
         x.kind = "Dir" => <<x.path, "Folder">> \in types'
  PROVE  Told(more)'
BY DEF Told, TellsMore, NothingUnstored, ComesOnce

\* A file: its bytes are held, or it is reported.
KeptOrReported ==
  \/ DOMAIN held' = DOMAIN held \cup {File} /\ skipped' = skipped
  \/ held' = held /\ skipped' = skipped \cup {<<File, "not stored">>}
LEMMA ToldOfFile ==
  ASSUME NEW taken, Told(taken), inHand # NoItem, inHand \notin Range(taken) \/ ~ComesOnce(File),
         NEW more, Range(more) = Range(taken) \cup {inHand}, KeptOrReported,
         types \subseteq types', inHand' = NoItem
  PROVE  Told(more)'
<1>1. inHand \in Item /\ inHand.kind = "File" /\ inHand = Of("File", File) /\ <<File, "FileImage">> \in types
  BY ItemIs DEF Told, File
<1>2. /\ \A p : p \in DOMAIN held' <=> p \in DOMAIN held \/ (p = File /\ DOMAIN held' # DOMAIN held)
      /\ \A p : p \in DOMAIN held => p \in DOMAIN held'
      /\ skipped \subseteq skipped'
      /\ \A p : p # File => (p \in DOMAIN held' <=> p \in DOMAIN held)
                            /\ (<<p, "not stored">> \in skipped' <=> <<p, "not stored">> \in skipped)
      /\ File \in DOMAIN held' \/ <<File, "not stored">> \in skipped'
  BY DEF KeptOrReported
<1>3. ASSUME ComesOnce(File) PROVE ~(File \in DOMAIN held' /\ <<File, "not stored">> \in skipped')
  <2>1. inHand \notin Range(taken)
    BY <1>3
  <2>2. File \notin DOMAIN held /\ <<File, "not stored">> \notin skipped
    BY <1>1, <2>1 DEF Told
  <2>. QED BY <2>2 DEF KeptOrReported
<1>4. \A x \in Range(more) :
        /\ x.kind = "Skipped" => <<x.path, "not walked">> \in skipped'
        /\ x.kind = "Dir" => <<x.path, "Folder">> \in types'
        /\ x.kind = "File" => /\ <<x.path, "FileImage">> \in types'
                              /\ x.path \in DOMAIN held' \/ <<x.path, "not stored">> \in skipped'
  <2>1. \A x \in Range(taken) :
          /\ x.kind = "Skipped" => <<x.path, "not walked">> \in skipped'
          /\ x.kind = "Dir" => <<x.path, "Folder">> \in types'
          /\ x.kind = "File" => /\ <<x.path, "FileImage">> \in types'
                                /\ x.path \in DOMAIN held' \/ <<x.path, "not stored">> \in skipped'
    BY <1>2 DEF Told
  <2>2. inHand.path = File
    BY DEF File
  <2>. QED BY <1>1, <1>2, <2>1, <2>2
<1>5. \A p : p \in DOMAIN held' \/ <<p, "not stored">> \in skipped' => Of("File", p) \in Range(more)
  <2>1. ASSUME NEW p, p # File, p \in DOMAIN held' \/ <<p, "not stored">> \in skipped'
        PROVE  Of("File", p) \in Range(more)
    BY <1>2, <2>1 DEF Told
  <2>2. Of("File", File) \in Range(more)
    BY <1>1
  <2>. QED BY <2>1, <2>2
<1>6. \A p : ComesOnce(p) => ~(p \in DOMAIN held' /\ <<p, "not stored">> \in skipped')
  <2>1. ASSUME NEW p, p # File, ComesOnce(p) PROVE ~(p \in DOMAIN held' /\ <<p, "not stored">> \in skipped')
    BY <1>2, <2>1 DEF Told
  <2>. QED BY <1>3, <2>1
<1>. QED BY <1>4, <1>5, <1>6 DEF Told, ComesOnce

LEMMA AppendOne ==
  ASSUME NEW S, NEW s \in Seq(S), NEW x \in S
  PROVE  Append(s, x) \in Seq(S) /\ Append(s, x) = s \o <<x>>
OBVIOUS

\* The scanner's own steps.
LEMMA ScanKeeps ==
  ASSUME LogicalInv, WalkInv', Scan
  PROVE  LogicalInv'
<1>0. /\ ScanStep /\ mode' = mode /\ form' = form /\ feed' = feed /\ rootsLeft' = rootsLeft
      /\ open' = open /\ roots' = roots /\ edges' = edges /\ types' = types /\ held' = held
      /\ phase' = phase /\ inHand' = inHand /\ skipped' = skipped
  BY DEF Scan, feedVars, treeVars, storeVars
<1>1. receiving' = receiving /\ (scanner \in {"unborn", "gone"} => UNCHANGED <<scanner, channel, sent>>)
  BY <1>0 DEF ScanStep, ScanPassedOver, ScanFile, ScanDir, ScanList, ScanSkip, ScanEnd, ScanSend,
              ScanHungUp, ScanComplete, ScanGone, Walking
<1>2. \/ channel' = channel /\ sent' = sent
      \/ item \in Item /\ channel' = Append(channel, item) /\ sent' = Append(sent, item)
  BY <1>0 DEF ScanStep, ScanPassedOver, ScanFile, ScanDir, ScanList, ScanSkip, ScanEnd, ScanSend,
              ScanHungUp, ScanComplete, ScanGone, Walking, LogicalInv, WalkInv, WalkTypes
<1>3. FeedTypes' /\ sent \in Seq(Item) /\ FeedTypes
  <2>1. FeedTypes /\ channel \in Seq(Item) /\ sent \in Seq(Item)
    BY DEF LogicalInv, FeedTypes, WalkInv, WalkTypes
  <2>2. channel' \in Seq(Item)
    BY <1>2, <2>1, AppendOne
  <2>. QED BY <1>0, <2>1, <2>2 DEF FeedTypes
<1>4. ASSUME NEW s \in Seq(Item), sent = s \o channel PROVE sent' = s \o channel'
  <2>1. CASE channel' = channel /\ sent' = sent
    BY <1>4, <2>1
  <2>2. CASE item \in Item /\ channel' = Append(channel, item) /\ sent' = Append(sent, item)
    <3>1. channel \in Seq(Item) /\ <<item>> \in Seq(Item)
      BY <1>3, <2>2 DEF FeedTypes
    <3>2. Append(channel, item) = channel \o <<item>> /\ Append(sent, item) = sent \o <<item>>
      BY <1>3, <2>2, AppendOne DEF FeedTypes
    <3>3. (s \o channel) \o <<item>> = s \o (channel \o <<item>>)
      BY <3>1, JoinThree
    <3>. QED BY <1>4, <2>2, <3>2, <3>3
  <2>. QED BY <1>2, <2>1, <2>2
<1>5. CASE Lost
  BY <1>0, <1>3, <1>5 DEF LogicalInv, Lost
<1>6. CASE Collecting
  <2>1. sent' = feed \o channel'
    BY <1>3, <1>4, <1>6 DEF Collecting, FeedTypes
  <2>2. Collecting'
    BY <1>0, <1>6, <2>1 DEF Collecting, Untouched
  <2>3. receiving
    BY <1>6 DEF LogicalInv, Lost, Collecting
  <2>. QED BY <1>1, <1>3, <2>2, <2>3 DEF LogicalInv
<1>7. CASE Creating
  <2>2. scanner \in {"unborn", "gone"}
    BY <1>7, <1>3 DEF Creating, FeedTypes
  <2>3. UNCHANGED <<scanner, channel, sent>>
    BY <1>1, <2>2
  <2>4. Creating'
    BY <1>0, <1>7, <2>3 DEF Creating, Untouched
  <2>5. receiving
    BY <1>7 DEF LogicalInv, Lost, Creating
  <2>. QED BY <1>1, <1>3, <2>4, <2>5 DEF LogicalInv
<1>8. CASE TakingItems
  <2>1. PICK taken \in Seq(Item) : Fed(taken) /\ Told(taken) /\ Leads(WritesChildren, NoTree, taken, TreeNow)
    BY <1>8 DEF TakingItems
  <2>2. InHand' = InHand /\ TreeNow' = TreeNow /\ WritesChildren' = WritesChildren /\ Told(taken)'
    BY <1>0, <2>1 DEF InHand, TreeNow, WritesChildren, Told, ComesOnce
  <2>3. InHand \in Seq(Item)
    BY <2>1, EmptySeq, OneItem DEF InHand, Told
  <2>4. Fed(taken)'
    <3>1. CASE mode = "scanned"
      <4>1. taken \o InHand \in Seq(Item) /\ channel \in Seq(Item) /\ channel' \in Seq(Item)
        BY <1>3, <2>1, <2>3 DEF FeedTypes
      <4>2. sent = (taken \o InHand) \o channel
        <5>1. sent = taken \o (InHand \o channel)
          BY <2>1, <3>1 DEF Fed, Whole, Ahead
        <5>2. (taken \o InHand) \o channel = taken \o (InHand \o channel)
          BY <2>1, <2>3, <4>1, JoinThree
        <5>. QED BY <5>1, <5>2
      <4>3. sent' = (taken \o InHand) \o channel'
        BY <1>4, <4>1, <4>2
      <4>4. (taken \o InHand) \o channel' = taken \o (InHand \o channel')
        BY <2>1, <2>3, <4>1, JoinThree
      <4>. QED BY <1>0, <2>1, <2>2, <3>1, <4>3, <4>4 DEF Fed, Whole, Ahead
    <3>2. CASE mode # "scanned"
      <4>1. scanner' = scanner
        BY <1>1, <2>1, <3>2 DEF Fed
      <4>2. AllItems(rootsLeft') = AllItems(rootsLeft)
        BY <1>0
      <4>. QED BY <1>0, <2>1, <2>2, <3>2, <4>1, <4>2 DEF Fed, Whole, Ahead
    <3>. QED BY <3>1, <3>2
  <2>5. Leads(WritesChildren', NoTree, taken, TreeNow')
    BY <2>1, <2>2
  <2>6. TakingItems'
    BY <1>0, <1>8, <2>1, <2>2, <2>4, <2>5 DEF TakingItems
  <2>. QED BY <1>0, <1>1, <1>3, <1>8, <2>6 DEF LogicalInv, TakingItems, Lost
<1>9. CASE Joining
  <2>1. Told(WalkItems)' /\ WritesChildren' = WritesChildren
    BY <1>0, <1>9 DEF Joining, AllTaken, Told, ComesOnce, WritesChildren
  <2>. QED BY <1>0, <1>1, <1>3, <1>9, <2>1 DEF LogicalInv, Joining, AllTaken, Lost
<1>10. CASE Ending
  <2>1. Told(WalkItems)' /\ WritesChildren' = WritesChildren
    BY <1>0, <1>10 DEF Ending, AllTaken, Told, ComesOnce, WritesChildren
  <2>2. TreeEdges' = TreeEdges
    BY <2>1 DEF TreeEdges
  <2>. QED BY <1>0, <1>1, <1>3, <1>10, <2>1, <2>2 DEF LogicalInv, Ending, AllTaken, Lost
<1>. QED BY <1>5, <1>6, <1>7, <1>8, <1>9, <1>10 DEF LogicalInv

-----------------------------------------------------------------------------
(* The acquisition, step by step *)

\* Before the first item.
LEMMA CollectKeeps ==
  ASSUME LogicalInv, WalkInv', Collect
  PROVE  LogicalInv'
<1>0. /\ phase = "collecting" /\ channel # <<>> /\ feed' = Append(feed, Head(channel)) /\ channel' = Tail(channel)
      /\ sent' = sent /\ receiving' = receiving /\ mode' = mode /\ rootsLeft' = rootsLeft
      /\ open' = open /\ roots' = roots /\ edges' = edges /\ held' = held
      /\ phase' = phase /\ inHand' = inHand /\ skipped' = skipped
  BY DEF Collect, treeVars, storeVars
<1>1. Collecting /\ receiving
  BY <1>0 DEF LogicalInv, Lost, Creating, TakingItems, Joining, Ending
<1>2. /\ channel \in Seq(Item) /\ feed \in Seq(Item) /\ Head(channel) \in Item /\ Tail(channel) \in Seq(Item)
      /\ channel = <<Head(channel)>> \o Tail(channel)
  BY <1>0 DEF LogicalInv, FeedTypes
<1>3. <<Head(channel)>> \in Seq(Item) /\ Append(feed, Head(channel)) = feed \o <<Head(channel)>> /\ feed' \in Seq(Item)
  BY <1>0, <1>2, AppendOne, OneItem
<1>4. (feed \o <<Head(channel)>>) \o Tail(channel) = feed \o (<<Head(channel)>> \o Tail(channel))
  BY <1>2, <1>3, JoinThree
<1>5. sent' = feed' \o channel'
  BY <1>0, <1>1, <1>2, <1>3, <1>4 DEF Collecting
<1>6. Collecting'
  BY <1>0, <1>1, <1>5 DEF Collecting, Untouched
<1>7. FeedTypes'
  BY <1>0, <1>2, <1>3 DEF LogicalInv, FeedTypes
<1>. QED BY <1>0, <1>1, <1>6, <1>7 DEF LogicalInv

LEMMA CollectEndsKeeps ==
  ASSUME LogicalInv, WalkInv', CollectEnds
  PROVE  LogicalInv'
<1>0. /\ phase = "collecting" /\ channel = <<>> /\ scanner = "gone" /\ phase' = "creating"
      /\ UNCHANGED <<scanVars, feedVars, treeVars, storeVars, inHand, skipped, faults>>
  BY DEF CollectEnds
<1>1. Collecting /\ receiving
  BY <1>0 DEF LogicalInv, Lost, Creating, TakingItems, Joining, Ending
<1>2. feed \in Seq(Item) /\ FeedTypes'
  BY <1>0 DEF LogicalInv, FeedTypes, scanVars, feedVars
<1>3. sent = WalkItems
  BY <1>0, <1>1, WalkInvAgrees DEF LogicalInv, BothWalksAgree
<1>4. feed = WalkItems
  <2>1. feed \o <<>> = feed
    BY <1>2, ConcatEmptySeq
  <2>. QED BY <1>0, <1>1, <1>3, <2>1 DEF Collecting
<1>5. Creating'
  BY <1>0, <1>1, <1>4 DEF Creating, Collecting, Untouched, scanVars, feedVars, treeVars, storeVars
<1>. QED BY <1>0, <1>1, <1>2, <1>5 DEF LogicalInv, scanVars

\* The items begin with none taken.
LEMMA CreateKeeps ==
  ASSUME LogicalInv, WalkInv', Create
  PROVE  LogicalInv'
<1>0. /\ phase = "creating" /\ phase' = "items" /\ scanner' = (IF mode = "scanned" THEN "walking" ELSE scanner)
      /\ rootsLeft' = (IF mode = "inline" THEN Roots ELSE <<>>)
      /\ channel' = channel /\ sent' = sent /\ receiving' = receiving /\ mode' = mode /\ form' = form /\ feed' = feed
      /\ open' = open /\ roots' = roots /\ edges' = edges /\ held' = held /\ types' = types
      /\ inHand' = inHand /\ skipped' = skipped
  BY DEF Create, treeVars
<1>1. Creating /\ receiving
  BY <1>0 DEF LogicalInv, Lost, Collecting, TakingItems, Joining, Ending
<1>2. FeedTypes'
  BY <1>0, RootsAreEntries, EmptySeq DEF LogicalInv, FeedTypes
<1>3. Ahead' \in Seq(Item) /\ AllItems(rootsLeft') \in Seq(Item)
  <2>1. AllItems(rootsLeft') \in Seq(Item)
    BY <1>2, AllItemsType DEF FeedTypes
  <2>. QED BY <1>2, <2>1 DEF Ahead, FeedTypes
<1>4. Whole' = Ahead'
  <2>1. CASE mode = "scanned"
    BY <1>0, <1>1, <2>1 DEF Whole, Ahead, Creating
  <2>2. CASE mode = "prescanned"
    <3>1. AllItems(rootsLeft') = <<>> /\ feed' = WalkItems
      BY <1>0, <1>1, <2>2, NoItemsAtAll DEF Creating
    <3>2. WalkItems \o <<>> = WalkItems
      BY WalkItemsType, ConcatEmptySeq
    <3>. QED BY <1>0, <2>2, <3>1, <3>2 DEF Whole, Ahead
  <2>3. CASE mode = "inline"
    <3>1. AllItems(rootsLeft') = WalkItems /\ feed' = <<>>
      BY <1>0, <1>1, <2>3, WalkIsAllItems DEF Creating
    <3>2. <<>> \o WalkItems = WalkItems
      BY WalkItemsType, ConcatEmptySeq
    <3>. QED BY <1>0, <2>3, <3>1, <3>2 DEF Whole, Ahead
  <2>. QED BY <2>1, <2>2, <2>3 DEF LogicalInv, FeedTypes
<1>5. Fed(<<>>)'
  <2>1. InHand' = <<>>
    BY <1>0, <1>1 DEF InHand, Creating, Untouched
  <2>2. <<>> \o Ahead' = Ahead' /\ <<>> \o (<<>> \o Ahead') = Ahead'
    BY <1>3, ConcatEmptySeq
  <2>3. (mode' = "scanned" => rootsLeft' = <<>>) /\ (mode' # "scanned" => scanner' \in {"unborn", "gone"})
    BY <1>0, <1>1 DEF Creating, LogicalInv, FeedTypes
  <2>. QED BY <1>4, <2>1, <2>2, <2>3 DEF Fed
<1>6. Told(<<>>)'
  <2>1. DOMAIN held' = {} /\ skipped' = {} /\ inHand' = NoItem
    BY <1>0, <1>1 DEF Creating, Untouched
  <2>. QED BY <2>1, RangeOfNone DEF Told
<1>7. Leads(WritesChildren', NoTree, <<>>, TreeNow')
  <2>1. TreeNow' = NoTree
    BY <1>0, <1>1 DEF TreeNow, NoTree, Creating, Untouched
  <2>. QED BY <2>1, LeadsNowhere, NoTreeType
<1>8. TakingItems'
  <2>1. <<>> \in Seq(Item)
    BY EmptySeq
  <2>. QED BY <1>0, <1>5, <1>6, <1>7, <2>1 DEF TakingItems
<1>. QED BY <1>0, <1>1, <1>2, <1>8 DEF LogicalInv

\* Nothing is said once it has failed.
LEMMA FailingKeeps ==
  ASSUME LogicalInv, WalkInv', FeedTypes', phase' \in {"abandoning", "failed"}
  PROVE  LogicalInv'
BY DEF LogicalInv, Lost

\* While items are taken: what is left to show of a step.
LEMMA TakingOn ==
  ASSUME WalkInv', FeedTypes', receiving', phase' = "items",
         NEW more \in Seq(Item), Fed(more)', Told(more)', Leads(WritesChildren', NoTree, more, TreeNow')
  PROVE  LogicalInv'
BY DEF LogicalInv, TakingItems

LEMMA ItemsPhase ==
  ASSUME LogicalInv, phase = "items"
  PROVE  /\ receiving /\ FeedTypes /\ WalkInv
         /\ \E taken \in Seq(Item) :
              Fed(taken) /\ Told(taken) /\ Leads(WritesChildren, NoTree, taken, TreeNow)
BY DEF LogicalInv, Lost, Collecting, Creating, TakingItems, Joining, Ending

\* The first path's items, then the others'.
LEMMA AllItemsFirst ==
  ASSUME NEW paths \in Seq(Entries), paths # <<>>
  PROVE  AllItems(paths) = InlineItems[Head(paths)] \o AllItems(Tail(paths))
<1>. DEFINE tasks == Visits(paths)
<1>0. Head(paths) \in Entries /\ Tail(paths) \in Seq(Entries)
  OBVIOUS
<1>1. tasks \in Seq(Task) /\ WalkedBy(tasks) = AllItems(paths) /\ WalkedBy(Visits(Tail(paths))) = AllItems(Tail(paths))
  BY <1>0, WalkedVisits DEF AllItems
<1>2. tasks # <<>> /\ Head(tasks) = Do("visit", Head(paths)) /\ Tail(tasks) = Visits(Tail(paths))
  BY <1>0 DEF Visits
<1>3. WalkedBy(tasks) = Yield(Head(tasks)) \o WalkedBy(Tail(tasks))
  BY <1>1, <1>2, WalkedFirst
<1>4. Yield(Do("visit", Head(paths))) = InlineItems[Head(paths)]
  BY <1>0 DEF Yield, Do
<1>. QED BY <1>1, <1>2, <1>3, <1>4

LEMMA NextRootKeeps ==
  ASSUME LogicalInv, WalkInv', NextRoot
  PROVE  LogicalInv'
<1>0. /\ phase = "items" /\ inHand = NoItem /\ feed = <<>> /\ rootsLeft # <<>>
      /\ feed' = InlineItems[Head(rootsLeft)] /\ rootsLeft' = Tail(rootsLeft)
      /\ UNCHANGED <<scanVars, mode, form, treeVars, storeVars, phase, inHand, skipped, faults>>
  BY DEF NextRoot, Ready
<1>1. PICK taken \in Seq(Item) : Fed(taken) /\ Told(taken) /\ Leads(WritesChildren, NoTree, taken, TreeNow)
  BY <1>0, ItemsPhase
<1>2. receiving /\ FeedTypes /\ rootsLeft \in Seq(Entries)
  BY <1>0, ItemsPhase DEF FeedTypes
<1>3. Head(rootsLeft) \in Entries /\ Tail(rootsLeft) \in Seq(Entries)
  BY <1>0, <1>2
<1>4. InlineItems[Head(rootsLeft)] \in Seq(Item) /\ AllItems(Tail(rootsLeft)) \in Seq(Item)
  BY <1>3, InlineIsTheRecursion, AllItemsType
<1>5. FeedTypes'
  BY <1>0, <1>2, <1>3, <1>4 DEF FeedTypes, scanVars
<1>6. AllItems(rootsLeft) = InlineItems[Head(rootsLeft)] \o AllItems(Tail(rootsLeft))
  BY <1>0, <1>2, AllItemsFirst
<1>7. mode # "scanned"
  BY <1>0, <1>1 DEF Fed
<1>8. Ahead' = Ahead
  <2>1. <<>> \o AllItems(rootsLeft) = AllItems(rootsLeft)
    BY <1>2, AheadType, ConcatEmptySeq
  <2>. QED BY <1>0, <1>6, <1>7, <2>1 DEF Ahead
<1>9. Fed(taken)'
  BY <1>0, <1>1, <1>7, <1>8 DEF Fed, Whole, InHand, scanVars
<1>10. Told(taken)' /\ Leads(WritesChildren', NoTree, taken, TreeNow')
  <2>1. TreeNow' = TreeNow /\ WritesChildren' = WritesChildren
    BY <1>0 DEF TreeNow, WritesChildren, treeVars
  <2>2. Told(taken)'
    BY <1>0, <1>1 DEF Told, ComesOnce, storeVars
  <2>. QED BY <1>1, <2>1, <2>2
<1>11. receiving' /\ phase' = "items"
  BY <1>0, <1>2 DEF scanVars
<1>. QED BY <1>1, <1>5, <1>9, <1>10, <1>11, TakingOn

\* An item that is not a file, taken and recorded in one step.
LEMMA OneKeeps ==
  ASSUME LogicalInv, WalkInv', Ready, Next1 # <<>>, Take, NEW x, x = Head(Next1), x.kind # "File",
         mode' = mode, form' = form, rootsLeft' = rootsLeft, phase' = phase, inHand' = inHand, held' = held,
         TellsMore, NothingUnstored,
         x.kind = "Skipped" => <<x.path, "not walked">> \in skipped',
         x.kind = "Dir" => <<x.path, "Folder">> \in types',
         x.kind = "DirEnd" => open # <<>>,
         TreeNow \in TreeState => TreeNow' = Turn(WritesChildren, TreeNow, x)
  PROVE  LogicalInv'
<1>0. phase = "items" /\ inHand = NoItem
  BY DEF Ready
<1>1. PICK taken \in Seq(Item) : Fed(taken) /\ Told(taken) /\ Leads(WritesChildren, NoTree, taken, TreeNow)
  BY <1>0, ItemsPhase
<1>2. receiving /\ FeedTypes
  BY <1>0, ItemsPhase
<1>3. /\ x \in Item /\ Ahead = <<x>> \o Ahead' /\ Ahead' \in Seq(Item)
      /\ Whole' = Whole /\ scanner' = scanner /\ receiving' = receiving /\ FeedTypes'
  BY <1>2, TakesFirst
<1>4. PICK rest \in Seq(Item) : rest = Ahead'
  BY <1>3
<1>5. Append(taken, x) \in Seq(Item) /\ Range(Append(taken, x)) = Range(taken) \cup {x}
      /\ taken \o (<<>> \o (<<x>> \o rest)) = Append(taken, x) \o (<<>> \o rest)
  BY <1>1, <1>3, <1>4, TakenNext
<1>6. InHand = <<>> /\ InHand' = <<>>
  BY <1>0 DEF InHand
<1>7. Fed(Append(taken, x))'
  BY <1>1, <1>3, <1>4, <1>5, <1>6 DEF Fed
<1>8. Told(Append(taken, x))'
  BY <1>0, <1>1, <1>5, ToldOfOne
<1>9. Leads(WritesChildren', NoTree, Append(taken, x), TreeNow')
  <2>1. TreeNow \in TreeState /\ TreeNow.open = open
    <3>1. TreeNow \in TreeState
      BY <1>1, LeadsType
    <3>2. TreeNow.open = open
      BY DEF TreeNow, Tree
    <3>. QED BY <3>1, <3>2
  <2>2. Leads(WritesChildren, NoTree, Append(taken, x), Turn(WritesChildren, TreeNow, x))
    BY <1>1, <1>3, <2>1, LeadsFurther
  <2>3. WritesChildren' = WritesChildren
    BY DEF WritesChildren
  <2>. QED BY <2>1, <2>2, <2>3
<1>. QED BY <1>0, <1>2, <1>3, <1>5, <1>7, <1>8, <1>9, TakingOn

LEMMA TakeSkippedKeeps ==
  ASSUME LogicalInv, WalkInv', TakeSkipped
  PROVE  LogicalInv'
<1>. PICK x : x = Head(Next1)
  OBVIOUS
<1>0. /\ Ready /\ Next1 # <<>> /\ Take /\ x.kind = "Skipped" /\ skipped' = skipped \cup {<<x.path, "not walked">>}
      /\ UNCHANGED <<mode, form, rootsLeft, treeVars, storeVars, phase, inHand>>
  BY DEF TakeSkipped, Arrived, Path
<1>1. TellsMore /\ NothingUnstored
  BY <1>0 DEF TellsMore, NothingUnstored, storeVars
<1>2. TreeNow' = TreeNow /\ Turn(WritesChildren, TreeNow, x) = TreeNow
  BY <1>0 DEF TreeNow, treeVars, Turn
<1>3. held' = held
  BY <1>0 DEF storeVars
<1>. QED BY <1>0, <1>1, <1>2, <1>3, OneKeeps

LEMMA TakeDirKeeps ==
  ASSUME LogicalInv, WalkInv', TakeDir
  PROVE  LogicalInv'
<1>. PICK x : x = Head(Next1)
  OBVIOUS
<1>0. /\ Ready /\ Next1 # <<>> /\ Take /\ x.kind = "Dir" /\ types' = types \cup {<<x.path, "Folder">>}
      /\ open' = Append(open, Opened(x.path, {}))
      /\ UNCHANGED <<mode, form, rootsLeft, roots, edges, held, phase, inHand, skipped>>
  BY DEF TakeDir, Arrived, Path, Opened
<1>1. TellsMore /\ NothingUnstored
  BY <1>0 DEF TellsMore, NothingUnstored
<1>2. TreeNow' = Turn(WritesChildren, TreeNow, x)
  BY <1>0, TreeFields DEF TreeNow, Turn
<1>. QED BY <1>0, <1>1, <1>2, OneKeeps

LEMMA TakeDirEndKeeps ==
  ASSUME LogicalInv, WalkInv', TakeDirEnd
  PROVE  LogicalInv'
<1>. PICK x : x = Head(Next1)
  OBVIOUS
<1>0. /\ Ready /\ Next1 # <<>> /\ Take /\ x.kind = "DirEnd" /\ open # <<>>
      /\ Joins(Front(open), Last(open).dir)
      /\ edges' = edges \cup (IF WritesChildren THEN ChildEdges(Last(open)) ELSE {})
      /\ UNCHANGED <<mode, form, rootsLeft, storeVars, phase, inHand, skipped>>
  BY DEF TakeDirEnd, Arrived, Path
<1>1. TellsMore /\ NothingUnstored /\ held' = held
  BY <1>0 DEF TellsMore, NothingUnstored, storeVars
<1>2. ASSUME TreeNow \in TreeState PROVE TreeNow' = Turn(WritesChildren, TreeNow, x)
  <2>. PICK stack, f, p, more : stack = Front(open) /\ f = Last(open) /\ p = f.dir
                                 /\ more = EdgesOfFrame(WritesChildren, f)
    OBVIOUS
  <2>1. open \in Seq(Frame)
    BY <1>2, StateFields, TreeFields DEF TreeNow
  <2>2. stack \in Seq(Frame) /\ f \in Frame /\ p \in Entries
    BY <1>0, <2>1, FrameFields DEF Front, Last
  <2>3. edges' = edges \cup more
    BY <1>0 DEF EdgesOfFrame
  <2>4. Tree(open', roots', edges) = JoinedBy(Tree(stack, roots, edges), {p})
    BY <1>0, <2>2, JoinsIs
  <2>5. WithEdges(Tree(open', roots', edges), more) = Tree(open', roots', edges \cup more)
    BY WithEdgesOf
  <2>6. Turn(WritesChildren, TreeNow, x)
        = WithEdges(JoinedBy(Tree(Front(TreeNow.open), TreeNow.roots, TreeNow.edges), {Last(TreeNow.open).dir}),
                    EdgesOfFrame(WritesChildren, Last(TreeNow.open)))
    BY <1>0 DEF Turn
  <2>7. TreeNow.open = open /\ TreeNow.roots = roots /\ TreeNow.edges = edges
    BY TreeFields DEF TreeNow
  <2>8. Turn(WritesChildren, TreeNow, x) = WithEdges(JoinedBy(Tree(stack, roots, edges), {p}), more)
    BY <2>6, <2>7
  <2>. QED BY <2>3, <2>4, <2>5, <2>8 DEF TreeNow
<1>. QED BY <1>0, <1>1, <1>2, OneKeeps

\* A file, taken in hand.
LEMMA FileTakenKeeps ==
  ASSUME LogicalInv, WalkInv', FileTaken, TellsMore, NothingUnstored,
         UNCHANGED <<mode, form, rootsLeft, treeVars, held, phase>>
  PROVE  LogicalInv'
<1>. PICK x : x = Head(Next1)
  OBVIOUS
<1>0. /\ Ready /\ Next1 # <<>> /\ Take /\ x.kind = "File" /\ inHand' = x
      /\ <<x.path, "FileImage">> \in types' /\ phase = "items" /\ inHand = NoItem
  BY DEF FileTaken, Arrived, Path, Ready
<1>1. PICK taken \in Seq(Item) : Fed(taken) /\ Told(taken) /\ Leads(WritesChildren, NoTree, taken, TreeNow)
  BY <1>0, ItemsPhase
<1>2. receiving /\ FeedTypes
  BY <1>0, ItemsPhase
<1>3. /\ x \in Item /\ Ahead = <<x>> \o Ahead' /\ Ahead' \in Seq(Item)
      /\ Whole' = Whole /\ scanner' = scanner /\ receiving' = receiving /\ FeedTypes'
  BY <1>0, <1>2, TakesFirst
<1>4. PICK rest \in Seq(Item) : rest = Ahead'
  BY <1>3
<1>5. taken \o (<<>> \o (<<x>> \o rest)) = taken \o (<<x>> \o rest)
  BY <1>1, <1>3, <1>4, TakenNext
<1>6. InHand = <<>> /\ InHand' = <<x>>
  BY <1>0, <1>3, NoItemIsNone DEF InHand
<1>7. Fed(taken)'
  BY <1>1, <1>3, <1>4, <1>5, <1>6 DEF Fed
<1>8. Told(taken)'
  BY <1>0, <1>1, <1>3, ToldStays
<1>9. Leads(WritesChildren', NoTree, taken, TreeNow')
  <2>1. TreeNow' = TreeNow /\ WritesChildren' = WritesChildren
    BY DEF TreeNow, WritesChildren, treeVars
  <2>. QED BY <1>1, <2>1
<1>. QED BY <1>0, <1>1, <1>2, <1>3, <1>7, <1>8, <1>9, TakingOn

\* The file in hand, recorded.
LEMMA RecordedKeeps ==
  ASSUME LogicalInv, WalkInv', phase = "items", inHand # NoItem, FileRecorded, KeptOrReported,
         types \subseteq types', UNCHANGED <<scanVars, feedVars, edges, phase>>
  PROVE  LogicalInv'
<1>1. PICK taken \in Seq(Item) : Fed(taken) /\ Told(taken) /\ Leads(WritesChildren, NoTree, taken, TreeNow)
  BY ItemsPhase
<1>2. receiving /\ FeedTypes /\ WalkInv
  BY ItemsPhase
<1>. PICK x : x = inHand
  OBVIOUS
<1>3. x \in Item /\ x.kind = "File" /\ x.path = File /\ x = Of("File", File) /\ File \in Entries
  BY <1>1, ItemIs DEF Told, File
<1>4. receiving' = receiving /\ scanner' = scanner /\ Ahead' = Ahead /\ Whole' = Whole /\ FeedTypes'
      /\ mode' = mode /\ rootsLeft' = rootsLeft /\ form' = form
  <2>1. mode' = mode /\ form' = form /\ feed' = feed /\ rootsLeft' = rootsLeft /\ channel' = channel
        /\ sent' = sent /\ receiving' = receiving /\ scanner' = scanner
    BY DEF scanVars, feedVars
  <2>. QED BY <1>2, <2>1 DEF Ahead, Whole, FeedTypes
<1>5. Ahead \in Seq(Item)
  BY <1>2, AheadType
<1>6. InHand = <<x>> /\ InHand' = <<>>
  BY DEF InHand, FileRecorded
<1>7. /\ Append(taken, x) \in Seq(Item) /\ Range(Append(taken, x)) = Range(taken) \cup {x}
      /\ taken \o (<<>> \o (<<x>> \o Ahead)) = Append(taken, x) \o (<<>> \o Ahead)
      /\ taken \o (<<>> \o (<<x>> \o Ahead)) = taken \o (<<x>> \o Ahead)
  BY <1>1, <1>3, <1>5, TakenNext
<1>8. Fed(Append(taken, x))'
  BY <1>1, <1>4, <1>6, <1>7 DEF Fed
<1>9. Told(Append(taken, x))'
  <2>1. inHand \notin Range(taken) \/ ~ComesOnce(File)
    BY <1>1, <1>2, <1>3, NotYetTaken
  <2>2. inHand' = NoItem
    BY DEF FileRecorded
  <2>. QED BY <1>1, <1>7, <2>1, <2>2, ToldOfFile
<1>10. Leads(WritesChildren', NoTree, Append(taken, x), TreeNow')
  <2>1. TreeNow \in TreeState
    BY <1>1, LeadsType
  <2>2. open \in Seq(Frame)
    BY <2>1, StateFields, TreeFields DEF TreeNow
  <2>3. Tree(open', roots', edges) = JoinedBy(Tree(open, roots, edges), {File})
    BY <1>3, <2>2, JoinsIs DEF FileRecorded
  <2>4. Turn(WritesChildren, TreeNow, x) = JoinedBy(TreeNow, {File})
    BY <1>3 DEF Turn
  <2>5. TreeNow' = Turn(WritesChildren, TreeNow, x)
    BY <2>3, <2>4 DEF TreeNow
  <2>6. Leads(WritesChildren, NoTree, Append(taken, x), Turn(WritesChildren, TreeNow, x))
    BY <1>1, <1>3, <2>1, LeadsFurther
  <2>7. WritesChildren' = WritesChildren
    BY <1>4 DEF WritesChildren
  <2>. QED BY <2>5, <2>6, <2>7
<1>. QED BY <1>2, <1>4, <1>7, <1>8, <1>9, <1>10, TakingOn

\* Each way a file ends is one of the two.
LEMMA PassedIs == Passed => FileRecorded /\ KeptOrReported
BY DEF Passed, KeptOrReported

LEMMA AcquiredIs ==
  ASSUME NEW bytes, Acquired(bytes)
  PROVE  FileRecorded /\ KeptOrReported
<1>1. held' = [p \in DOMAIN held \cup {File} |->
                IF p = File THEN [storage |-> Storage(File), bytes |-> bytes] ELSE held[p]]
  BY DEF Acquired
<1>2. DOMAIN held' = DOMAIN held \cup {File}
  BY <1>1
<1>. QED BY <1>2 DEF Acquired, KeptOrReported

StoreEffect ==
  /\ phase = "items" /\ inHand # NoItem /\ FileRecorded /\ KeptOrReported
  /\ types \subseteq types' /\ UNCHANGED <<scanVars, feedVars, edges, phase>>
LEMMA StoreIs ==
  ASSUME StoreFile \/ StoreFileFails
  PROVE  StoreEffect
<1>1. CASE StoreFile
  <2>1. PICK bytes \in ContentOf[File] :
          StoreSegment(bytes) \/ StoreReserved(bytes) \/ StoreStream(bytes)
          \/ StorePooled(bytes) \/ StoreShared(bytes)
    BY <1>1 DEF StoreFile
  <2>2. CASE StoreSegment(bytes)
    BY <2>2, AcquiredIs DEF StoreSegment, StoreEffect, Recording, SegmentTyped, recordFrame
  <2>3. CASE StoreReserved(bytes)
    BY <2>3, PassedIs DEF StoreReserved, StoreEffect, Recording, recordFrame
  <2>4. CASE StoreStream(bytes)
    BY <2>4, AcquiredIs DEF StoreStream, StoreEffect, Recording, recordFrame
  <2>5. CASE StorePooled(bytes)
    BY <2>5, AcquiredIs DEF StorePooled, StoreEffect, Recording, recordFrame
  <2>6. CASE StoreShared(bytes)
    BY <2>6, AcquiredIs DEF StoreShared, StoreEffect, Recording, recordFrame
  <2>. QED BY <2>1, <2>2, <2>3, <2>4, <2>5, <2>6
<1>2. CASE RecordUnreadable
  BY <1>2, PassedIs DEF RecordUnreadable, StoreEffect, recordFrame
<1>3. CASE StoreSharedUnplaced
  BY <1>3, PassedIs DEF StoreSharedUnplaced, StoreEffect, Recording, recordFrame
<1>4. CASE \E bytes \in ContentOf[File] :
             StoreSegmentFails(bytes) \/ StoreStreamFails(bytes) \/ StoreSharedUnmapped(bytes)
  BY <1>4, PassedIs DEF StoreSegmentFails, StoreStreamFails, StoreSharedUnmapped, StoreEffect, Recording,
                        SegmentTyped, recordFrame
<1>5. CASE \E bytes \in ContentOf[File] : \E n \in 0..Len(bytes) :
             StoreStreamUnread(bytes, n) \/ StorePooledUnread(bytes, n)
  BY <1>5, PassedIs DEF StoreStreamUnread, StorePooledUnread, StoreEffect, Recording, recordFrame
<1>6. StoreFileFails => RecordUnreadable \/ StoreSharedUnplaced
        \/ (\E bytes \in ContentOf[File] :
              StoreSegmentFails(bytes) \/ StoreStreamFails(bytes) \/ StoreSharedUnmapped(bytes))
        \/ (\E bytes \in ContentOf[File] : \E n \in 0..Len(bytes) :
              StoreStreamUnread(bytes, n) \/ StorePooledUnread(bytes, n))
  BY DEF StoreFileFails
<1>. QED BY <1>1, <1>2, <1>3, <1>4, <1>5, <1>6

LEMMA StoreKeeps ==
  ASSUME LogicalInv, WalkInv', StoreFile \/ StoreFileFails
  PROVE  LogicalInv'
BY StoreIs, RecordedKeeps DEF StoreEffect

LEMMA TakeFileKeeps ==
  ASSUME LogicalInv, WalkInv', TakeFile \/ TakeFileAttributeFails
  PROVE  LogicalInv'
<1>1. FileTaken /\ TellsMore /\ NothingUnstored /\ UNCHANGED <<mode, form, rootsLeft, treeVars, held, phase>>
  BY DEF TakeFile, TakeFileAttributeFails, FileTaken, TellsMore, NothingUnstored
<1>. QED BY <1>1, FileTakenKeeps

\* After the last item all of the walk has been taken, and all its directories
\* are closed.
LEMMA ItemsEndKeeps ==
  ASSUME LogicalInv, WalkInv', ItemsEnd
  PROVE  LogicalInv'
<1>0. /\ phase = "items" /\ inHand = NoItem /\ Next1 = <<>> /\ rootsLeft = <<>>
      /\ mode = "scanned" => scanner = "gone"
      /\ edges' = edges \cup (IF WritesChildren THEN UNION {ChildEdges(open[i]) : i \in 1..Len(open)} ELSE {})
      /\ skipped' = skipped \cup {<<open[i].dir, "not closed">> : i \in 1..Len(open)}
      /\ open' = <<>> /\ phase' = "joining"
      /\ UNCHANGED <<scanVars, feedVars, roots, storeVars, inHand, faults>>
  BY DEF ItemsEnd, Exhausted, Ready
<1>1. PICK taken \in Seq(Item) : Fed(taken) /\ Told(taken) /\ Leads(WritesChildren, NoTree, taken, TreeNow)
  BY <1>0, ItemsPhase
<1>2. receiving /\ FeedTypes /\ WalkInv
  BY <1>0, ItemsPhase
<1>3. Ahead = <<>>
  <2>1. CASE mode = "scanned"
    BY <1>0, <2>1 DEF Ahead, Next1
  <2>2. CASE mode # "scanned"
    <3>1. feed = <<>> /\ AllItems(rootsLeft) = <<>>
      BY <1>0, <2>2, NoItemsAtAll DEF Next1
    <3>2. <<>> \o <<>> = <<>>
      OBVIOUS
    <3>. QED BY <2>2, <3>1, <3>2 DEF Ahead
  <2>. QED BY <2>1, <2>2
<1>4. Whole = WalkItems
  <2>1. CASE mode = "scanned"
    BY <1>0, <1>2, <2>1, WalkInvAgrees DEF Whole, BothWalksAgree
  <2>2. CASE mode # "scanned"
    BY <2>2 DEF Whole
  <2>. QED BY <2>1, <2>2
<1>5. taken = WalkItems
  <2>1. InHand = <<>>
    BY <1>0 DEF InHand
  <2>2. <<>> \o <<>> = <<>> /\ taken \o <<>> = taken
    BY <1>1, ConcatEmptySeq
  <2>. QED BY <1>1, <1>3, <1>4, <2>1, <2>2 DEF Fed
<1>6. TreeNow = Tree(<<>>, RootsEntered, EdgesOf(WritesChildren, WalkItems))
  <2>1. WritesChildren \in BOOLEAN /\ Len(WalkItems) \in Nat
    BY WalkItemsType DEF WritesChildren
  <2>2. Leads(WritesChildren, NoTree, WalkItems, Tree(<<>>, RootsEntered, EdgesOf(WritesChildren, WalkItems)))
    BY <2>1, WalkBuilds
  <2>3. Leads(WritesChildren, NoTree, WalkItems, TreeNow)
    BY <1>1, <1>5
  <2>. QED BY <2>1, <2>2, <2>3, LeadsToOne
<1>7. open = <<>> /\ roots = RootsEntered /\ edges = EdgesOf(WritesChildren, WalkItems)
  <2>1. TreeNow.open = open /\ TreeNow.roots = roots /\ TreeNow.edges = edges
    BY TreeFields DEF TreeNow
  <2>. QED BY <1>6, <2>1, TreeFields
<1>8. edges' = edges /\ skipped' = skipped
  <2>1. 1..Len(open) = {}
    BY <1>7
  <2>2. {ChildEdges(open[i]) : i \in 1..Len(open)} = {} /\ {<<open[i].dir, "not closed">> : i \in 1..Len(open)} = {}
    BY <2>1
  <2>. QED BY <1>0, <2>2
<1>9. Told(WalkItems)'
  BY <1>0, <1>1, <1>5, <1>8 DEF Told, ComesOnce, storeVars
<1>10. Joining'
  <2>1. WritesChildren' = WritesChildren
    BY <1>0 DEF WritesChildren, feedVars
  <2>. QED BY <1>0, <1>7, <1>8, <1>9, <2>1 DEF Joining, AllTaken
<1>11. FeedTypes' /\ receiving'
  BY <1>0, <1>2 DEF FeedTypes, scanVars, feedVars
<1>. QED BY <1>10, <1>11 DEF LogicalInv

\* Then the roots' edges, and the end of the volume.
LEMMA JoinKeeps ==
  ASSUME LogicalInv, WalkInv', Join
  PROVE  LogicalInv'
<1>0. /\ phase = "joining" /\ phase' = "finishing" /\ edges' = edges \cup {<<TaskArn, root>> : root \in roots}
      /\ UNCHANGED <<scanVars, feedVars, open, roots, storeVars, inHand, skipped, faults>>
  BY DEF Join
<1>1. Joining /\ receiving /\ FeedTypes
  BY <1>0 DEF LogicalInv, Lost, Collecting, Creating, TakingItems, Ending
<1>2. Told(WalkItems)' /\ inHand' = NoItem
  BY <1>0, <1>1 DEF Joining, AllTaken, Told, ComesOnce, storeVars
<1>3. edges' = TreeEdges'
  <2>1. WritesChildren' = WritesChildren
    BY <1>0 DEF WritesChildren, feedVars
  <2>2. TreeEdges' = TreeEdges
    BY <2>1 DEF TreeEdges
  <2>. QED BY <1>0, <1>1, <2>2, TreeHasAllEdges DEF Joining
<1>4. Ending'
  BY <1>0, <1>2, <1>3 DEF Ending, AllTaken
<1>5. FeedTypes' /\ receiving'
  BY <1>0, <1>1 DEF FeedTypes, scanVars, feedVars
<1>. QED BY <1>4, <1>5 DEF LogicalInv

LEMMA EndKeeps ==
  ASSUME LogicalInv, WalkInv', FinishStorage \/ CloseVolume
  PROVE  LogicalInv'
<1>0. /\ phase \in {"finishing", "closing"} /\ phase' \in {"closing", "done"} /\ types \subseteq types'
      /\ UNCHANGED <<scanVars, feedVars, treeVars, held, inHand, skipped>>
  BY DEF FinishStorage, CloseVolume
<1>1. Ending /\ receiving /\ FeedTypes
  BY <1>0 DEF LogicalInv, Lost, Collecting, Creating, TakingItems, Joining
<1>2. Told(WalkItems)' /\ inHand' = NoItem
  <2>1. TellsMore /\ NothingUnstored /\ held' = held /\ inHand' = NoItem
    BY <1>0, <1>1 DEF TellsMore, NothingUnstored, Ending, AllTaken
  <2>. QED BY <1>1, <2>1, ToldStays DEF Ending, AllTaken
<1>3. TreeEdges' = TreeEdges /\ edges' = edges
  BY <1>0 DEF TreeEdges, WritesChildren, feedVars, treeVars
<1>4. Ending'
  BY <1>0, <1>1, <1>2, <1>3 DEF Ending, AllTaken
<1>5. FeedTypes' /\ receiving'
  BY <1>0, <1>1 DEF FeedTypes, scanVars, feedVars
<1>. QED BY <1>4, <1>5 DEF LogicalInv

-----------------------------------------------------------------------------
(* The theorem *)

LEMMA LogicalInvInit == LogicalInit => LogicalInv
<1>. SUFFICES ASSUME LogicalInit PROVE LogicalInv
  OBVIOUS
<1>1. /\ mode \in Modes /\ channel = <<>> /\ receiving = TRUE /\ sent = <<>> /\ feed = <<>> /\ rootsLeft = <<>>
      /\ scanner = (IF mode = "prescanned" THEN "walking" ELSE "unborn")
      /\ phase = (IF mode = "prescanned" THEN "collecting" ELSE "creating")
      /\ open = <<>> /\ roots = {} /\ edges = {} /\ inHand = NoItem /\ held = <<>> /\ skipped = {}
  BY DEF LogicalInit, ScanInit
<1>2. WalkInv
  BY WalkInit
<1>3. FeedTypes
  BY <1>1, EmptySeq, LogicalAssumption DEF FeedTypes
<1>4. Untouched
  BY <1>1 DEF Untouched
<1>5. CASE mode = "prescanned"
  <2>1. Collecting
    BY <1>1, <1>4, <1>5 DEF Collecting
  <2>. QED BY <1>1, <1>2, <1>3, <2>1 DEF LogicalInv
<1>6. CASE mode # "prescanned"
  <2>1. Creating
    BY <1>1, <1>4, <1>6 DEF Creating
  <2>. QED BY <1>1, <1>2, <1>3, <2>1 DEF LogicalInv
<1>. QED BY <1>5, <1>6

\* What ends an acquisition early.
LEMMA GivingUpKeeps ==
  ASSUME LogicalInv, WalkInv',
         CreateFails \/ MintFails \/ JoinAbandoned \/ FinishStorageFails \/ CloseVolumeFails
  PROVE  LogicalInv'
<1>1. phase' \in {"abandoning", "failed"}
  BY DEF CreateFails, MintFails, JoinAbandoned, FinishStorageFails, CloseVolumeFails
<1>2. UNCHANGED feedVars /\ channel' \in {channel, <<>>}
  BY DEF CreateFails, MintFails, JoinAbandoned, FinishStorageFails, CloseVolumeFails, scanVars
<1>3. FeedTypes'
  BY <1>2, EmptySeq DEF FeedTypes, feedVars, LogicalInv
<1>. QED BY <1>1, <1>3, FailingKeeps

\* The invariant reads what a step that changes nothing leaves alone.
LEMMA StutterKeeps ==
  ASSUME LogicalInv, WalkInv', UNCHANGED logicalVars
  PROVE  LogicalInv'
<1>1. UNCHANGED <<scanVars, feedVars, open, roots, edges, types, held, phase, inHand, skipped>>
  BY DEF logicalVars, treeVars, storeVars
<1>. QED BY <1>1 DEF LogicalInv, FeedTypes, Collecting, Creating, Untouched, TakingItems, Fed, Told, AllTaken,
       Joining, Ending, Lost, TreeNow, WritesChildren, Whole, Ahead, InHand, scanVars, feedVars, ComesOnce, TreeEdges

LEMMA LogicalStep == LogicalInv /\ [LogicalNext]_logicalVars => LogicalInv'
<1>. SUFFICES ASSUME LogicalInv, [LogicalNext]_logicalVars PROVE LogicalInv'
  OBVIOUS
<1>1. WalkInv'
  BY WalkStep DEF LogicalInv
<1>2. CASE Scan
  BY <1>1, <1>2, ScanKeeps
<1>3. CASE Acquire
  <2>1. CASE Collect \/ CollectEnds \/ Create
    BY <1>1, <2>1, CollectKeeps, CollectEndsKeeps, CreateKeeps
  <2>2. CASE NextRoot \/ TakeSkipped \/ TakeDir \/ TakeDirEnd \/ TakeFile
    BY <1>1, <2>2, NextRootKeeps, TakeSkippedKeeps, TakeDirKeeps, TakeDirEndKeeps, TakeFileKeeps
  <2>3. CASE StoreFile
    BY <1>1, <2>3, StoreKeeps
  <2>4. CASE ItemsEnd \/ Join \/ FinishStorage \/ CloseVolume
    BY <1>1, <2>4, ItemsEndKeeps, JoinKeeps, EndKeeps
  <2>5. CASE JoinAbandoned
    BY <1>1, <2>5, GivingUpKeeps
  <2>. QED BY <1>3, <2>1, <2>2, <2>3, <2>4, <2>5 DEF Acquire
<1>4. CASE LogicalFails
  <2>1. CASE TakeFileAttributeFails
    BY <1>1, <2>1, TakeFileKeeps
  <2>2. CASE StoreFileFails
    BY <1>1, <2>2, StoreKeeps
  <2>3. CASE CreateFails \/ MintFails \/ FinishStorageFails \/ CloseVolumeFails
    BY <1>1, <2>3, GivingUpKeeps
  <2>. QED BY <1>4, <2>1, <2>2, <2>3 DEF LogicalFails
<1>5. CASE UNCHANGED logicalVars
  BY <1>1, <1>5, StutterKeeps
<1>. QED BY <1>2, <1>3, <1>4, <1>5 DEF LogicalNext

\* An acquisition that is done has told of every item of the walk.
LEMMA DoneTellsAll == LogicalInv => NothingIsLostSilently
<1>. SUFFICES ASSUME LogicalInv, phase = "done" PROVE NothingIsLostSilently
  BY DEF NothingIsLostSilently
<1>1. Told(WalkItems) /\ edges = TreeEdges
  BY DEF LogicalInv, Lost, Collecting, Creating, TakingItems, Joining, Ending, AllTaken
<1>2. /\ \A x \in Range(WalkItems) : x.kind = "Skipped" => <<x.path, "not walked">> \in skipped
      /\ \A x \in Range(WalkItems) : x.kind = "Dir" => <<x.path, "Folder">> \in types
      /\ \A x \in Range(WalkItems) :
           x.kind = "File" => /\ <<x.path, "FileImage">> \in types
                              /\ x.path \in DOMAIN held \/ <<x.path, "not stored">> \in skipped
      /\ \A p : ComesOnce(p) => ~(p \in DOMAIN held /\ <<p, "not stored">> \in skipped)
  BY <1>1 DEF Told
<1>3. ASSUME NEW p \in Walked("Dir") PROVE <<p, "Folder">> \in types
  <2>1. PICK x \in Range(WalkItems) : x.kind = "Dir" /\ x.path = p
    BY WalkedIs
  <2>. QED BY <1>2, <2>1
<1>4. ASSUME NEW p \in Walked("Skipped") PROVE <<p, "not walked">> \in skipped
  <2>1. PICK x \in Range(WalkItems) : x.kind = "Skipped" /\ x.path = p
    BY WalkedIs
  <2>. QED BY <1>2, <2>1
<1>5. ASSUME NEW p \in Walked("File")
      PROVE  /\ <<p, "FileImage">> \in types
             /\ p \in DOMAIN held \/ <<p, "not stored">> \in skipped
             /\ ComesOnce(p) => ~(p \in DOMAIN held /\ <<p, "not stored">> \in skipped)
  <2>1. PICK x \in Range(WalkItems) : x.kind = "File" /\ x.path = p
    BY WalkedIs
  <2>. QED BY <1>2, <2>1
<1>. QED BY <1>1, <1>3, <1>4, <1>5 DEF NothingIsLostSilently

(* "An acquisition may skip what it cannot read; it may not omit it          *)
(* silently" (logical.rs): for every tree, every way the items come, every   *)
(* order of the scanner's steps and the acquisition's and whatever fails, an *)
(* acquisition that succeeds has entered every directory and file of the     *)
(* walk in the graph and joined each to the directory it was found in, has   *)
(* reported every path not walked, and has each file's bytes or a report.    *)
THEOREM NothingGoesUnsaid == LogicalSpec => []NothingIsLostSilently
<1>1. LogicalInit => LogicalInv
  BY LogicalInvInit
<1>2. LogicalInv /\ [LogicalNext]_logicalVars => LogicalInv'
  BY LogicalStep
<1>3. LogicalInv => NothingIsLostSilently
  BY DoneTellsAll
<1>. QED BY <1>1, <1>2, <1>3, PTL DEF LogicalSpec
=============================================================================

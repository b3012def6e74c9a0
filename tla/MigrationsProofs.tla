-------------------------- MODULE MigrationsProofs --------------------------
(***************************************************************************)
(* What TLAPS proves of Migrations: SchemaInv is inductive, so that the    *)
(* schema of a database is what its revision stands for, but for what is   *)
(* named, after any number of commands, refusals and crashes.              *)
(***************************************************************************)
EXTENDS SchemaBounds, FiniteSetTheorems, SequenceTheorems, TLAPS

-----------------------------------------------------------------------------
(* Induction.  The theorems of the library take the formula to prove as an *)
(* operator; these take the set of the numbers that it holds of.           *)

\* What has zero, and the successor of all it has, has every number.
LEMMA CountingUp ==
    ASSUME NEW S, 0 \in S, \A n \in Nat : n \in S => n + 1 \in S
    PROVE  Nat \subseteq S
<1> DEFINE Missed == Nat \ S
           Less == OpToRel(<, Nat)
<1> SUFFICES ASSUME Missed # {} PROVE FALSE
    OBVIOUS
<1>1. IsWellFoundedOn(Less, Nat)
    BY NatLessThanWellFounded DEF OpToRel
<1>2. \A i, j \in Nat : i < j => <<i, j>> \in Less
    BY DEF OpToRel
<1> HIDE DEF Less
<1>3. PICK m \in Missed : \A k \in Missed : <<k, m>> \notin Less
    <2>1. Missed \subseteq Nat
        OBVIOUS
    <2> QED
        BY <1>1, <2>1, WFMin
<1>4. m \in Nat /\ m # 0 /\ m \notin S
    OBVIOUS
<1>5. m - 1 \in Nat /\ m - 1 < m /\ m - 1 + 1 = m
    BY <1>4
<1>6. m - 1 \in S
    BY <1>2, <1>3, <1>4, <1>5
<1> QED
    BY <1>4, <1>5, <1>6

\* A set of numbers has a smallest one.
LEMMA SmallestNumber ==
    ASSUME NEW S \in SUBSET Nat, S # {}
    PROVE  \E m \in S : \A k \in S : m <= k
<1> SUFFICES ASSUME \A m \in S : \E k \in S : ~ m <= k PROVE FALSE
    OBVIOUS
<1> DEFINE Good == {n \in Nat : \A k \in S : n <= k}
<1>1. 0 \in Good
    OBVIOUS
<1>2. ASSUME NEW n \in Nat, n \in Good PROVE n + 1 \in Good
    <2>1. n \notin S
        BY <1>2
    <2>2. \A k \in S : k \in Nat /\ n <= k /\ k # n
        BY <1>2, <2>1
    <2> QED
        BY <2>2
<1> HIDE DEF Good
<1>3. Nat \subseteq Good
    BY <1>1, <1>2, CountingUp
<1>4. PICK m \in S : TRUE
    OBVIOUS
<1>5. m + 1 \in Good
    BY <1>3
<1> QED
    BY <1>4, <1>5 DEF Good

-----------------------------------------------------------------------------
(* The steps one after the other *)

\* If each step leads from a set of views to the next one, RunFrom leads from
\* the first to the last.
LEMMA RunFromStays ==
    ASSUME NEW steps, Len(steps) \in Nat, NEW before, NEW stage,
           before.outcome = "ok" => before.view \in stage[0],
           \A i \in 1..Len(steps) : \A v \in stage[i - 1] : Did(v, steps[i]) \in stage[i]
    PROVE  LET ran == RunFrom(before, steps)
           IN  ran.outcome = "ok" => ran.view \in stage[Len(steps)]
<1> DEFINE n == Len(steps)
           Goes(now, i) == IF now.outcome = "ok" THEN After(now, steps[i]) ELSE now
           Runs(f) == f = [i \in 0..n |->
                IF i = 0 THEN before
                ELSE CHOOSE ran \in {IF now.outcome = "ok" THEN After(now, steps[i]) ELSE now :
                                        now \in {f[i - 1]}} : TRUE]
           Upto(f, m) == f = [i \in 0..m |-> IF i = 0 THEN before ELSE Goes(f[i - 1], i)]
           run == CHOOSE f : Runs(f)
<1>1. RunFrom(before, steps) = run[n]
    BY DEF RunFrom
<1>2. \A f : Runs(f) <=> Upto(f, n)
    <2> SUFFICES ASSUME NEW f PROVE Runs(f) <=> Upto(f, n)
        OBVIOUS
    <2>1. \A i : (CHOOSE ran \in {IF now.outcome = "ok" THEN After(now, steps[i]) ELSE now :
                                        now \in {f[i - 1]}} : TRUE) = Goes(f[i - 1], i)
        <3> SUFFICES ASSUME NEW i
                   PROVE (CHOOSE ran \in {IF now.outcome = "ok" THEN After(now, steps[i]) ELSE now :
                                        now \in {f[i - 1]}} : TRUE) = Goes(f[i - 1], i)
            OBVIOUS
        <3>1. {IF now.outcome = "ok" THEN After(now, steps[i]) ELSE now : now \in {f[i - 1]}}
                = {Goes(f[i - 1], i)}
            OBVIOUS
        <3>2. \A e : (CHOOSE ran \in {e} : TRUE) = e
            OBVIOUS
        <3> HIDE DEF Goes
        <3> QED
            BY <3>1, <3>2
    <2> HIDE DEF Goes
    <2> QED
        BY <2>1
<1> HIDE DEF Runs
<1>3. \E f : Upto(f, n)
    <2> DEFINE Good == {m \in Nat : \E f : Upto(f, m)}
    <2>1. 0 \in Good
        <3>1. Upto([i \in 0..0 |-> before], 0)
            OBVIOUS
        <3> QED
            BY <3>1
    <2>2. ASSUME NEW m \in Nat, m \in Good PROVE m + 1 \in Good
        <3>1. PICK f : Upto(f, m)
            BY <2>2
        <3> DEFINE g == [i \in 0..m + 1 |-> IF i = m + 1 THEN Goes(f[m], m + 1) ELSE f[i]]
        <3> HIDE DEF Goes
        <3>2. \A i \in 0..m : g[i] = f[i]
            OBVIOUS
        <3>3. \A i \in 0..m + 1 : g[i] = IF i = 0 THEN before ELSE Goes(g[i - 1], i)
            BY <3>1, <3>2
        <3>4. Upto(g, m + 1)
            BY <3>3
        <3> HIDE DEF Upto, g
        <3> QED
            BY <3>4
    <2> HIDE DEF Good, Upto
    <2>3. n \in Good
        BY <2>1, <2>2, CountingUp
    <2> QED
        BY <2>3 DEF Good
<1>4. Upto(run, n)
    <2> HIDE DEF Upto
    <2> QED
        BY <1>2, <1>3
<1> HIDE DEF run
<1> DEFINE Good == {i \in Nat : i <= n => (run[i].outcome = "ok" => run[i].view \in stage[i])}
<1>5. 0 \in Good
    BY <1>4
<1>6. ASSUME NEW i \in Nat, i \in Good PROVE i + 1 \in Good
    <2> SUFFICES ASSUME i + 1 <= n, run[i + 1].outcome = "ok" PROVE run[i + 1].view \in stage[i + 1]
        OBVIOUS
    <2>0. i + 1 \in 1..n /\ (i + 1) - 1 = i
        OBVIOUS
    <2>1. run[i + 1] = Goes(run[i], i + 1)
        BY <1>4, <2>0
    <2>2. run[i].outcome = "ok"
        BY <2>1
    <2>3. run[i].view \in stage[i]
        BY <1>6, <2>2
    <2>4. run[i + 1].view = Did(run[i].view, steps[i + 1])
        BY <2>1, <2>2 DEF After
    <2> QED
        BY <2>0, <2>3, <2>4
<1> HIDE DEF Good
<1>7. n \in Good
    BY <1>5, <1>6, CountingUp
<1> QED
    BY <1>1, <1>7 DEF Good

\* The same of RunSteps, whatever the size of its blocks.
LEMMA RunStepsStays ==
    ASSUME NEW S, NEW steps \in Seq(S), NEW view, NEW stage, view \in stage[0],
           \A i \in 1..Len(steps) : \A v \in stage[i - 1] : Did(v, steps[i]) \in stage[i]
    PROVE  LET ran == RunSteps(view, steps)
           IN  ran.outcome = "ok" => ran.view \in stage[Len(steps)]
<1> DEFINE n == Blocks(steps)
           start == [outcome |-> "ok", view |-> view]
           Runs(f) == f = [k \in 0..n |->
                IF k = 0 THEN [outcome |-> "ok", view |-> view]
                ELSE CHOOSE ran \in {RunFrom(now, BlockOf(steps, k)) : now \in {f[k - 1]}} : TRUE]
           Upto(f, m) == f = [k \in 0..m |-> IF k = 0 THEN start ELSE RunFrom(f[k - 1], BlockOf(steps, k))]
           run == CHOOSE f : Runs(f)
<1>0. Len(steps) \in Nat /\ n \in Nat
    BY LenProperties DEF Blocks, Block
<1>1. RunSteps(view, steps) = run[n]
    BY DEF RunSteps
<1>2. \A f : Runs(f) <=> Upto(f, n)
    <2> SUFFICES ASSUME NEW f PROVE Runs(f) <=> Upto(f, n)
        OBVIOUS
    <2>1. \A k : (CHOOSE ran \in {RunFrom(now, BlockOf(steps, k)) : now \in {f[k - 1]}} : TRUE)
                = RunFrom(f[k - 1], BlockOf(steps, k))
        <3>1. \A k : {RunFrom(now, BlockOf(steps, k)) : now \in {f[k - 1]}}
                        = {RunFrom(f[k - 1], BlockOf(steps, k))}
            OBVIOUS
        <3>2. \A e : (CHOOSE ran \in {e} : TRUE) = e
            OBVIOUS
        <3> QED
            BY <3>1, <3>2
    <2> QED
        BY <2>1
<1> HIDE DEF Runs, n, start
<1>3. \E f : Upto(f, n)
    <2> DEFINE Good == {m \in Nat : \E f : Upto(f, m)}
    <2>1. 0 \in Good
        <3>1. Upto([k \in 0..0 |-> start], 0)
            OBVIOUS
        <3> QED
            BY <3>1
    <2>2. ASSUME NEW m \in Nat, m \in Good PROVE m + 1 \in Good
        <3>1. PICK f : Upto(f, m)
            BY <2>2
        <3> DEFINE g == [k \in 0..m + 1 |->
                            IF k = m + 1 THEN RunFrom(f[m], BlockOf(steps, m + 1)) ELSE f[k]]
        <3>2. \A k \in 0..m : g[k] = f[k]
            OBVIOUS
        <3>3. \A k \in 0..m + 1 : g[k] = IF k = 0 THEN start ELSE RunFrom(g[k - 1], BlockOf(steps, k))
            BY <3>1, <3>2
        <3>4. Upto(g, m + 1)
            BY <3>3
        <3> HIDE DEF Upto, g
        <3> QED
            BY <3>4
    <2> HIDE DEF Good, Upto
    <2>3. n \in Good
        BY <1>0, <2>1, <2>2, CountingUp
    <2> QED
        BY <2>3 DEF Good
<1>4. Upto(run, n)
    <2> HIDE DEF Upto
    <2> QED
        BY <1>2, <1>3
<1> HIDE DEF run
<1>9. /\ run[0] = start
      /\ \A k \in 1..n : run[k] = RunFrom(run[k - 1], BlockOf(steps, k))
    BY <1>0, <1>4
<1> HIDE DEF Upto
<1> DEFINE Done(k) == IF Block * k <= Len(steps) THEN Block * k ELSE Len(steps)
           Good == {k \in Nat : k <= n => (run[k].outcome = "ok" => run[k].view \in stage[Done(k)])}
<1>5. 0 \in Good
    BY <1>0, <1>9 DEF Block, start
<1>6. ASSUME NEW k \in Nat, k \in Good PROVE k + 1 \in Good
    <2> SUFFICES ASSUME k + 1 <= n, run[k + 1].outcome = "ok" PROVE run[k + 1].view \in stage[Done(k + 1)]
        OBVIOUS
    <2> DEFINE block == BlockOf(steps, k + 1)
               from == Block * k
               size == Done(k + 1) - from
               stages == [i \in 0..size |-> stage[from + i]]
    <2>0. k + 1 \in 1..n /\ (k + 1) - 1 = k
        OBVIOUS
    <2>1. run[k + 1] = RunFrom(run[k], block)
        BY <1>9, <2>0
    <2>2. /\ from \in Nat /\ from < Len(steps) /\ Done(k) = from
          /\ Done(k + 1) \in Nat /\ Done(k + 1) <= Len(steps) /\ size \in Nat
        BY <1>0, <2>0 DEF Block, n, Blocks
    <2>3. block = SubSeq(steps, from + 1, Done(k + 1))
        <3>1. \A i, j \in Nat : Min({i, j}) = IF i <= j THEN i ELSE j
            BY DEF Min
        <3>2. Block * (k + 1) \in Nat /\ Block * ((k + 1) - 1) = Block * k
            BY DEF Block
        <3>3. Min({Block * (k + 1), Len(steps)}) = Done(k + 1)
            BY <1>0, <3>1, <3>2
        <3>4. block = SubSeq(steps, Block * ((k + 1) - 1) + 1, Min({Block * (k + 1), Len(steps)}))
            BY DEF BlockOf
        <3> HIDE DEF block, Done
        <3> QED
            BY <3>2, <3>3, <3>4
    <2>4. Len(block) = size /\ \A i \in 1..size : block[i] = steps[from + i]
        <3> HIDE DEF Done, size, block
        <3>1. size = Done(k + 1) - from
            BY DEF size
        <3>2. from + 1 \in Int /\ Done(k + 1) \in Int /\ \A i \in from + 1..Done(k + 1) : steps[i] \in S
            BY <1>0, <2>2, ElementOfSeq
        <3> HIDE DEF from
        <3>3. /\ Len(SubSeq(steps, from + 1, Done(k + 1)))
                    = IF from + 1 <= Done(k + 1) THEN Done(k + 1) - (from + 1) + 1 ELSE 0
              /\ \A i \in 1..Done(k + 1) - (from + 1) + 1 :
                    SubSeq(steps, from + 1, Done(k + 1))[i] = steps[from + 1 + i - 1]
            BY <3>2, SubSeqProperties
        <3>4. Done(k + 1) - (from + 1) + 1 = size /\ (from + 1 <= Done(k + 1) \/ size = 0)
            BY <2>2, <3>1
        <3> QED
            BY <2>2, <2>3, <3>1, <3>3, <3>4
    <2> HIDE DEF Done, from, size, block
    <2>8. \A i \in 0..size : stages[i] = stage[from + i]
        OBVIOUS
    <2> HIDE DEF stages
    <2>5. run[k].outcome = "ok" => run[k].view \in stages[0]
        <3>1. 0 \in 0..size /\ from + 0 = from
            BY <2>2
        <3>2. stages[0] = stage[Done(k)]
            BY <2>2, <2>8, <3>1
        <3>3. k <= n
            BY <1>0
        <3>4. run[k].outcome = "ok" => run[k].view \in stage[Done(k)]
            BY <1>6, <3>3
        <3> QED
            BY <3>2, <3>4
    <2>6. ASSUME NEW i \in 1..size, NEW v \in stages[i - 1] PROVE Did(v, block[i]) \in stages[i]
        <3>1. from + i \in 1..Len(steps) /\ from + i - 1 = from + (i - 1) /\ i \in 0..size /\ i - 1 \in 0..size
            BY <1>0, <2>2 DEF size
        <3>2. stages[i - 1] = stage[from + i - 1] /\ stages[i] = stage[from + i]
            BY <2>8, <3>1
        <3>4. PICK j \in 1..Len(steps) : j = from + i
            BY <3>1
        <3>5. v \in stage[j - 1]
            <4>1. from + i - 1 = j - 1
                BY <2>2, <3>4
            <4>2. v \in stage[from + i - 1]
                BY <3>2
            <4> QED
                BY <4>1, <4>2
        <3>3. Did(v, steps[from + i]) \in stage[from + i]
            BY <3>4, <3>5
        <3> QED
            BY <2>4, <3>2, <3>3
    <2>7. run[k + 1].view \in stages[size]
        BY <2>1, <2>2, <2>4, <2>5, <2>6, RunFromStays
    <2> QED
        <3>1. size \in 0..size /\ from + size = Done(k + 1)
            BY <2>2 DEF size
        <3> QED
            BY <2>7, <2>8, <3>1
<1> HIDE DEF Good
<1>7. n \in Good
    BY <1>0, <1>5, <1>6, CountingUp
<1>8. Done(n) = Len(steps)
    BY <1>0 DEF n, Blocks, Block
<1> QED
    BY <1>1, <1>7, <1>8 DEF Good

-----------------------------------------------------------------------------
(* The schema and the heads after the first steps of a script *)

Makes(s) == s.do \in {"make", "ensure"}
Drops(s) == s.do \in {"drop", "clear"}
Takes(s, o) == Drops(s) /\ (o \in s.what \/ <<o[1], "">> \in s.what)

\* What is there after p steps was there or was made, and not dropped since.
LEMMA ObjectsAfter ==
    ASSUME NEW schema, NEW script, NEW p \in Nat, NEW o
    PROVE  o \in SchemaAfter(schema, script, p) <=>
            \/ o \in schema /\ \A k \in 1..p : ~ Takes(script[k], o)
            \/ \E i \in 1..p : /\ Makes(script[i]) /\ o \in script[i].what
                               /\ \A k \in i + 1..p : ~ Takes(script[k], o)
<1> DEFINE drops == {k \in 1..p : Drops(script[k])}
           makes == {i \in 1..p : Makes(script[i])}
           DroppedFrom(i) == UNION {script[k].what : k \in {k \in drops : k >= i}}
<1>1. SchemaAfter(schema, script, p) =
        Left(schema, DroppedFrom(1)) \union UNION {Left(script[i].what, DroppedFrom(i + 1)) : i \in makes}
    BY DEF SchemaAfter, Drops, Makes
<1>2. ASSUME NEW i \in 1..p + 1, NEW objects
      PROVE  o \in Left(objects, DroppedFrom(i)) <=> o \in objects /\ \A k \in i..p : ~ Takes(script[k], o)
    <2>1. \A x : x \in DroppedFrom(i) <=> \E k \in i..p : Drops(script[k]) /\ x \in script[k].what
        OBVIOUS
    <2> HIDE DEF DroppedFrom
    <2> QED
        BY <2>1 DEF Left, Takes
<1>3. o \in Left(schema, DroppedFrom(1)) <=> o \in schema /\ \A k \in 1..p : ~ Takes(script[k], o)
    BY <1>2
<1>4. ASSUME NEW i \in makes
      PROVE  o \in Left(script[i].what, DroppedFrom(i + 1)) <=>
                o \in script[i].what /\ \A k \in i + 1..p : ~ Takes(script[k], o)
    <2>1. i + 1 \in 1..p + 1
        OBVIOUS
    <2> QED
        BY <1>2, <2>1
<1>5. o \in SchemaAfter(schema, script, p) <=>
        \/ o \in Left(schema, DroppedFrom(1))
        \/ \E i \in makes : o \in Left(script[i].what, DroppedFrom(i + 1))
    <2> HIDE DEF DroppedFrom, makes
    <2> QED
        BY <1>1
<1>6. \A i \in makes : i \in 1..p /\ Makes(script[i])
    OBVIOUS
<1>7. \A i \in 1..p : Makes(script[i]) => i \in makes
    OBVIOUS
<1> HIDE DEF DroppedFrom, makes
<1> QED
    BY <1>3, <1>4, <1>5, <1>6, <1>7

\* One more step.
LEMMA SchemaAfterStep ==
    ASSUME NEW schema, NEW script, NEW p \in Nat
    PROVE  LET before == SchemaAfter(schema, script, p)
               s == script[p + 1]
           IN  SchemaAfter(schema, script, p + 1) =
                IF Makes(s) THEN before \union s.what
                ELSE {o \in before : ~ Takes(s, o)}
<1> DEFINE before == SchemaAfter(schema, script, p)
           after == SchemaAfter(schema, script, p + 1)
           s == script[p + 1]
           Kept(o, i, n) == \A k \in i..n : ~ Takes(script[k], o)
<1>0. p + 1 \in Nat /\ p + 1 \in 1..p + 1 /\ \A i \in 1..p + 1 : i \in 1..p \/ i = p + 1
    OBVIOUS
<1>1. ASSUME NEW o
      PROVE  /\ o \in before <=>
                  \/ o \in schema /\ Kept(o, 1, p)
                  \/ \E i \in 1..p : Makes(script[i]) /\ o \in script[i].what /\ Kept(o, i + 1, p)
             /\ o \in after <=>
                  \/ o \in schema /\ Kept(o, 1, p + 1)
                  \/ \E i \in 1..p + 1 : Makes(script[i]) /\ o \in script[i].what /\ Kept(o, i + 1, p + 1)
    BY <1>0, ObjectsAfter
<1>2. ASSUME NEW o, NEW i \in 1..p + 1
      PROVE  Kept(o, i, p + 1) <=> Kept(o, i, p) /\ ~ Takes(s, o)
    OBVIOUS
<1>3. \A o : Kept(o, p + 2, p + 1)
    OBVIOUS
<1> HIDE DEF before, after, Kept
<1>4. ASSUME NEW o
      PROVE  o \in after <=> (o \in before /\ ~ Takes(s, o)) \/ (Makes(s) /\ o \in s.what)
    <2>1. o \in schema /\ Kept(o, 1, p + 1) <=> o \in schema /\ Kept(o, 1, p) /\ ~ Takes(s, o)
        BY <1>2
    <2>2. \A i \in 1..p : Kept(o, i + 1, p + 1) <=> Kept(o, i + 1, p) /\ ~ Takes(s, o)
        <3>1. \A i \in 1..p : i + 1 \in 1..p + 1
            OBVIOUS
        <3> QED
            BY <1>2, <3>1
    <2>3. p + 1 + 1 = p + 2
        OBVIOUS
    <2>4. (\E i \in 1..p + 1 : Makes(script[i]) /\ o \in script[i].what /\ Kept(o, i + 1, p + 1)) <=>
            \/ \E i \in 1..p : Makes(script[i]) /\ o \in script[i].what /\ Kept(o, i + 1, p + 1)
            \/ Makes(s) /\ o \in s.what
        BY <1>0, <1>3, <2>3
    <2> QED
        BY <1>1, <2>1, <2>2, <2>4
<1>5. Makes(s) => \A o : ~ Takes(s, o)
    BY DEF Makes, Drops, Takes
<1> HIDE DEF s
<1>6. after = IF Makes(s) THEN before \union s.what ELSE {o \in before : ~ Takes(s, o)}
    BY <1>4, <1>5
<1> QED
    BY <1>6 DEF before, after, s

LEMMA SchemaAtFirst == ASSUME NEW schema, NEW script PROVE SchemaAfter(schema, script, 0) = schema
BY ObjectsAfter

\* The heads before the first step, and after one that writes no revision.
LEMMA HeadsAtFirst ==
    ASSUME NEW heads \in HeadSets, NEW script
    PROVE  HeadsAfter(heads, script, 0) = heads
<1>1. \A do : Named(script, 0, do) = {}
    BY DEF Named
<1> QED
    BY <1>1, HeadsAreTips DEF HeadsAfter

LEMMA HeadsAfterStep ==
    ASSUME NEW heads, NEW script, NEW p \in Nat, script[p + 1].do \notin {"stamp", "unstamp"}
    PROVE  HeadsAfter(heads, script, p + 1) = HeadsAfter(heads, script, p)
<1>1. ASSUME NEW do \in {"stamp", "unstamp"} PROVE Named(script, p + 1, do) = Named(script, p, do)
    <2>1. {i \in 1..p + 1 : script[i].do = do} = {i \in 1..p : script[i].do = do}
        OBVIOUS
    <2> QED
        BY <2>1 DEF Named
<1> QED
    BY <1>1 DEF HeadsAfter

\* The views that a command can have after p steps, from a database in bounds.
ViewsAfter(heads, script, rows, p) ==
    {view \in [schema : SUBSET SchemaAfter(Most(heads), script, p), rows : SUBSET rows,
               heads : {HeadsAfter(heads, script, p)}] :
        SchemaAfter(Least(heads), script, p) \subseteq view.schema}

\* What a step does grows with the schema, so that it stays between the bounds.
LEMMA DidStays ==
    ASSUME NEW heads, NEW script, NEW rows, IsAScript(script), StampsInOrder(heads, script),
           NEW p \in Nat, p + 1 \in 1..Len(script), NEW view \in ViewsAfter(heads, script, rows, p)
    PROVE  Did(view, script[p + 1]) \in ViewsAfter(heads, script, rows, p + 1)
<1> DEFINE s == script[p + 1]
           low == SchemaAfter(Least(heads), script, p)
           high == SchemaAfter(Most(heads), script, p)
           after == Did(view, s)
<1>1. /\ view \in [schema : SUBSET high, rows : SUBSET rows, heads : {HeadsAfter(heads, script, p)}]
      /\ low \subseteq view.schema
    BY DEF ViewsAfter
<1>2. s.do \in Kinds
    BY DEF IsAScript
<1>3. after \in [schema : SUBSET (IF Makes(s) THEN high \union s.what ELSE {o \in high : ~ Takes(s, o)}),
                 rows : SUBSET rows, heads : {HeadsAfter(heads, script, p + 1)}]
    <2>1. CASE Makes(s)
        <3>1. HeadsAfter(heads, script, p + 1) = HeadsAfter(heads, script, p)
            BY <2>1, HeadsAfterStep DEF Makes
        <3>2. after = [view EXCEPT !.schema = @ \union s.what]
            BY <2>1 DEF Makes, Did
        <3> HIDE DEF after, s, high
        <3> QED
            BY <1>1, <2>1, <3>1, <3>2
    <2>2. CASE Drops(s)
        <3>1. HeadsAfter(heads, script, p + 1) = HeadsAfter(heads, script, p)
            BY <2>2, HeadsAfterStep DEF Drops
        <3>2. PICK kept \in SUBSET view.rows :
                after = [view EXCEPT !.schema = {o \in @ : o \notin s.what /\ <<o[1], "">> \notin s.what},
                                     !.rows = kept]
            BY <2>2 DEF Drops, Did
        <3>3. after.schema = {o \in view.schema : ~ Takes(s, o)}
            BY <1>1, <2>2, <3>2 DEF Takes
        <3>4. /\ after = [schema |-> after.schema, rows |-> kept, heads |-> view.heads]
            BY <1>1, <3>2
        <3>5. ~ Makes(s)
            BY <2>2 DEF Drops, Makes
        <3> HIDE DEF after, s, high
        <3> QED
            BY <1>1, <3>1, <3>3, <3>4, <3>5
    <2>3. CASE s.do \in {"stamp", "unstamp"}
        <3> DEFINE blank == [schema |-> {}, rows |-> {}, heads |-> HeadsAfter(heads, script, p)]
        <3>1. HeadsAfter(heads, script, p + 1) = Did(blank, s).heads
            BY <2>3 DEF StampsInOrder
        <3>2. after = [view EXCEPT !.heads = Did(blank, s).heads]
            BY <1>1, <2>3 DEF Did
        <3>3. ~ Makes(s) /\ \A o : ~ Takes(s, o)
            BY <2>3 DEF Makes, Takes, Drops
        <3> HIDE DEF after, s, high, blank
        <3> QED
            BY <1>1, <3>1, <3>2, <3>3
    <2>4. CASE s.do \in {"check", "commit", "own"}
        <3>1. HeadsAfter(heads, script, p + 1) = HeadsAfter(heads, script, p)
            BY <2>4, HeadsAfterStep
        <3>2. after = view
            BY <2>4 DEF Did
        <3>3. ~ Makes(s) /\ \A o : ~ Takes(s, o)
            BY <2>4 DEF Makes, Takes, Drops
        <3> HIDE DEF after, s, high
        <3> QED
            BY <1>1, <3>1, <3>2, <3>3
    <2> QED
        BY <1>2, <2>1, <2>2, <2>3, <2>4 DEF Kinds, Makes, Drops
<1>4. (IF Makes(s) THEN low \union s.what ELSE {o \in low : ~ Takes(s, o)}) \subseteq after.schema
    <2>1. CASE Makes(s)
        <3>1. after.schema = view.schema \union s.what
            BY <1>1, <2>1 DEF Makes, Did
        <3> HIDE DEF after, s, low
        <3> QED
            BY <1>1, <2>1, <3>1
    <2>2. CASE Drops(s)
        <3>1. after.schema = {o \in view.schema : ~ Takes(s, o)}
            BY <1>1, <2>2 DEF Drops, Did, Takes
        <3>2. ~ Makes(s)
            BY <2>2 DEF Drops, Makes
        <3> HIDE DEF after, s, low
        <3> QED
            BY <1>1, <3>1, <3>2
    <2>3. CASE s.do \in {"stamp", "unstamp", "check", "commit", "own"}
        <3>1. after.schema = view.schema
            BY <1>1, <2>3 DEF Did
        <3>2. ~ Makes(s)
            BY <2>3 DEF Makes
        <3> HIDE DEF after, s, low
        <3> QED
            BY <1>1, <3>1, <3>2
    <2> QED
        BY <1>2, <2>1, <2>2, <2>3 DEF Kinds, Makes, Drops
<1>5. /\ SchemaAfter(Most(heads), script, p + 1) =
            IF Makes(s) THEN high \union s.what ELSE {o \in high : ~ Takes(s, o)}
      /\ SchemaAfter(Least(heads), script, p + 1) =
            IF Makes(s) THEN low \union s.what ELSE {o \in low : ~ Takes(s, o)}
    BY SchemaAfterStep
<1> HIDE DEF after, s, low, high
<1> QED
    BY <1>3, <1>4, <1>5 DEF ViewsAfter, after, s

-----------------------------------------------------------------------------
(* Commands *)

\* Up to where a command goes before the next commit.
LEMMA SegmentEndFacts ==
    ASSUME NEW c, NEW script, Len(script) \in Nat, c.at \in 1..Len(script)
    PROVE  LET last == SegmentEnd(c, script)
           IN  /\ last \in c.at..Len(script)
               /\ last = Len(script) \/ c.own \/ script[last].do \in {"commit", "own"}
<1> DEFINE ends == {i \in c.at..Len(script) : i = Len(script) \/ c.own \/ script[i].do \in {"commit", "own"}}
<1>1. SegmentEnd(c, script) = Min(ends)
    BY DEF SegmentEnd
<1>2. Len(script) \in ends /\ ends \in SUBSET Nat
    OBVIOUS
<1> HIDE DEF ends
<1>3. Min(ends) \in ends
    BY <1>2, SmallestNumber DEF Min
<1> QED
    BY <1>1, <1>3 DEF ends

LEMMA ScriptIsASeq ==
    ASSUME NEW script, IsAScript(script)
    PROVE  /\ Len(script) \in Nat \ {0}
           /\ script \in Seq({script[i] : i \in 1..Len(script)})
<1>1. Len(script) \in Nat \ {0} /\ script = [i \in 1..Len(script) |-> script[i]]
    BY DEF IsAScript
<1> DEFINE S == {script[i] : i \in 1..Len(script)}
<1>2. script \in [1..Len(script) -> S]
    <2>1. [i \in 1..Len(script) |-> script[i]] \in [1..Len(script) -> S]
        OBVIOUS
    <2> QED
        BY <1>1, <2>1
<1> HIDE DEF S
<1>3. script \in UNION {[1..n -> S] : n \in Nat}
    BY <1>1, <1>2
<1>4. script \in Seq(S)
    BY <1>3, SeqDef
<1> QED
    BY <1>1, <1>4 DEF S

LEMMA CommandFacts ==
    ASSUME NEW heads \in HeadSets, NEW way, NEW plan, <<way, plan>> \in CommandsFrom[heads]
    PROVE  /\ way \in {"up", "down"} /\ plan # <<>>
           /\ IsAScript(Script(way, plan)) /\ StampsInOrder(heads, Script(way, plan))
           /\ CommitsInBounds(heads, Script(way, plan))
<1>1. way \in {"up", "down"} /\ plan # <<>>
    <2> DEFINE ups == {Missing(order, Applied(heads)) : order \in {Trunk} \union Orders}
               downs == {x \in heads : x \notin Applied(heads \ {x})}
    <2>1. CommandsFrom[heads] = ({"up"} \X (ups \ {<<>>})) \union ({"down"} \X {<<r>> : r \in downs})
        BY DEF CommandsFrom
    <2> HIDE DEF ups, downs
    <2>2. \A r : <<r>> # <<>>
        OBVIOUS
    <2>3. way \in {"up", "down"} /\ (plan \in ups \ {<<>>} \/ plan \in {<<r>> : r \in downs})
        BY <2>1
    <2> QED
        BY <2>2, <2>3
<1>2. \A c \in CommandsFrom[heads] :
        /\ IsAScript(Script(c[1], c[2])) /\ StampsInOrder(heads, Script(c[1], c[2]))
        /\ CommitsInBounds(heads, Script(c[1], c[2]))
    BY EveryCommandStaysInBounds
<1> DEFINE c == <<way, plan>>
<1>3. c[1] = way /\ c[2] = plan /\ c \in CommandsFrom[heads]
    OBVIOUS
<1> HIDE DEF c
<1> QED
    BY <1>1, <1>2, <1>3

LEMMA IdleCommand == ASSUME SchemaInv PROVE ~ Running <=> command = NoCommand
<1>1. NoCommand.way = "none"
    BY DEF NoCommand
<1>2. UnderWay => command.way \in {"up", "down"}
    BY CommandFacts DEF UnderWay
<1> QED
    BY <1>1, <1>2 DEF SchemaInv, Running

LEMMA SchemaInit == InitMigrations => SchemaInv
<1> SUFFICES ASSUME InitMigrations PROVE SchemaInv
    OBVIOUS
<1>1. PICK h \in {{}} \union {{r} : r \in ToSet(Trunk)} :
        db = [schema |-> Expected(h) \union (IF h = {} THEN {} ELSE {VersionTable}), rows |-> {}, heads |-> h]
    BY DEF InitMigrations
<1>2. db.heads = h /\ db.rows = {} /\ db.schema = Expected(h) \union (IF h = {} THEN {} ELSE {VersionTable})
    BY <1>1
<1>3. db = [schema |-> db.schema, rows |-> db.rows, heads |-> db.heads]
    BY <1>1
<1>4. VersionTable \in Remains /\ h \in HeadSets
    BY DEF Remains, HeadSets
<1>5. InBounds(db)
    BY <1>2, <1>4 DEF InBounds, Least, Most
<1>6. IsFiniteSet(db.rows) /\ Cardinality(db.rows) = 0
    BY <1>2, FS_EmptySet
<1>7. db.rows \subseteq RowKinds /\ Cardinality(db.rows) <= MaxRows
    BY <1>2, <1>6, MigrationBounds
<1>8. command = NoCommand /\ aborted = FALSE /\ issued = 0
    BY DEF InitMigrations
<1>9. issued \in 0..MaxCommands
    BY <1>8, MigrationBounds
<1> QED
    BY <1>3, <1>5, <1>6, <1>7, <1>8, <1>9 DEF SchemaInv

\* The steps that leave the schema, or only widen alembic_version.
LEMMA RowsStay ==
    ASSUME SchemaInv, ~ Running, NEW rows, db' = [db EXCEPT !.rows = rows],
           IsFiniteSet(rows), rows \subseteq RowKinds, Cardinality(rows) <= MaxRows,
           UNCHANGED <<command, issued, aborted>>
    PROVE  SchemaInv'
<1>1. /\ db'.schema = db.schema /\ db'.heads = db.heads /\ db'.rows = rows
      /\ db' = [schema |-> db'.schema, rows |-> db'.rows, heads |-> db'.heads]
    BY DEF SchemaInv
<1>2. InBounds(db)'
    BY <1>1 DEF SchemaInv, InBounds
<1>3. command' = NoCommand
    BY IdleCommand
<1> QED
    BY <1>1, <1>2, <1>3 DEF SchemaInv

LEMMA BeginStays ==
    ASSUME SchemaInv, NEW way, NEW plan, Begin(way, plan), <<way, plan>> \in CommandsFrom[db.heads]
    PROVE  SchemaInv'
<1> DEFINE heads == db.heads
           script == Script(way, plan)
<1>0. heads \in HeadSets
    BY DEF SchemaInv, InBounds
<1>1. IsAScript(script) /\ Len(script) \in Nat \ {0}
    BY <1>0, CommandFacts, ScriptIsASeq
<1>2. /\ db'.heads = heads /\ db'.rows = db.rows
      /\ db'.schema \in {db.schema, db.schema \union {Widened}}
      /\ db' = [schema |-> db'.schema, rows |-> db'.rows, heads |-> db'.heads]
    <2>1. db' = [db EXCEPT !.schema = @ \union (IF VersionTable \in @ THEN {Widened} ELSE {})]
        BY DEF Begin
    <2>2. db = [schema |-> db.schema, rows |-> db.rows, heads |-> db.heads]
        BY DEF SchemaInv
    <2>3. db' = [schema |-> db.schema \union (IF VersionTable \in db.schema THEN {Widened} ELSE {}),
                 rows |-> db.rows, heads |-> db.heads]
        BY <2>1, <2>2
    <2> QED
        BY <2>3
<1>3. Widened \in Most(heads)
    BY DEF Most, Remains
<1>4. InBounds(db)'
    BY <1>2, <1>3 DEF SchemaInv, InBounds
<1>5. Reached(heads, script, 0, db')
    BY <1>0, <1>2, <1>4, SchemaAtFirst, HeadsAtFirst DEF Reached, InBounds
<1>6. /\ command'.way = way /\ command'.plan = plan /\ command'.at = 1 /\ command'.own = FALSE
      /\ command' = [way |-> way, plan |-> plan, at |-> 1, own |-> FALSE]
    BY DEF Begin
<1>7. UnderWay'
    <2> HIDE DEF heads
    <2>1. 1 \in 1..Len(script) /\ 1 - 1 = 0
        BY <1>1
    <2>2. Reached(heads, Script(command'.way, command'.plan), command'.at - 1, db')
        BY <1>5, <1>6, <2>1
    <2>3. <<command'.way, command'.plan>> \in CommandsFrom[heads]
        BY <1>6 DEF heads
    <2> QED
        BY <1>0, <1>6, <2>1, <2>2, <2>3 DEF UnderWay
<1>8. issued' \in 0..MaxCommands /\ aborted' = FALSE
    BY MigrationBounds DEF Begin, SchemaInv
<1> QED
    BY <1>2, <1>4, <1>7, <1>8 DEF SchemaInv

\* The steps up to a commit, from where the command was to where it is.
LEMMA WorkStays == ASSUME SchemaInv, Work PROVE SchemaInv'
<1> DEFINE script == Script(command.way, command.plan)
           last == SegmentEnd(command, script)
           at == command.at
           steps == SubSeq(script, at, last)
           ran == RunSteps(db, steps)
<1>1. PICK heads \in HeadSets :
        /\ <<command.way, command.plan>> \in CommandsFrom[heads]
        /\ command = [way |-> command.way, plan |-> command.plan, at |-> at, own |-> command.own]
        /\ at \in 1..Len(script)
        /\ command.own \in BOOLEAN
        /\ command.own => \E i \in 1..at - 1 : script[i].do = "own"
        /\ Reached(heads, script, at - 1, db)
    BY IdleCommand DEF Work, SchemaInv, UnderWay
<1>2. IsAScript(script) /\ StampsInOrder(heads, script) /\ CommitsInBounds(heads, script)
    BY <1>1, CommandFacts
<1>3. Len(script) \in Nat \ {0} /\ script \in Seq({script[i] : i \in 1..Len(script)})
    BY <1>2, ScriptIsASeq
<1>4. last \in at..Len(script) /\ (last = Len(script) \/ command.own \/ script[last].do \in {"commit", "own"})
    BY <1>1, <1>3, SegmentEndFacts
<1>5. \/ /\ UNCHANGED <<db, issued>> /\ command' = NoCommand
         /\ aborted' \in BOOLEAN
      \/ /\ ran.outcome = "ok" /\ db' = ran.view /\ UNCHANGED <<issued, aborted>>
         /\ command' = IF last = Len(script) THEN NoCommand
                       ELSE [command EXCEPT !.at = last + 1, !.own = @ \/ script[last].do = "own"]
    BY DEF Work
<1>6. CASE UNCHANGED <<db, issued>> /\ command' = NoCommand /\ aborted' \in BOOLEAN
    BY <1>6 DEF SchemaInv, InBounds
<1>7. CASE /\ ran.outcome = "ok" /\ db' = ran.view /\ UNCHANGED <<issued, aborted>>
           /\ command' = IF last = Len(script) THEN NoCommand
                         ELSE [command EXCEPT !.at = last + 1, !.own = @ \/ script[last].do = "own"]
    <2> DEFINE S == {script[i] : i \in 1..Len(script)}
               size == last - at + 1
               stage == [i \in 0..size |-> ViewsAfter(heads, script, db.rows, at - 1 + i)]
    <2> HIDE DEF script, last, at
    <2>1. at \in Nat /\ at >= 1 /\ last \in Nat /\ at <= last /\ last <= Len(script) /\ size \in Nat /\ Len(script) \in Nat
        BY <1>1, <1>3, <1>4
    <2>2. steps \in Seq(S) /\ Len(steps) = size /\ \A i \in 1..size : steps[i] = script[at - 1 + i]
        <3>1. \A i \in at..last : script[i] \in S
            BY <2>1
        <3>2. at \in Int /\ last \in Int
            BY <2>1
        <3> HIDE DEF S
        <3>3. /\ SubSeq(script, at, last) \in Seq(S)
              /\ Len(SubSeq(script, at, last)) = IF at <= last THEN last - at + 1 ELSE 0
              /\ \A i \in 1..last - at + 1 : SubSeq(script, at, last)[i] = script[at + i - 1]
            BY <3>1, <3>2, SubSeqProperties
        <3>4. \A i \in 1..size : at + i - 1 = at - 1 + i
            BY <2>1
        <3> QED
            BY <2>1, <3>3, <3>4
    <2> HIDE DEF S, steps, size
    <2>3. db \in stage[0]
        <3>1. 0 \in 0..size /\ at - 1 + 0 = at - 1
            BY <2>1
        <3>2. db \in ViewsAfter(heads, script, db.rows, at - 1)
            BY <1>1 DEF Reached, ViewsAfter, SchemaInv
        <3> QED
            BY <3>1, <3>2
    <2>4. ASSUME NEW i \in 1..Len(steps), NEW view \in stage[i - 1] PROVE Did(view, steps[i]) \in stage[i]
        <3> DEFINE p == at - 1 + (i - 1)
        <3>1. /\ i \in 0..size /\ i - 1 \in 0..size /\ i \in 1..size
              /\ p \in Nat /\ p + 1 = at - 1 + i /\ p + 1 \in 1..Len(script)
            BY <2>1, <2>2 DEF size
        <3>2. /\ stage[i - 1] = ViewsAfter(heads, script, db.rows, p)
              /\ stage[i] = ViewsAfter(heads, script, db.rows, at - 1 + i)
            BY <3>1
        <3>3. steps[i] = script[p + 1] /\ stage[i] = ViewsAfter(heads, script, db.rows, p + 1)
            BY <2>2, <3>1, <3>2
        <3> HIDE DEF p, stage
        <3> QED
            BY <1>2, <3>1, <3>2, <3>3, DidStays
    <2> HIDE DEF stage
    <2>5. ran.view \in stage[size]
        BY <1>7, <2>2, <2>3, <2>4, RunStepsStays
    <2>6. db' \in ViewsAfter(heads, script, db.rows, last)
        <3>1. size \in 0..size /\ at - 1 + size = last
            BY <2>1 DEF size
        <3> QED
            BY <1>7, <2>5, <3>1 DEF stage
    <2>7. /\ db' = [schema |-> db'.schema, rows |-> db'.rows, heads |-> db'.heads]
          /\ db'.rows \subseteq db.rows
          /\ Reached(heads, script, last, db')
        BY <2>6 DEF ViewsAfter, Reached
    <2>8. last \in 1..Len(script) /\ MayCommit(script, last)
        <3>1. last \in 1..Len(script) /\ \A i \in 1..at - 1 : i \in 1..last
            BY <2>1
        <3> QED
            BY <1>1, <1>4, <3>1 DEF MayCommit
    <2>9. InBounds(db')
        <3> DEFINE next == HeadsAfter(heads, script, last)
        <3>1. /\ next \in HeadSets
              /\ Least(next) \subseteq SchemaAfter(Least(heads), script, last)
              /\ SchemaAfter(Most(heads), script, last) \subseteq Most(next)
            BY <1>2, <2>8 DEF CommitsInBounds
        <3> QED
            BY <2>7, <3>1 DEF Reached, InBounds
    <2>10. IsFiniteSet(db'.rows) /\ db'.rows \subseteq RowKinds /\ Cardinality(db'.rows) <= MaxRows
        <3>1. IsFiniteSet(db.rows) /\ db.rows \subseteq RowKinds /\ Cardinality(db.rows) <= MaxRows
            BY DEF SchemaInv
        <3>2. /\ IsFiniteSet(db'.rows) /\ Cardinality(db'.rows) <= Cardinality(db.rows)
              /\ Cardinality(db.rows) \in Nat /\ Cardinality(db'.rows) \in Nat
            BY <2>7, <3>1, FS_Subset, FS_CardinalityType
        <3> QED
            BY <2>7, <3>1, <3>2, MigrationBounds
    <2>11. command' = NoCommand \/ UnderWay'
        <3> SUFFICES ASSUME last # Len(script) PROVE UnderWay'
            BY <1>7
        <3>1. /\ command'.way = command.way /\ command'.plan = command.plan /\ command'.at = last + 1
              /\ command'.own \in BOOLEAN
              /\ command'.own => command.own \/ script[last].do = "own"
              /\ command' = [way |-> command'.way, plan |-> command'.plan, at |-> command'.at,
                             own |-> command'.own]
            BY <1>1, <1>7 DEF at
        <3>2. last + 1 \in 1..Len(script) /\ last + 1 - 1 = last /\ last \in 1..last
            BY <2>1
        <3>3. command'.own => \E i \in 1..last : script[i].do = "own"
            <4>1. \A i \in 1..at - 1 : i \in 1..last
                BY <2>1
            <4> QED
                BY <1>1, <3>1, <3>2, <4>1
        <3>4. Script(command'.way, command'.plan) = script
            BY <3>1 DEF script
        <3>5. Reached(heads, Script(command'.way, command'.plan), command'.at - 1, db')
            BY <2>7, <3>1, <3>2, <3>4
        <3> QED
            BY <1>1, <3>1, <3>2, <3>3, <3>4, <3>5 DEF UnderWay
    <2> QED
        BY <1>7, <2>7, <2>9, <2>10, <2>11 DEF SchemaInv
<1> QED
    BY <1>5, <1>6, <1>7

LEMMA SchemaStep == SchemaInv /\ [NextMigrations]_schemaVars => SchemaInv'
<1> SUFFICES ASSUME SchemaInv, [NextMigrations]_schemaVars PROVE SchemaInv'
    OBVIOUS
<1>1. ASSUME NEW row \in RowKinds, Appears(row) PROVE SchemaInv'
    <2> DEFINE rows == db.rows \union {row}
    <2>1. IsFiniteSet(db.rows) /\ db.rows \subseteq RowKinds /\ row \notin db.rows
          /\ Cardinality(db.rows) < MaxRows
        BY <1>1 DEF SchemaInv, Appears
    <2>2. IsFiniteSet(rows) /\ Cardinality(rows) = Cardinality(db.rows) + 1
        BY <2>1, FS_AddElement
    <2>3. Cardinality(rows) <= MaxRows
        BY <2>1, <2>2, FS_CardinalityType, MigrationBounds
    <2>4. db' = [db EXCEPT !.rows = rows] /\ ~ Running /\ UNCHANGED <<command, issued, aborted>>
        BY <1>1 DEF Appears
    <2>5. rows \subseteq RowKinds
        BY <2>1
    <2> HIDE DEF rows
    <2> QED
        BY <2>2, <2>3, <2>4, <2>5, RowsStay
<1>2. ASSUME NEW row \in RowKinds, Cleaned(row) PROVE SchemaInv'
    <2> DEFINE rows == db.rows \ {row}
    <2>1. IsFiniteSet(db.rows) /\ db.rows \subseteq RowKinds /\ Cardinality(db.rows) <= MaxRows
        BY DEF SchemaInv
    <2>2. IsFiniteSet(rows) /\ Cardinality(rows) <= Cardinality(db.rows)
        BY <2>1, FS_Subset
    <2>3. Cardinality(rows) <= MaxRows
        BY <2>1, <2>2, FS_CardinalityType, MigrationBounds
    <2>4. db' = [db EXCEPT !.rows = rows] /\ ~ Running /\ UNCHANGED <<command, issued, aborted>>
        BY <1>2 DEF Cleaned
    <2>5. rows \subseteq RowKinds
        BY <2>1
    <2> HIDE DEF rows
    <2> QED
        BY <2>2, <2>3, <2>4, <2>5, RowsStay
<1>3. CASE Upgrade
    <2>1. PICK order \in {Trunk} \union Orders : Begin("up", Missing(order, Applied(db.heads)))
        BY <1>3 DEF Upgrade
    <2>2. Missing(order, Applied(db.heads)) # <<>> /\ db.heads \in HeadSets
        BY <2>1 DEF Begin, SchemaInv, InBounds
    <2>3. <<"up", Missing(order, Applied(db.heads))>> \in CommandsFrom[db.heads]
        BY <2>2 DEF CommandsFrom
    <2> QED
        BY <2>1, <2>3, BeginStays
<1>4. CASE Downgrade
    <2>1. PICK r \in db.heads : r \notin Applied(db.heads \ {r}) /\ Begin("down", <<r>>)
        BY <1>4 DEF Downgrade
    <2>2. db.heads \in HeadSets
        BY DEF SchemaInv, InBounds
    <2>3. <<"down", <<r>>>> \in CommandsFrom[db.heads]
        BY <2>1, <2>2 DEF CommandsFrom
    <2> QED
        BY <2>1, <2>3, BeginStays
<1>5. CASE Crash
    BY <1>5 DEF Crash, SchemaInv, InBounds
<1>6. CASE UNCHANGED schemaVars
    BY <1>6 DEF schemaVars, SchemaInv, InBounds, UnderWay, Reached
<1> QED
    BY <1>1, <1>2, <1>3, <1>4, <1>5, <1>6, WorkStays DEF NextMigrations

\* Whatever is committed, at any moment of any command, lies between the least
\* and the greatest schema of the revisions that alembic_version holds; and a
\* command that runs has done no more than its first steps.
THEOREM SchemaStaysInBounds == SpecMigrations => []SchemaInv
<1> QED
    BY SchemaInit, SchemaStep, PTL DEF SpecMigrations

\* Whatever way the database came to its revision, through commands that were
\* refused, that crashed between two commits or that went back, everything that
\* the revision stands for is in its schema.
THEOREM VersionsAreBacked == SpecMigrations => []VersionIsBacked
<1>1. SchemaInv => VersionIsBacked
    BY DEF SchemaInv, InBounds, Least, VersionIsBacked
<1> QED
    BY <1>1, SchemaStaysInBounds, PTL

\* Nothing else is, but for the enum values, the types and the objects committed
\* before their revision that Remains names.
THEOREM LittleIsLeftBehind == SpecMigrations => []NothingLeftBehind
<1>1. SchemaInv => NothingLeftBehind
    BY DEF SchemaInv, InBounds, Most, NothingLeftBehind
<1> QED
    BY <1>1, SchemaStaysInBounds, PTL

\* A database holds the heads of revisions and objects that they make, and no
\* more rows of a kind that a revision refuses than the model allows.
THEOREM MigrationsTyped == SpecMigrations => []MigrationsTypeOK
<1>1. SchemaInv => MigrationsTypeOK
    <2> SUFFICES ASSUME SchemaInv PROVE MigrationsTypeOK
        OBVIOUS
    <2>1. Running => command.way \in {"up", "down"} /\ command.plan # <<>> /\ command.at > 0
        BY IdleCommand, CommandFacts, ScriptIsASeq DEF SchemaInv, UnderWay
    <2>2. db.heads \subseteq Revisions /\ db.schema \subseteq Objects \union {VersionTable, Widened}
        BY RevisionsMakeObjects DEF SchemaInv, InBounds, Most
    <2> QED
        BY <2>1, <2>2 DEF SchemaInv, MigrationsTypeOK
<1> QED
    BY <1>1, SchemaStaysInBounds, PTL
=============================================================================

---------------------------- MODULE SchemaBounds ----------------------------
(***************************************************************************)
(* Between which schemas a database stays, whatever commands, failures and *)
(* crashes it goes through: the inductive invariant of Migrations.         *)
(*                                                                         *)
(* What the steps of a command do to a schema grows with the schema, so    *)
(* that it is enough to follow the least and the greatest one of each      *)
(* revision through every command.  What they become depends on nothing    *)
(* but the tables of Revisions: the facts assumed here have no variable    *)
(* and no parameter, and TLC computes them.                                *)
(***************************************************************************)
EXTENDS Migrations

\* The heads that alembic_version can hold.
HeadSets ==
    {{}, {Orphan}} \union {{r} : r \in ToSet(Trunk)}
        \union {{r, Orphan} : r \in ToSet(SubSeq(Trunk, Place(Fork) + 1, Len(Trunk)))}

\* What has to be in the schema, and what may be.
Least(heads) == Expected(heads) \ {d[2] : d \in {x \in Dropped : x[1] \notin Applied(heads)}}
Most(heads) == Expected(heads) \union Remains
InBounds(view) ==
    /\ view.heads \in HeadSets
    /\ Least(view.heads) \subseteq view.schema
    /\ view.schema \subseteq Most(view.heads)

\* The commands that can begin at these heads.
CommandsFrom[heads \in HeadSets] ==
    ({"up"} \X ({Missing(order, Applied(heads)) : order \in {Trunk} \union Orders} \ {<<>>}))
        \union ({"down"} \X {<<r>> : r \in {x \in heads : x \notin Applied(heads \ {x})}})

-----------------------------------------------------------------------------
(* The first p steps of a script *)

\* Every object that was there or that a step made, unless a later step drops it
\* or its container.
Left(objects, gone) == {o \in objects : o \notin gone /\ <<o[1], "">> \notin gone}
SchemaAfter(schema, script, p) ==
    LET drops == {k \in 1..p : script[k].do \in {"drop", "clear"}}
        DroppedFrom(i) == UNION {script[k].what : k \in {k \in drops : k >= i}}
        makes == {i \in 1..p : script[i].do \in {"make", "ensure"}}
    IN  Left(schema, DroppedFrom(1)) \union UNION {Left(script[i].what, DroppedFrom(i + 1)) : i \in makes}

\* The revisions applied that no other one comes after.
Named(script, p, do) == UNION {script[i].what : i \in {i \in 1..p : script[i].do = do}}
HeadsAfter(heads, script, p) ==
    LET applied == (Applied(heads) \union Named(script, p, "stamp")) \ Named(script, p, "unstamp")
    IN  applied \ Above(applied)

\* What was done up to here can be committed.
MayCommit(script, p) ==
    \/ p = Len(script)
    \/ script[p].do = "commit"
    \/ \E i \in 1..p : script[i].do = "own"

-----------------------------------------------------------------------------
(* What TLC computes of the revisions *)

Kinds == {"make", "ensure", "drop", "clear", "check", "commit", "own", "stamp", "unstamp"}

IsAScript(script) ==
    /\ Len(script) \in Nat \ {0}
    /\ script = [i \in 1..Len(script) |-> script[i]]
    /\ \A i \in 1..Len(script) : script[i].do \in Kinds

\* What a revision writes in alembic_version.
StampsInOrder(heads, script) ==
    \A p \in {p \in 1..Len(script) : script[p].do \in {"stamp", "unstamp"}} :
        HeadsAfter(heads, script, p) =
            Did([schema |-> {}, rows |-> {}, heads |-> HeadsAfter(heads, script, p - 1)], script[p]).heads

CommitsInBounds(heads, script) ==
    \A p \in {p \in 1..Len(script) : MayCommit(script, p)} :
        \E next \in {HeadsAfter(heads, script, p)} :
            /\ next \in HeadSets
            /\ Least(next) \subseteq SchemaAfter(Least(heads), script, p)
            /\ SchemaAfter(Most(heads), script, p) \subseteq Most(next)

ASSUME HeadsAreTips == \A heads \in HeadSets : Applied(heads) \ Above(Applied(heads)) = heads

ASSUME EveryCommandStaysInBounds ==
    \A heads \in HeadSets : \A c \in CommandsFrom[heads] :
        \E script \in {Script(c[1], c[2])} :
            IsAScript(script) /\ StampsInOrder(heads, script) /\ CommitsInBounds(heads, script)

ASSUME RevisionsMakeObjects ==
    /\ \A heads \in HeadSets : Expected(heads) \subseteq Objects /\ heads \subseteq Revisions
    /\ Remains \subseteq Objects \union {VersionTable, Widened}

-----------------------------------------------------------------------------

\* Where the database is after the first p steps of a command.
Reached(heads, script, p, view) ==
    /\ view.heads = HeadsAfter(heads, script, p)
    /\ SchemaAfter(Least(heads), script, p) \subseteq view.schema
    /\ view.schema \subseteq SchemaAfter(Most(heads), script, p)

\* The command began at some heads, and what was committed of it is what its
\* first steps did.
UnderWay ==
    \E heads \in HeadSets : \E script \in {Script(command.way, command.plan)} :
        /\ <<command.way, command.plan>> \in CommandsFrom[heads]
        /\ command = [way |-> command.way, plan |-> command.plan, at |-> command.at, own |-> command.own]
        /\ command.at \in 1..Len(script)
        /\ command.own \in BOOLEAN
        /\ command.own => \E i \in 1..command.at - 1 : script[i].do = "own"
        /\ Reached(heads, script, command.at - 1, db)

\* Whatever is committed, while a command runs or not, is between the bounds of
\* the revisions that alembic_version holds.
SchemaInv ==
    /\ db = [schema |-> db.schema, rows |-> db.rows, heads |-> db.heads]
    /\ IsFiniteSet(db.rows) /\ db.rows \subseteq RowKinds /\ Cardinality(db.rows) <= MaxRows
    /\ InBounds(db)
    /\ command = NoCommand \/ UnderWay
    /\ aborted \in BOOLEAN /\ issued \in 0..MaxCommands
=============================================================================

---------------------------- MODULE MCInheritance ----------------------------
(* Instances of Inheritance: which operations, editors and bounds to explore. *)
EXTENDS Inheritance

\* #0 with a child #1; #2 is free.
Pair == [NoWorld EXCEPT !.valid = {0, 1}, !.parent[1] = 0]

\* #0 over #1 over #2.
Stack == [NoWorld EXCEPT !.valid = {0, 1, 2}, !.parent[1] = 0, !.parent[2] = 1]

Case(world, ops, names, editors, readers, probes, edits, versions) ==
    [world |-> world, ops |-> ops, names |-> names, editors |-> editors,
     threads |-> editors \union readers, probes |-> probes,
     edits |-> edits, versions |-> versions]

Tree == {"create", "recycle", "chparent", "renumber"}

\* One transaction of one thread: every sequence of edits and lookups.
PropEdits(w, o) == Case(w, Tree \union {"define", "props", "ancestors", "flush"}, {"a"}, {"t1"}, {}, {o}, 4, 0)
Renames == Case(Stack, {"recycle", "chparent", "define", "rename", "props"}, {"a", "b"}, {"t1"}, {}, {2}, 3, 0)
VerbEdits(o) == Case(Stack, Tree \union {"verbs"}, {"a"}, {"t1"}, {}, {o}, 3, 0)
ForestEdits == Case(Stack, {"create", "recycle", "chparent", "move", "define"}, {"a", "b"}, {"t1"}, {}, {}, 4, 0)
MoveRenumber == Case(Pair, {"move", "renumber", "create"}, {"a"}, {"t1"}, {}, {}, 4, 0)

\* Threads that race to publish worlds and caches.
TwoWriters == Case(Pair, {"define", "props"}, {"a"}, {"t1", "t2"}, {}, {1}, 1, 2)
TwoMovers == Case(Stack, {"chparent", "props", "ancestors", "define"}, {"a"}, {"t1", "t2"}, {}, {2}, 1, 1)
TwoRecyclers == Case(Pair, {"recycle", "chparent", "define"}, {"a"}, {"t1", "t2"}, {}, {0}, 1, 2)
PropReader == Case(Stack, {"recycle", "define", "props", "ancestors"}, {"a"}, {"t1"}, {"t2"}, {2}, 1, 1)
VerbReader == Case(Pair, {"verbs"}, {"a"}, {"t1"}, {"t2"}, {0}, 1, 1)

MCScenarios ==
    {PropEdits(Stack, 2), PropEdits(Pair, 1), Renames, VerbEdits(0), VerbEdits(2),
     ForestEdits, MoveRenumber, TwoWriters, TwoMovers, PropReader, VerbReader, TwoRecyclers}
=============================================================================

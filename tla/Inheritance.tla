---------------------------- MODULE Inheritance ----------------------------
(***************************************************************************)
(* Inheritance in the world state: the parent and location trees, the      *)
(* property and verb definitions hung on them, the operations that edit    *)
(* them, and the three resolution caches (ancestry, property, verb) that   *)
(* every transaction forks, fills, invalidates and hands on.               *)
(*                                                                         *)
(* Two atomic planes are shared by all threads: the root snapshot and the  *)
(* cache publication beside it.  Each is loaded and stored on its own, so  *)
(* beginning a transaction, publishing a write and publishing the caches   *)
(* of a read-only transaction are two steps each.                          *)
(*                                                                         *)
(* A walk up a parent cycle never ends in the code, so an operation is     *)
(* only taken in a view without one.  The conflict check is abstracted to  *)
(* rows (CommitPipeline models it): a commit conflicts when a row it wrote *)
(* was committed by somebody else after its snapshot.                      *)
(***************************************************************************)
EXTENDS Naturals, Sequences, FiniteSets, SequencesExt

CONSTANTS
    Threads,        \* the threads that run transactions
    Objects,        \* the object numbers
    SystemObject,   \* #0, where the verbs that stand in for builtins live
    Names,          \* property and verb names
    Nothing,        \* #-1
    NoRow,          \* an object without a row in object_verbdefs
    MaxIds,         \* bound on the definitions (uuids) made
    Scenarios       \* which operations, editors and bounds a run explores

ASSUME InheritanceConstants ==
    /\ Objects \subseteq Nat /\ IsFiniteSet(Objects)
    /\ SystemObject \in Objects
    /\ Nothing \notin Objects
    /\ MaxIds \in Nat
    /\ \A s \in Scenarios :
          /\ s.editors \subseteq s.threads /\ s.threads \subseteq Threads
          /\ s.probes \subseteq Objects /\ s.names \subseteq Names /\ s.edits \in Nat /\ s.versions \in Nat

VARIABLES
    scenario,       \* the scenario of this behaviour; never changes
    root,           \* root_state: [version, world, caches]
    pub,            \* cache_publication: [version, caches]
    tx,             \* the transaction of each thread
    minted          \* how many definitions have been given an identity

vars == <<scenario, root, pub, tx, minted>>

-----------------------------------------------------------------------------
(* Worlds and walks.                                                        *)
(* A world is a record: the objects that are valid, their parents and       *)
(* locations, the property definitions [id, name, definer, at] of each      *)
(* object and its verbs [id, name, exec, at], NoRow where it never had one. *)

\* The object reached from o after k steps of the edge function `edge'.
Climb(edge, o) ==
    LET up[k \in 0..Cardinality(Objects)] ==
            IF k = 0 THEN o
            ELSE IF up[k - 1] = Nothing THEN Nothing ELSE edge[up[k - 1]]
    IN  up

\* o and everything above it, nearest first.
Line(edge, o) ==
    LET up == Climb(edge, o)
    IN  [k \in {j \in 1..Cardinality(Objects) : up[j - 1] # Nothing} |-> up[k - 1]]

Acyclic(edge) == \A o \in Objects : Climb(edge, o)[Cardinality(Objects)] = Nothing

Above(w, o) == Tail(Line(w.parent, o))

descendants(w, o) == {x \in Objects \ {o} : o \in ToSet(Line(w.parent, x))}

branch_objects(w, o) == {o} \union descendants(w, o)

VerbRow(w, o) == IF w.verbs[o] = NoRow THEN <<>> ELSE w.verbs[o]

\* The first element of s that passes the test, <<>> if there is none.
FirstWhere(s, Test(_)) ==
    LET i == SelectInSeq(s, Test) IN IF i = 0 THEN <<>> ELSE <<s[i]>>

\* The first definition of property n met on the way up the objects of `line'.
PropAlong(w, line, n) ==
    LET holder == FirstWhere(line, LAMBDA a : \E d \in ToSet(w.props[a]) : d.name = n)
    IN  IF holder = <<>> THEN <<>> ELSE FirstWhere(w.props[holder[1]], LAMBDA d : d.name = n)

\* The first verb named n, executable if x asks for it, in definition order.
VerbAlong(w, line, n, x) ==
    LET Fits(v) == v.name = n /\ (x => v.exec)
        holder == FirstWhere(line, LAMBDA a : \E v \in ToSet(VerbRow(w, a)) : Fits(v))
    IN  IF holder = <<>> THEN <<>> ELSE FirstWhere(VerbRow(w, holder[1]), Fits)

\* Where a search for properties may start: the nearest object that has any.
PropHome(w, o) == FirstWhere(Line(w.parent, o), LAMBDA a : w.props[a] # <<>>)

\* Where a search for verbs may start: the nearest object with a row, empty or not.
VerbHome(w, o) == FirstWhere(Line(w.parent, o), LAMBDA a : w.verbs[a] # NoRow)

PropNames(w, objs) == {d.name : d \in UNION {ToSet(w.props[o]) : o \in objs}}

-----------------------------------------------------------------------------
(* Caches: sets of remembered answers, each filed under an object.  A      *)
(* value is the sequence <<>> for a recorded miss and <<d>> for a hit.     *)

NoCaches == [chain |-> {}, prop |-> {}, propHome |-> {},
             verb |-> {}, verbHome |-> {}, absent |-> {}]

Filed(facts, o) == {f \in facts : f.on = o}

Without(facts, objs) == {f \in facts : f.on \notin objs}

InvalidateProps(c, objs) ==
    [c EXCEPT !.prop = Without(@, objs), !.propHome = Without(@, objs)]

\* The verb cache also forgets which builtins have no stand-in on #0.
InvalidateVerbs(c, objs) ==
    [c EXCEPT !.verb = Without(@, objs), !.verbHome = Without(@, objs),
              !.absent = IF SystemObject \in objs THEN {} ELSE @]

InvalidateAncestry(c, objs) == [c EXCEPT !.chain = Without(@, objs)]

\* What the drop of an edit of the hierarchy, a removal or a renumbering does.
InvalidateHierarchy(c, objs) ==
    InvalidateAncestry(InvalidateProps(InvalidateVerbs(c, objs), objs), objs)

\* The ancestors of o: the remembered ones, or else a walk.
Ancestors(w, c, o) ==
    IF Filed(c.chain, o) # {} THEN (CHOOSE f \in Filed(c.chain, o) : TRUE).val ELSE Above(w, o)

FillAncestors(w, c, o) ==
    [c EXCEPT !.chain = Without(@, {o}) \union {[on |-> o, val |-> Ancestors(w, c, o)]}]

\* The task's own copy of the absent builtins is taken again when the verb
\* cache's guard version moved, that is when an invalidation removed something.
refresh_builtin_proxy_cache(before, after, local) ==
    IF \/ before.verb \ after.verb # {} \/ before.verbHome \ after.verbHome # {}
       \/ before.absent \ after.absent # {}
    THEN after.absent ELSE local

-----------------------------------------------------------------------------
(* Transactions. *)

NoWorld == [valid |-> {}, parent |-> [o \in Objects |-> Nothing],
            loc |-> [o \in Objects |-> Nothing], props |-> [o \in Objects |-> <<>>],
            verbs |-> [o \in Objects |-> NoRow]]

NoTx == [phase |-> "idle", base |-> 0, view |-> NoWorld, caches |-> NoCaches,
         local |-> {}, changed |-> FALSE, touched |-> {}, foreign |-> {}, edits |-> 0]

Row(kind, objs) == {kind} \X objs

\* A lookup by thread t that leaves the caches c; `changed' as has_changed sees it.
Reads(t, op, c, changed) ==
    /\ op \in scenario.ops
    /\ tx' = [tx EXCEPT ![t].caches = c, ![t].changed = @ \/ changed]
    /\ UNCHANGED <<scenario, root, pub, minted>>

\* An edit by thread t that leaves the world w and the caches c, writing `rows'.
Edits(t, op, w, c, rows, mints) ==
    /\ op \in scenario.ops
    /\ minted + mints <= MaxIds
    /\ tx' = [tx EXCEPT ![t].view = w, ![t].caches = c,
                        ![t].local = refresh_builtin_proxy_cache(tx[t].caches, c, @),
                        ![t].touched = @ \union rows, ![t].edits = @ + 1]
    /\ minted' = minted + mints
    /\ UNCHANGED <<scenario, root, pub>>

ancestors(t, o) ==
    /\ Filed(tx[t].caches.chain, o) = {}
    /\ Reads(t, "ancestors", FillAncestors(tx[t].view, tx[t].caches, o), FALSE)

find_property_by_name(t, o, n) ==
    LET w == tx[t].view
        c == tx[t].caches
        homes == Filed(c.propHome, o)
        home == IF homes # {} THEN (CHOOSE f \in homes : TRUE).val ELSE PropHome(w, o)
    IN  /\ \A f \in Filed(c.prop, o) : f.name # n
        /\ home # <<>>                    \* with no properties above, nothing is filled in
        /\ Reads(t, "props",
                 [c EXCEPT !.propHome = @ \union {[on |-> o, val |-> home]},
                           !.prop = @ \union {[on |-> o, name |-> n,
                               val |-> PropAlong(w, Line(w.parent, home[1]), n)]}],
                 TRUE)

resolve_verb_handle(t, o, n, x) ==
    LET w == tx[t].view
        c == tx[t].caches
        homes == Filed(c.verbHome, o)
        home == IF homes # {} THEN (CHOOSE f \in homes : TRUE).val ELSE VerbHome(w, o)
        line == IF home = <<>> THEN <<>> ELSE Line(w.parent, home[1])
    IN  /\ \A f \in Filed(c.verb, o) : <<f.name, f.exec>> # <<n, x>>
        /\ Reads(t, "verbs",
                 [c EXCEPT !.verbHome = IF home = <<>> THEN @
                                        ELSE @ \union {[on |-> o, val |-> home]},
                           !.verb = @ \union {[on |-> o, name |-> n, exec |-> x,
                                               val |-> VerbAlong(w, line, n, x)]}],
                 TRUE)

\* Only verbs of o itself count; an inherited entry is replaced, a miss believed.
get_verb_by_name(t, o, n) ==
    LET c == tx[t].caches
        own == VerbAlong(tx[t].view, <<o>>, n, FALSE)
        known == {f \in Filed(c.verb, o) : f.name = n /\ ~f.exec}
    IN  /\ own # <<>>
        /\ \A f \in known : f.val # <<>> /\ f.val[1].at # o
        /\ Reads(t, "verbs",
                 [c EXCEPT !.verb = (@ \ known) \union
                              {[on |-> o, name |-> n, exec |-> FALSE, val |-> own]}], TRUE)

\* A builtin was called, its stand-in looked up on #0 and not found.
mark_builtin_proxy_absent(t, n) ==
    LET c == tx[t].caches
    IN  /\ n \notin tx[t].local
        /\ \/ SystemObject \notin tx[t].view.valid
           \/ [on |-> SystemObject, name |-> n, exec |-> TRUE, val |-> <<>>] \in c.verb
        /\ "verbs" \in scenario.ops
        /\ tx' = [tx EXCEPT ![t].caches.absent = @ \union {n}, ![t].local = @ \union {n},
                            ![t].changed = TRUE]
        /\ UNCHANGED <<scenario, root, pub, minted>>

flush_caches(t) ==
    /\ "flush" \in scenario.ops
    /\ tx[t].caches # NoCaches
    /\ tx' = [tx EXCEPT ![t].caches = NoCaches, ![t].local = {}, ![t].changed = TRUE]
    /\ UNCHANGED <<scenario, root, pub, minted>>

-----------------------------------------------------------------------------
(* Edits. *)

\* An object without a parent gets no row for one, and the caches stay.
create_object(t, o, p) ==
    LET w == tx[t].view
    IN  /\ o \notin w.valid
        /\ \/ /\ p = Nothing
              /\ Edits(t, "create", [w EXCEPT !.valid = @ \union {o}], tx[t].caches,
                       Row("object", {o}), 0)
           \/ /\ p \in w.valid
              /\ Edits(t, "create", [w EXCEPT !.valid = @ \union {o}, !.parent[o] = p],
                       InvalidateHierarchy(tx[t].caches, {o}),
                       Row("object", {o}) \union Row("parent", {o}), 0)

\* A mutant: the children keep the parent they had.
Removed_KeepsChildren(w, gone, heir) ==
    [valid  |-> w.valid \ gone,
     parent |-> [x \in Objects |-> IF x \in gone THEN Nothing ELSE w.parent[x]],
     loc    |-> [x \in Objects |-> IF x \in gone \/ w.loc[x] \in gone THEN Nothing ELSE w.loc[x]],
     props  |-> [x \in Objects |-> IF x \in gone THEN <<>> ELSE w.props[x]],
     verbs  |-> [x \in Objects |-> IF x \in gone THEN NoRow ELSE w.verbs[x]]]

\* The rows of `gone' removed, their children handed to `heir', their contents dropped.
Removed(w, gone, heir) ==
    [valid  |-> w.valid \ gone,
     parent |-> [x \in Objects |-> IF x \in gone THEN Nothing
                                   ELSE IF w.parent[x] \in gone THEN heir[w.parent[x]]
                                   ELSE w.parent[x]],
     loc    |-> [x \in Objects |-> IF x \in gone \/ w.loc[x] \in gone THEN Nothing ELSE w.loc[x]],
     props  |-> [x \in Objects |-> IF x \in gone THEN <<>> ELSE w.props[x]],
     verbs  |-> [x \in Objects |-> IF x \in gone THEN NoRow ELSE w.verbs[x]]]

RemovedRows(w, gone) ==
    Row("object", gone) \union Row("props", gone) \union Row("verbs", gone)
    \union Row("parent", gone \union {x \in Objects : w.parent[x] \in gone})
    \union Row("loc", gone \union {x \in Objects : w.loc[x] \in gone})

\* Each child is moved with set_object_parent, which invalidates its whole branch.
recycle_object(t, o) ==
    LET w == tx[t].view
    IN  /\ o \in w.valid
        /\ Edits(t, "recycle", Removed(w, {o}, w.parent),
                 InvalidateHierarchy(tx[t].caches, branch_objects(w, o)),
                 RemovedRows(w, {o}), 0)

\* The garbage collector's sweep.  Parents and containers of what it spares are
\* references it follows, so what it sweeps is closed downwards.
recycle_objects(t, gone) ==
    LET w == tx[t].view
        moved == {x \in Objects : w.parent[x] \in gone}
    IN  /\ Cardinality(gone) > 1
        /\ gone \subseteq w.valid
        /\ \A x \in Objects : w.parent[x] \in gone \/ w.loc[x] \in gone => x \in gone
        /\ Edits(t, "recycle", Removed(w, gone, w.parent),
                 InvalidateHierarchy(tx[t].caches,
                     gone \union UNION {branch_objects(w, x) : x \in moved}),
                 RemovedRows(w, gone), 0)

\* A mutant: only the names o defines itself are compared.
chparent_property_conflict_Self(w, c, o, p) ==
    PropNames(w, {o}) \intersect PropNames(w, {p} \union ToSet(Ancestors(w, c, p))) # {}

\* A property name of the branch of o is met again on the new parent's line, as
\* the remembered ancestry shows it.
chparent_property_conflict(w, c, o, p) ==
    PropNames(w, branch_objects(w, o))
        \intersect PropNames(w, {p} \union ToSet(Ancestors(w, c, p))) # {}

\* chparent: refused below itself, under what does not exist, and on a name clash.
change_parent(t, o, p) ==
    LET w == tx[t].view
        c == IF p = Nothing THEN tx[t].caches ELSE FillAncestors(w, tx[t].caches, p)
    IN  /\ o \in w.valid
        /\ p \in w.valid \union {Nothing}
        /\ p # Nothing => /\ o \notin ToSet(Line(w.parent, p))
                          /\ ~chparent_property_conflict(w, tx[t].caches, o, p)
        /\ w.parent[o] # p
        /\ Edits(t, "chparent", [w EXCEPT !.parent[o] = p],
                 InvalidateHierarchy(c, branch_objects(w, o)), Row("parent", {o}), 0)

\* move(): refused into itself or its contents; neither end need exist.
set_object_location(t, o, l) ==
    LET w == tx[t].view
    IN  /\ Acyclic(w.loc)
        /\ l # Nothing => o \notin ToSet(Line(w.loc, l))
        /\ w.loc[o] # l
        /\ Edits(t, "move", [w EXCEPT !.loc[o] = l], tx[t].caches, Row("loc", {o}), 0)

\* A name already defined on o, above it or below it is refused.
define_property(t, o, n) ==
    LET w == tx[t].view
        c == FillAncestors(w, tx[t].caches, o)
        related == branch_objects(w, o) \union ToSet(Ancestors(w, tx[t].caches, o))
        def == [id |-> minted + 1, name |-> n, definer |-> o, at |-> o]
    IN  /\ o \in w.valid
        /\ n \notin PropNames(w, related)
        /\ Edits(t, "define", [w EXCEPT !.props[o] = Append(@, def)],
                 InvalidateProps(c, branch_objects(w, o)), Row("props", {o}), 1)

\* The definition i of o, with the name n: no look at the rest of the line.
update_property_info(t, o, i, n) ==
    LET w == tx[t].view
    IN  /\ i \in DOMAIN w.props[o]
        /\ w.props[o][i].name # n
        /\ Edits(t, "rename", [w EXCEPT !.props[o][i].name = n],
                 InvalidateProps(tx[t].caches, branch_objects(w, o)), Row("props", {o}), 0)

\* The definition leaves o and every descendant that has it, each at most once; the
\* rows of all of them are written, changed or not.
delete_property(t, o, i) ==
    LET w == tx[t].view
        id == w.props[o][i].id
        without == [x \in Objects |-> IF x \in branch_objects(w, o)
                        THEN RemoveFirstMatch(w.props[x], LAMBDA d : d.id = id)
                        ELSE w.props[x]]
    IN  /\ i \in DOMAIN w.props[o]
        /\ Edits(t, "define", [w EXCEPT !.props = without],
                 InvalidateProps(tx[t].caches, branch_objects(w, o)),
                 Row("props", {x \in branch_objects(w, o) : w.props[x] # <<>>}), 0)

add_object_verb(t, o, n, x) ==
    LET w == tx[t].view
        verb == [id |-> minted + 1, name |-> n, exec |-> x, at |-> o]
    IN  /\ o \in w.valid
        /\ Edits(t, "verbs", [w EXCEPT !.verbs[o] = Append(VerbRow(w, o), verb)],
                 InvalidateVerbs(tx[t].caches, branch_objects(w, o)), Row("verbs", {o}), 1)

update_verb(t, o, i, n, x) ==
    LET w == tx[t].view
    IN  /\ i \in DOMAIN VerbRow(w, o)
        /\ <<w.verbs[o][i].name, w.verbs[o][i].exec>> # <<n, x>>
        /\ Edits(t, "verbs", [w EXCEPT !.verbs[o][i].name = n, !.verbs[o][i].exec = x],
                 InvalidateVerbs(tx[t].caches, branch_objects(w, o)), Row("verbs", {o}), 0)

\* The row stays, perhaps empty.
delete_verb(t, o, i) ==
    LET w == tx[t].view
    IN  /\ i \in DOMAIN VerbRow(w, o)
        /\ Edits(t, "verbs", [w EXCEPT !.verbs[o] = RemoveAt(@, i)],
                 InvalidateVerbs(tx[t].caches, branch_objects(w, o)), Row("verbs", {o}), 0)

\* Every row of o and every reference to it moves to the free number m; a
\* property definition keeps the location it was made with.
renumber_object(t, o, m) ==
    LET w == tx[t].view
        To(x) == IF x = o THEN m ELSE x
        Move(f, none) == [x \in Objects |-> IF x = o THEN none ELSE IF x = m THEN f[o] ELSE f[x]]
        Refs(f) == [x \in Objects |-> To(f[x])]
        propsTo == [x \in Objects |-> [i \in DOMAIN w.props[x] |->
                        [w.props[x][i] EXCEPT !.definer = To(@)]]]
        verbsTo == [w.verbs EXCEPT ![o] = IF @ = NoRow THEN @
                        ELSE [i \in DOMAIN @ |-> [@[i] EXCEPT !.at = m]]]
        children == {x \in Objects : w.parent[x] = o}
        contents == {x \in Objects : w.loc[x] = o}
    IN  /\ o \in w.valid /\ m \notin w.valid
        /\ Edits(t, "renumber",
                 [valid  |-> (w.valid \ {o}) \union {m},
                  parent |-> Move(Refs(w.parent), Nothing),
                  loc    |-> Move(Refs(w.loc), Nothing),
                  props  |-> Move(propsTo, <<>>),
                  verbs  |-> Move(verbsTo, NoRow)],
                 InvalidateHierarchy(tx[t].caches, branch_objects(w, o) \union {m}),
                 Row("object", {o, m}) \union Row("props", {o, m}) \union Row("verbs", {o, m})
                 \union Row("parent", {o, m} \union children)
                 \union Row("loc", {o, m} \union contents), 0)

-----------------------------------------------------------------------------
(* Beginning and ending. *)

\* acquire_seed_caches loads the root plane first ...
LoadRoot(t) ==
    /\ tx[t].phase = "idle"
    /\ tx' = [tx EXCEPT ![t] = [NoTx EXCEPT !.phase = "loaded", !.base = root.version,
                                            !.view = root.world, !.caches = root.caches]]
    /\ UNCHANGED <<scenario, root, pub, minted>>

\* ... and then the cache plane, which serves only if it is of the same version.
LoadCaches(t) ==
    LET c == IF pub.version = tx[t].base THEN pub.caches ELSE tx[t].caches
    IN  /\ tx[t].phase = "loaded"
        /\ tx' = [tx EXCEPT ![t].phase = "active", ![t].caches = c, ![t].local = c.absent]
        /\ UNCHANGED <<scenario, root, pub, minted>>

rollback(t) ==
    /\ tx[t].phase = "active"
    /\ tx' = [tx EXCEPT ![t] = NoTx]
    /\ UNCHANGED <<scenario, root, pub, minted>>

\* A transaction without mutations offers its caches if it learned something
\* and the root is still the one it read.
CommitReadOnly(t) ==
    /\ tx[t].phase = "active" /\ tx[t].touched = {}
    /\ tx' = [tx EXCEPT ![t] = IF tx[t].changed /\ root.version = tx[t].base
                               THEN [@ EXCEPT !.phase = "publishing"] ELSE NoTx]
    /\ UNCHANGED <<scenario, root, pub, minted>>

publish_read_only_cache(t) ==
    /\ tx[t].phase = "publishing"
    /\ pub' = [version |-> tx[t].base, caches |-> tx[t].caches]
    /\ tx' = [tx EXCEPT ![t] = NoTx]
    /\ UNCHANGED <<scenario, root, minted>>

\* A mutant: the transaction's own caches go with its root.
NextCaches_Own(t) == tx[t].caches

\* The caches the next root carries.  prepare and rebase fork the transaction's
\* caches, a fork never counts as changed, so the current root's are kept.
NextCaches(t) == root.caches

\* The rows t wrote, over the root as it is now.
NextWorld(t) ==
    LET mine(kind) == {o \in Objects : <<kind, o>> \in tx[t].touched}
        Over(kind, new, old) == [o \in Objects |-> IF o \in mine(kind) THEN new[o] ELSE old[o]]
        v == tx[t].view
        r == root.world
    IN  [valid  |-> (r.valid \ mine("object")) \union (v.valid \intersect mine("object")),
         parent |-> Over("parent", v.parent, r.parent),
         loc    |-> Over("loc", v.loc, r.loc),
         props  |-> Over("props", v.props, r.props),
         verbs  |-> Over("verbs", v.verbs, r.verbs)]

\* Check against the current root, build the next one; also after a lost race.
Prepare(t) ==
    /\ tx[t].phase \in {"active", "lost"} /\ tx[t].touched # {}
    /\ root.version < scenario.versions
    /\ tx' = [tx EXCEPT ![t] = IF tx[t].touched \intersect tx[t].foreign # {} THEN NoTx
                               ELSE [@ EXCEPT !.phase = "storing", !.base = root.version]]
    /\ UNCHANGED <<scenario, root, pub, minted>>

\* Inside rcu: if the root is still the expected one, the cache plane is stored ...
StoreCaches(t) ==
    /\ tx[t].phase = "storing"
    /\ IF root.version = tx[t].base
       THEN /\ pub' = [version |-> root.version + 1, caches |-> NextCaches(t)]
            /\ tx' = [tx EXCEPT ![t].phase = "swapping"]
       ELSE /\ tx' = [tx EXCEPT ![t].phase = "lost"]
            /\ UNCHANGED pub
    /\ UNCHANGED <<scenario, root, minted>>

\* ... before the root is swapped, unless somebody swapped it in between.
SwapRoot(t) ==
    /\ tx[t].phase = "swapping"
    /\ IF root.version = tx[t].base
       THEN /\ root' = [version |-> root.version + 1, world |-> NextWorld(t),
                        caches |-> NextCaches(t)]
            /\ tx' = [u \in Threads |->
                         IF u = t THEN NoTx
                         ELSE IF tx[u].phase = "idle" THEN tx[u]
                         ELSE [tx[u] EXCEPT !.foreign = @ \union tx[t].touched]]
       ELSE /\ tx' = [tx EXCEPT ![t].phase = "lost"]
            /\ UNCHANGED root
    /\ UNCHANGED <<scenario, pub, minted>>

-----------------------------------------------------------------------------
\* The code of t is running, and its walks end.
Active(t) == tx[t].phase = "active" /\ Acyclic(tx[t].view.parent)

Lookup(t) ==
    /\ Active(t)
    /\ \/ \E o \in scenario.probes :
             \/ ancestors(t, o)
             \/ \E n \in scenario.names : \/ find_property_by_name(t, o, n)
                                 \/ get_verb_by_name(t, o, n)
                                 \/ \E x \in BOOLEAN : resolve_verb_handle(t, o, n, x)
       \/ \E n \in scenario.names : mark_builtin_proxy_absent(t, n)
       \/ flush_caches(t)

Edit(t) ==
    /\ Active(t)
    /\ t \in scenario.editors /\ tx[t].edits < scenario.edits
    /\ \/ \E o \in Objects, p \in Objects \union {Nothing} :
             create_object(t, o, p) \/ change_parent(t, o, p) \/ set_object_location(t, o, p)
       \/ \E o \in Objects : recycle_object(t, o)
       \/ \E gone \in SUBSET Objects : recycle_objects(t, gone)
       \/ \E o, m \in Objects : renumber_object(t, o, m)
       \/ \E o \in Objects, n \in scenario.names :
             \/ define_property(t, o, n)
             \/ \E i \in DOMAIN tx[t].view.props[o] : update_property_info(t, o, i, n)
             \/ \E x \in BOOLEAN :
                   \/ add_object_verb(t, o, n, x)
                   \/ \E i \in DOMAIN VerbRow(tx[t].view, o) : update_verb(t, o, i, n, x)
       \/ \E o \in Objects :
             \/ \E i \in DOMAIN tx[t].view.props[o] : delete_property(t, o, i)
             \/ \E i \in DOMAIN VerbRow(tx[t].view, o) : delete_verb(t, o, i)

Finish(t) ==
    \/ rollback(t) \/ CommitReadOnly(t) \/ publish_read_only_cache(t)
    \/ Prepare(t) \/ StoreCaches(t) \/ SwapRoot(t)

Init ==
    /\ scenario \in Scenarios
    /\ root = [version |-> 0, world |-> scenario.world, caches |-> NoCaches]
    /\ pub = [version |-> 0, caches |-> NoCaches]
    /\ tx = [t \in Threads |-> NoTx]
    /\ minted = 0

Next == \E t \in scenario.threads : LoadRoot(t) \/ LoadCaches(t) \/ Lookup(t) \/ Edit(t) \/ Finish(t)

Spec == Init /\ [][Next]_vars

-----------------------------------------------------------------------------
(* Types, and what makes a world and a set of caches good. *)

Edge == [Objects -> Objects \union {Nothing}]

Kind == {"object", "parent", "loc", "props", "verbs"}

PropDef == [id : Nat, name : Names, definer : Objects, at : Objects]

Verb == [id : Nat, name : Names, exec : BOOLEAN, at : Objects]

World == [valid : SUBSET Objects, parent : Edge, loc : Edge,
          props : [Objects -> Seq(PropDef)], verbs : [Objects -> Seq(Verb) \union {NoRow}]]

Caches == [chain    : SUBSET [on : Objects, val : Seq(Objects)],
           prop     : SUBSET [on : Objects, name : Names, val : Seq(PropDef)],
           propHome : SUBSET [on : Objects, val : Seq(Objects)],
           verb     : SUBSET [on : Objects, name : Names, exec : BOOLEAN, val : Seq(Verb)],
           verbHome : SUBSET [on : Objects, val : Seq(Objects)],
           absent   : SUBSET Names]

Transaction ==
    [phase : {"idle", "loaded", "active", "publishing", "storing", "swapping", "lost"},
     base : Nat, view : World, caches : Caches, local : SUBSET Names, changed : BOOLEAN,
     touched : SUBSET (Kind \X Objects), foreign : SUBSET (Kind \X Objects), edits : Nat]

\* The parents form a forest, over objects that exist.
TreeOK(w) == Acyclic(w.parent) /\ \A o \in Objects : w.parent[o] \in w.valid \union {Nothing}

\* Nothing hangs on an object that does not exist.
Bare(w) ==
    \A o \in Objects \ w.valid : w.parent[o] = Nothing /\ w.props[o] = <<>> /\ w.verbs[o] = NoRow

\* Every verb and every property definition knows whose it is.
AtHome(w) ==
    \A o \in Objects : /\ \A v \in ToSet(VerbRow(w, o)) : v.at = o
                       /\ \A d \in ToSet(w.props[o]) : d.definer = o

LocsExist(w) == \A o \in Objects : w.loc[o] \in w.valid \union {Nothing}

\* No two property definitions along a line have one name.
NamesOnce(w) ==
    \A o \in Objects : \A a, b \in ToSet(Line(w.parent, o)) :
        \A i \in DOMAIN w.props[a], j \in DOMAIN w.props[b] :
            w.props[a][i].name = w.props[b][j].name => a = b /\ i = j

\* Each remembered answer is the one a walk over w gives.
Sound(w, c) ==
    /\ \A f \in c.chain : f.val = Above(w, f.on)
    /\ \A f \in c.prop : f.val = PropAlong(w, Line(w.parent, f.on), f.name)
    /\ \A f \in c.propHome : f.val = PropHome(w, f.on)
    /\ \A f \in c.verb : f.val = VerbAlong(w, Line(w.parent, f.on), f.name, f.exec)
    /\ \A f \in c.verbHome : f.val = VerbHome(w, f.on)
    /\ \A n \in c.absent : VerbAlong(w, Line(w.parent, SystemObject), n, TRUE) = <<>>

\* A behaviour starts from a database that was put together properly.
ASSUME InitialWorlds ==
    \A s \in Scenarios :
        /\ s.world \in World
        /\ TreeOK(s.world) /\ Bare(s.world) /\ AtHome(s.world) /\ NamesOnce(s.world)
        /\ LocsExist(s.world) /\ Acyclic(s.world.loc)

TypeOK ==
    /\ scenario \in Scenarios
    /\ root \in [version : Nat, world : World, caches : Caches]
    /\ pub \in [version : Nat, caches : Caches]
    /\ tx \in [Threads -> Transaction]
    /\ minted \in 0..MaxIds

-----------------------------------------------------------------------------
(* Properties. *)

\* Every answer a running transaction has in its caches is the answer a walk over
\* its own view would give now: ancestors, the property and verb a name resolves
\* to (misses included), where a search may start, and which builtins have no
\* stand-in on #0, in the verb cache and in the task's copy of it.  The answer may
\* come from any transaction that published caches, through every race between
\* the root and the cache plane, and must have been dropped by every edit since
\* that could change it (edit.rs Drop, snapshot_planes.rs).
CachesSound ==
    \A t \in {u \in Threads : tx[u].phase = "active"} :
        Sound(tx[t].view, [tx[t].caches EXCEPT !.absent = @ \union tx[t].local])

Worlds == {root.world} \union {tx[t].view : t \in Threads}

SoleEditor == \A t, u \in scenario.editors : t = u

\* While one thread edits (whatever others read), the parents of every view and of
\* the root form a forest over objects that exist, nothing hangs on an object that
\* does not, verbs and properties know their home, and no object is inside itself; renumbering
\* onto a number something was moved into is the one way to the latter, see README.
ObjectForest ==
    SoleEditor => \A w \in Worlds :
        /\ TreeOK(w) /\ Bare(w) /\ AtHome(w)
        /\ {"move", "renumber"} \subseteq scenario.ops \/ Acyclic(w.loc)

\* While one thread edits and nobody renames a property, no object inherits two
\* properties of one name: define_property and chparent check whole lines, partly
\* from cached ancestry, and recycling and renumbering keep what they checked.
NoNameTwice ==
    SoleEditor /\ "rename" \notin scenario.ops => \A w \in Worlds : NamesOnce(w)
=============================================================================

--------------------------- MODULE GeometryStores ----------------------------
(***************************************************************************)
(* The spatial store of the GIS engine twice: in memory                    *)
(* (ipermit_gis/store.py) and over PostGIS (ipermit_gis/postgis.py), which *)
(* is meant to take its place without the callers noticing.  The second    *)
(* writes to the caller's session: it flushes, the caller commits.  A      *)
(* geometry is the set of the cells of the map it covers, and whether it   *)
(* is valid; what shapely makes of an invalid one is chosen by the         *)
(* environment.  What the stores answer depends on what they hold alone,   *)
(* but for the order of the ids, which is not modelled.                    *)
(***************************************************************************)
EXTENDS Naturals, Sequences

CONSTANTS
    Id,           \* strings; the empty one is refused
    Overlong,     \* those the column of the database has no room for
    Cell,
    Offers,       \* the geometries that are offered
    Rejected      \* GeometryError

VARIABLES
    geoms,        \* GeometryStore
    rows,         \* JurisdictionGeometry, as the caller's session sees it
    saved,        \* the rows it has committed
    broken,       \* a flush has failed, and the session was not rolled back since
    raised        \* which of the two raised in the last call

storesVars == <<geoms, rows, saved, broken, raised>>

\* repaired: what the repair of an invalid geometry gives; nothing when it fails.
Geometry == [cells : SUBSET Cell, valid : BOOLEAN, repaired : SUBSET Cell]

ASSUME OffersAssumption == Offers \subseteq Geometry

\* validate_geometry and _repair: not empty, valid or made valid.
validate_geometry(g) ==
    IF g.cells = {} \/ (~g.valid /\ g.repaired = {}) THEN Rejected
    ELSE IF g.valid THEN g.cells ELSE g.repaired

StoresInit == geoms = <<>> /\ rows = <<>> /\ saved = <<>> /\ broken = FALSE /\ raised = {}

With(store, id, cells) == [k \in DOMAIN store \cup {id} |-> IF k = id THEN cells ELSE store[k]]

\* What a call leaves behind.
Accepted(store) == [store |-> store, raises |-> FALSE, fails |-> FALSE]
Declined(store) == [store |-> store, raises |-> TRUE, fails |-> FALSE]
FlushFailed == [store |-> saved, raises |-> TRUE, fails |-> TRUE]

\* GeometryStore.add: refused before it is validated.
AddInMemory(store, id, g, replace) ==
    IF id = "" \/ (~replace /\ id \in DOMAIN store) \/ validate_geometry(g) = Rejected
    THEN Declined(store)
    ELSE Accepted(With(store, id, validate_geometry(g)))

\* Faulty variant: a row that is there is always replaced.
AddRowReplacing(store, id, g, replace) ==
    IF id = "" \/ validate_geometry(g) = Rejected \/ broken THEN Declined(store)
    ELSE IF id \in Overlong THEN FlushFailed
    ELSE Accepted(With(store, id, validate_geometry(g)))

\* PostGISGeometryStore.add: validated first, then looked up, then flushed.  An id without
\* room fails the flush, which gives up what was not committed; until the caller rolls back,
\* the session refuses every lookup.
AddRow(store, id, g, replace) ==
    IF id = "" \/ validate_geometry(g) = Rejected \/ broken THEN Declined(store)
    ELSE IF id \in DOMAIN store /\ ~replace THEN Declined(store)
    ELSE IF id \in Overlong THEN FlushFailed
    ELSE Accepted(With(store, id, validate_geometry(g)))

Add(backend, store, id, g, replace) ==
    IF backend = "memory" THEN AddInMemory(store, id, g, replace) ELSE AddRow(store, id, g, replace)

\* One item of a list: those after a refused one are not looked at.
Extension(backend, s, item) ==
    IF s.raises THEN s ELSE Add(backend, s.store, item.id, item.geometry, FALSE)

\* extend: one after the other; those before a refused one stay.
Extended(backend, store, items) ==
    LET all[n \in 0..Len(items)] ==
            IF n = 0 THEN Accepted(store) ELSE Extension(backend, all[n - 1], items[n])
    IN all[Len(items)]

Hold(m, r) ==
    /\ geoms' = m.store /\ rows' = r.store
    /\ broken' = (broken \/ r.fails)
    /\ raised' = (IF m.raises THEN {"memory"} ELSE {}) \cup (IF r.raises THEN {"postgis"} ELSE {})
    /\ UNCHANGED saved

add(id, g, replace) ==
    Hold(Add("memory", geoms, id, g, replace), Add("postgis", rows, id, g, replace))

extend(items) == Hold(Extended("memory", geoms, items), Extended("postgis", rows, items))

\* The caller's commit, and the rollback it owes after a flush that failed.
CommitRows == ~broken /\ saved' = rows /\ UNCHANGED <<geoms, rows, broken, raised>>
RollBackRows == broken /\ broken' = FALSE /\ UNCHANGED <<geoms, rows, saved, raised>>

StoresNext ==
    \/ \E id \in Id, g \in Offers, replace \in BOOLEAN : add(id, g, replace)
    \/ \E i, j \in Id, g, h \in Offers :
          extend(<<[id |-> i, geometry |-> g], [id |-> j, geometry |-> h]>>)
    \/ CommitRows \/ RollBackRows

StoresSpec == StoresInit /\ [][StoresNext]_storesVars

-----------------------------------------------------------------------------
\* Memory has taken an id the database has no room for.
Parted == DOMAIN geoms \cap Overlong # {}

Stocked(store) == \A id \in DOMAIN store : id # "" /\ store[id] # {}

(* Hazard: the stores check in another order, replace, stop half way in a  *)
(* list, and one of them loses its session to an id of more than 64        *)
(* characters (store.py:58, postgis.py:55,75).  Unless memory has taken    *)
(* such an id, after any calls both hold the same geometries, and both     *)
(* have raised or neither has; neither ever holds an empty geometry or an  *)
(* empty id, and the database holds no id it has no room for.              *)
StoresAgree ==
    /\ ~Parted => geoms = rows /\ raised \in {{}, {"memory", "postgis"}}
    /\ Stocked(geoms) /\ Stocked(rows) /\ Stocked(saved)
    /\ Overlong \cap (DOMAIN rows \cup DOMAIN saved) = {}
=============================================================================

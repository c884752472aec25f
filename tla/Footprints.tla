----------------------------- MODULE Footprints ------------------------------
(***************************************************************************)
(* From an uploaded route file to a footprint (ipermit_gis/ingest.py,      *)
(* geometry.py and the checks of services/api/ipermit_api/routers/         *)
(* uploads.py).  A KML document is a tree of elements [tag, tokens, kids]; *)
(* a token of a <coordinates> text is the number of a point, or Unreadable *)
(* (too few parts, not a number, nothing but blanks).  Zip archives,       *)
(* shapefile records and the geometry library are external: what they make *)
(* of the bytes is part of the file's description.                         *)
(***************************************************************************)
EXTENDS Lists

CONSTANTS
    Elements,   \* the elements of KML documents
    Height(_),  \* how deep an element is nested, at most MaxHeight
    MaxHeight,
    Uploads     \* the files consultants send

\* A document is finite: an element is higher than those in it.
ASSUME ElementsAssumption ==
    /\ {e.kids : e \in Elements} \subseteq Seq(Elements)
    /\ {e.tokens : e \in Elements} \subseteq Seq(Nat)
    /\ MaxHeight \in Nat /\ {Height(e) : e \in Elements} \subseteq 0..MaxHeight
    /\ \A e \in Elements : \A k \in DOMAIN e.kids : Height(e.kids[k]) < Height(e)

\* The documents an upload can hold, itself or in its archive.
DocumentsIn(u) == {u.text.root} \cup {member.text.root : member \in Range(u.archive.members)}

\* Names are numbered in their order.
ASSUME UploadsAssumption ==
    /\ UNION {DocumentsIn(u) : u \in Uploads} \subseteq Elements
    /\ \A u \in Uploads : /\ DOMAIN u.archive.members \subseteq Nat
                          /\ \A member \in Range(u.archive.members) : member.name \in Nat

VARIABLES
    upload,     \* the file
    result      \* the answer

footprintVars == <<upload, result>>

Unreadable == 0

Error(status) == [status |-> status, geometries |-> <<>>]

-----------------------------------------------------------------------------
(* KML                                                                     *)

\* The element and its descendants in document order.
Descendants[e \in Elements] ==
    <<e>> \o FlattenSeq([k \in DOMAIN e.kids |-> Descendants[e.kids[k]]])

\* _parse_coordinates: unreadable tokens are dropped.
_parse_coordinates(tokens) == Picked(tokens, {i \in DOMAIN tokens : tokens[i] # Unreadable})

\* The text of the first element that has any.
_find_coordinates_text(all) ==
    LET texts == {i \in DOMAIN all : all[i].tag = "coordinates" /\ all[i].tokens # <<>>}
        first == CHOOSE i \in texts : \A j \in texts : i <= j
    IN IF texts = {} THEN <<>> ELSE all[first].tokens

Coordinates(e) == _parse_coordinates(_find_coordinates_text(Descendants[e]))

\* Faulty variant: rings are taken as they come.
RingAsGiven(boundary) == Coordinates(boundary)

Closed(points) ==
    IF points # <<>> /\ Head(points) # Last(points) THEN Append(points, Head(points)) ELSE points

\* The ring is closed if it is not.
_ring_coords(boundary) == Closed(Coordinates(boundary))

\* _find_child_by_local and _find_children_by_local: the first outer boundary, every inner one.
BoundariesOf(e) ==
    LET Tag(k) == e.kids[k].tag
    IN {k \in DOMAIN e.kids :
          \/ Tag(k) = "innerBoundaryIs"
          \/ Tag(k) = "outerBoundaryIs" /\ \A j \in 1..(k - 1) : Tag(j) # "outerBoundaryIs"}

\* _kml_polygon_to_geojson: the outer ring, then the inner ones; those without a readable
\* point are left out, so an inner ring may come first.
_kml_polygon_to_geojson(e) ==
    LET Tag(k) == e.kids[k].tag
        Before(j, k) == IF Tag(j) = Tag(k) THEN j < k ELSE Tag(j) = "outerBoundaryIs"
        order == InOrder({k \in BoundariesOf(e) : _ring_coords(e.kids[k]) # <<>>}, Before)
    IN [i \in DOMAIN order |-> _ring_coords(e.kids[order[i]])]

\* _kml_element_to_geojson, as a sequence of at most one geometry; a point is its first one.
_kml_element_to_geojson(e) ==
    LET points == Coordinates(e)
        rings == _kml_polygon_to_geojson(e)
    IN CASE e.tag = "Polygon" /\ rings # <<>>     -> <<[type |-> "Polygon", rings |-> rings]>>
         [] e.tag = "Point" /\ points # <<>>      -> <<[type |-> "Point", rings |-> <<<<Head(points)>>>>]>>
         [] e.tag = "LineString" /\ points # <<>> -> <<[type |-> "LineString", rings |-> <<points>>]>>
         [] OTHER                                 -> <<>>

\* _collect_kml_geometries: every element, but none inside a polygon.
_collect_kml_geometries[e \in Elements] ==
    _kml_element_to_geojson(e) \o
    IF e.tag = "Polygon" THEN <<>>
    ELSE FlattenSeq([k \in DOMAIN e.kids |-> _collect_kml_geometries[e.kids[k]]])

\* parse_kml: text that is blank or no XML gives no geometries, which is an error too.
parse_kml(text) == IF text.xml THEN _collect_kml_geometries[text.root] ELSE <<>>

-----------------------------------------------------------------------------
(* Archives                                                                *)

\* _select_kml_member: doc.kml, wherever it lies, else the first by name.
_select_kml_member(members) ==
    LET kml == {m \in DOMAIN members : members[m].suffix = ".kml"}
        doc == {m \in kml : members[m].doc}
        pool == IF doc # {} THEN doc ELSE kml
        Rank(m) == IF doc # {} THEN m ELSE members[m].name
    IN IF kml = {} THEN 0 ELSE CHOOSE m \in pool : \A n \in pool : Rank(m) <= Rank(n)

\* parse_kmz: a damaged member raises what nobody catches.
parse_kmz(archive) ==
    LET m == _select_kml_member(archive.members)
    IN IF ~archive.zip \/ m = 0 THEN Error(422)
       ELSE IF archive.members[m].damaged THEN Error(500)
       ELSE [Error(200) EXCEPT !.geometries = parse_kml(archive.members[m].text)]

\* parse_shapefile: a zip with a .shp member, the last one, or a bare .shp; null shapes go.
parse_shapefile(archive) ==
    LET shp == {m \in DOMAIN archive.members : archive.members[m].suffix = ".shp"}
        last == CHOOSE m \in shp : \A n \in shp : n <= m
        Real(g) == g.type # "Null"
    IN IF shp = {} THEN Error(422)
       ELSE IF archive.members[last].damaged THEN Error(IF archive.zip THEN 500 ELSE 422)
       ELSE [Error(200) EXCEPT !.geometries = SelectSeq(archive.members[last].shapes, Real)]

-----------------------------------------------------------------------------
(* The footprint                                                           *)

\* from_geojson: shapely wants two points of a line and four of a ring.
Buildable(g) ==
    CASE g.type = "Point"      -> TRUE
      [] g.type = "LineString" -> Len(g.rings[1]) >= 2
      [] g.type = "Polygon"    -> \A i \in DOMAIN g.rings : Len(g.rings[i]) >= 4

\* normalize_footprint and validate_geometry: the union of all, valid or repaired.
normalize_footprint(parsed, repairs) ==
    LET gs == parsed.geometries
    IN IF parsed.status # 200 THEN parsed
       ELSE IF gs = <<>> \/ (\E i \in DOMAIN gs : ~Buildable(gs[i])) \/ ~repairs THEN Error(422)
       ELSE parsed

\* _footprint, after the checks of upload_footprint: the extension, then the size.
Footprint(u) ==
    IF u.ext \notin {".kml", ".kmz", ".zip"} THEN Error(415)
    ELSE IF u.oversize THEN Error(413)
    ELSE normalize_footprint(
           CASE u.ext = ".kml" -> [Error(200) EXCEPT !.geometries = parse_kml(u.text)]
             [] u.ext = ".kmz" -> parse_kmz(u.archive)
             [] u.ext = ".zip" -> parse_shapefile(u.archive), u.repairs)

FootprintsInit == upload \in Uploads /\ result = Error(0)

UploadFootprint == result.status = 0 /\ result' = Footprint(upload) /\ UNCHANGED upload

FootprintsNext == UploadFootprint

FootprintsSpec == FootprintsInit /\ [][FootprintsNext]_footprintVars

-----------------------------------------------------------------------------
(* What a document has, wherever the code looks.                           *)

\* Every element below e: the way to it, child by child, and the tags of those it lies in.
Places[e \in Elements] ==
    {[way |-> <<>>, element |-> e, within |-> {}]} \cup
    UNION {{[way |-> <<k, p.way>>, element |-> p.element, within |-> p.within \cup {e.tag}] :
              p \in Places[e.kids[k]]} : k \in DOMAIN e.kids}

\* The texts of coordinates somewhere in e.
Texts(e) == {p.element.tokens : p \in {q \in Places[e] : q.element.tag = "coordinates"}}

\* The points are the readable tokens of the text, in their order.
IsReadingOf(points, text) ==
    \E at \in Bijection(DOMAIN points, {i \in DOMAIN text : text[i] # Unreadable}) :
      /\ \A i \in DOMAIN points : points[i] = text[at[i]]
      /\ \A i, j \in DOMAIN points : i < j => at[i] < at[j]

\* A closed ring of the points of a boundary.
IsRingOf(ring, boundary) ==
    /\ Head(ring) = Last(ring)
    /\ \E t \in Texts(boundary) : IsReadingOf(ring, t) \/ IsReadingOf(Front(ring), t)

ReadableBoundaries(e) == {k \in BoundariesOf(e) : Coordinates(e.kids[k]) # <<>>}

\* A geometry can be made of the element.
Usable(e) ==
    \/ e.tag \in {"Point", "LineString"} /\ Coordinates(e) # <<>>
    \/ e.tag = "Polygon" /\ ReadableBoundaries(e) # {}

\* The geometry is what the element draws.
IsDrawnBy(g, e) ==
    /\ g.type = e.tag
    /\ e.tag = "Point" =>
         \E t \in Texts(e) : \E i \in DOMAIN t :
           /\ t[i] # Unreadable /\ \A j \in 1..(i - 1) : t[j] = Unreadable
           /\ g.rings = <<<<t[i]>>>>
    /\ e.tag = "LineString" =>
         Len(g.rings) = 1 /\ \E t \in Texts(e) : IsReadingOf(g.rings[1], t)
    /\ e.tag = "Polygon" =>
         \E source \in Bijection(DOMAIN g.rings, ReadableBoundaries(e)) :
           \A i \in DOMAIN g.rings : IsRingOf(g.rings[i], e.kids[source[i]])

\* The elements that are to be drawn: usable, and in no polygon.
Drawn(e) == {p \in Places[e] : "Polygon" \notin p.within /\ Usable(p.element)}

\* The document a footprint is made of.
DocumentOf(u) ==
    IF u.ext = ".kml" THEN u.text.root
    ELSE u.archive.members[_select_kml_member(u.archive.members)].text.root

(* Hazard: nested folders, several boundaries and unreadable tokens        *)
(* (ingest.py:236-312).  A footprint made of a KML document, in an archive *)
(* or not, has one geometry for every point, line and polygon that has a   *)
(* readable point and lies in no polygon, and no other; a point is the     *)
(* first that its text has, a line all of them in their order; a polygon   *)
(* has one ring for every boundary with a readable point, which is closed  *)
(* and has just the points of a text in that boundary, in their order.     *)
FootprintsComeFromTheFile ==
    result.status = 200 /\ upload.ext \in {".kml", ".kmz"} =>
        \E source \in Bijection(DOMAIN result.geometries, Drawn(DocumentOf(upload))) :
          \A i \in DOMAIN result.geometries :
            IsDrawnBy(result.geometries[i], source[i].element)
=============================================================================

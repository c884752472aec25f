---------------------------- MODULE MCOperations -----------------------------
(* The components around the engine for TLC.  They share no variable but the *)
(* clock and call none of each other's operations, so nothing is lost by     *)
(* letting one of them, the focus of a behaviour, move alone while the       *)
(* others stay in one of their initial states.                               *)
EXTENDS LoginLimiter, Identity, Entitlement, Deliverables, SourceHealth,
        RuleIngest, Jurisdictions, GeometryStores, Footprints, TLC

CONSTANTS w1, w2

VARIABLE focus

Workers == Permutations(Worker)

\* The last moment that matters to each component that reads the clock.
Horizon == [limiter |-> 5, identity |-> 3, entitlement |-> 4]

Parts == DOMAIN Horizon \cup
         {"deliverables", "sources", "ingest", "jurisdictions", "stores", "footprints"}

Init ==
  /\ focus \in Parts
  /\ focus = "footprints" \/ upload = CHOOSE u \in Uploads : TRUE
  /\ LimiterInit /\ IdentityInit /\ EntitlementInit /\ DeliverablesInit /\ SourceInit
  /\ IngestInit /\ JurisdictionsInit /\ StoresInit /\ FootprintsInit
  /\ focus # "identity" => published = {}
  /\ focus # "sources" => rule.confidence_tier = 1

\* One component moves; the others, and the clock if it reads none, do not.
Only(part) ==
  /\ UNCHANGED focus
  /\ part \in DOMAIN Horizon => now' <= Horizon[part]
  /\ part \notin DOMAIN Horizon => UNCHANGED now
  /\ part # "limiter" => UNCHANGED limiterVars
  /\ part # "identity" => UNCHANGED identityVars
  /\ part # "entitlement" => UNCHANGED entitlementVars
  /\ part # "deliverables" => UNCHANGED deliverablesVars
  /\ part # "sources" => UNCHANGED sourceVars
  /\ part # "ingest" => UNCHANGED ingestVars
  /\ part # "jurisdictions" => UNCHANGED parent
  /\ part # "stores" => UNCHANGED storesVars
  /\ part # "footprints" => UNCHANGED footprintVars

Next ==
  \/ focus = "limiter" /\ LimiterNext /\ Only("limiter")
  \/ focus = "identity" /\ IdentityNext /\ Only("identity")
  \/ focus = "entitlement" /\ EntitlementNext /\ Only("entitlement")
  \/ focus = "deliverables" /\ DeliverablesNext /\ Only("deliverables")
  \/ focus = "sources" /\ SourceNext /\ Only("sources")
  \/ focus = "ingest" /\ IngestNext /\ Only("ingest")
  \/ focus = "jurisdictions" /\ JurisdictionsNext /\ Only("jurisdictions")
  \/ focus = "stores" /\ StoresNext /\ Only("stores")
  \/ focus = "footprints" /\ FootprintsNext /\ Only("footprints")

allVars == <<focus, now, limiterVars, identityVars, entitlementVars, deliverablesVars,
             sourceVars, ingestVars, parent, storesVars, footprintVars>>

Spec == Init /\ [][Next]_allVars

-----------------------------------------------------------------------------
(* A consultant with one membership, who is edited later.                  *)

Consultant == {[active |-> TRUE, tenants |-> {1}, role |-> "consultant_user",
                capabilities |-> {}]}

\* What a check of a link finds, or a person who did not try it.
Findings == {[url_reachable |-> TRUE, form_changed |-> None],
             [url_reachable |-> FALSE, form_changed |-> None],
             [url_reachable |-> TRUE, form_changed |-> TRUE],
             [url_reachable |-> None, form_changed |-> None]}

\* The days around a quarter, half a year and a year.
Boundaries == {0, 1, 89, 90, 91, 180, 181, 365, 366}

-----------------------------------------------------------------------------
(* Rule files: one odd cell between good rows, and duplicate keys.         *)

Line(key, status, cells) == [key |-> key, status |-> status, comment |-> FALSE, cells |-> cells]
Good == [f \in Fields |-> "fine"]
Comment == [Line(0, "", Good) EXCEPT !.comment = TRUE]

\* The cells a file can really have.
Odd == {<<f, "blank">> : f \in Fields}
       \cup {<<f, "garbled">> : f \in {"tier", "citations", "body", "sequencing", "lists"}}
       \cup {<<f, "misshapen">> : f \in {"level", "tier", "citations", "lists"}}
       \cup {<<f, "foreign">> : f \in Fields \ {"verified", "effective_from"}}
       \cup {<<f, "unreal">> : f \in {"verified", "effective_from"}}
       \cup {<<"level", "kebab">>, <<"citations", "garbled item">>}

Between(status, odd) ==
  <<Line(1, "draft", Good), Line(2, status, [Good EXCEPT ![odd[1]] = odd[2]]), Line(3, "draft", Good)>>

RuleFiles ==
  {Between(status, odd) : odd \in Odd, status \in {"draft", "effective"}}
  \cup {Between("archived", <<f, "blank">>) : f \in {"effective_from", "lists"}}
  \cup {<<>>, <<Comment, Line(2, "effective", Good)>>,
        <<Line(4, "draft", Good), Comment, Line(4, "draft", Good)>>}

-----------------------------------------------------------------------------
(* Geometries of two places: sound, repaired, beyond repair, and empty.    *)

Shape(cells, valid, repaired) == [cells |-> cells, valid |-> valid, repaired |-> repaired]

Offered == {Shape({"c1"}, TRUE, {}), Shape({"c1", "c2"}, FALSE, {"c2"}),
            Shape({"c1"}, FALSE, {}), Shape({}, TRUE, {})}

-----------------------------------------------------------------------------
(* Route files.                                                            *)

Element(tag, kids) == [tag |-> tag, tokens |-> <<>>, kids |-> kids]
Text(tokens) == [tag |-> "coordinates", tokens |-> tokens, kids |-> <<>>]
Boundary(tag, tokens) == Element(tag, <<Element("LinearRing", <<Text(tokens)>>)>>)

Tokens == {<<>>, <<Unreadable>>, <<1>>, <<1, Unreadable, 2>>, <<2, 1>>,
           <<1, 2, Unreadable, 3, 4>>, <<1, 2, 3, 1>>}

Shapes == {Element(tag, <<Text(t)>>) : tag \in {"Point", "LineString"}, t \in Tokens}
          \cup {Element("Polygon", <<Boundary("outerBoundaryIs", t), Boundary("innerBoundaryIs", u)>>) :
                  t \in Tokens, u \in Tokens}
          \cup {Element("Polygon", <<>>), Element("Point", <<>>),
                Element("Polygon", <<Text(<<1>>)>>),
                Element("Point", <<Text(<<Unreadable>>), Text(<<1>>)>>),
                Element("LineString", <<Element("Point", <<Text(<<>>)>>), Text(<<2, 1>>)>>),
                Element("Polygon", <<Boundary("outerBoundaryIs", <<Unreadable>>),
                                     Boundary("outerBoundaryIs", <<1, 2, 3>>)>>),
                Element("Polygon", <<Boundary("innerBoundaryIs", <<3, 2, 1>>),
                                     Element("Point", <<Text(<<1>>)>>)>>)}

Document(root) == [xml |-> TRUE, root |-> root]
NoDocument == [xml |-> FALSE, root |-> Element("kml", <<>>)]

\* A shape in a folder next to one in a folder of its own.
Documents == {Document(Element("kml", <<s, Element("Folder", <<t>>)>>)) :
                s \in Shapes, t \in {u \in Shapes : u.tag # "Polygon" \/ Len(u.kids) < 2}}
             \cup {NoDocument, Document(Element("kml", <<>>))}

NoArchive == [zip |-> FALSE, members |-> <<>>]
Upload(ext, text, archive) ==
  [ext |-> ext, oversize |-> FALSE, repairs |-> TRUE, text |-> text, archive |-> archive]

Member(name, suffix, doc, damaged, tokens) ==
  [name |-> name, suffix |-> suffix, doc |-> doc, damaged |-> damaged,
   text |-> Document(Element("Point", <<Text(tokens)>>)),
   shapes |-> IF damaged THEN <<>>
              ELSE <<[type |-> "Null", rings |-> <<>>], [type |-> "Point", rings |-> <<tokens>>]>>]

Members == {Member(n, suffix, doc, damaged, <<n>>) :
              n \in 1..2, suffix \in {".kml", ".shp", ".png"}, doc, damaged \in BOOLEAN}

RouteFiles ==
  {Upload(".kml", d, NoArchive) : d \in Documents}
  \cup {Upload(ext, NoDocument, [zip |-> zip, members |-> ms]) :
          ext \in {".kmz", ".zip"}, zip \in BOOLEAN,
          ms \in {<<>>} \cup {<<m>> : m \in Members}
                 \cup {<<Member(2, s, FALSE, FALSE, <<2>>), Member(1, t, doc, FALSE, <<1>>)>> :
                         s, t \in {".kml", ".shp"}, doc \in BOOLEAN}}
  \cup {[Upload(".kml", Document(Element("Point", <<Text(<<1>>)>>)), NoArchive)
           EXCEPT !.ext = e, !.oversize = o, !.repairs = r] :
          e \in {".kml", ".pdf"}, o, r \in BOOLEAN}

\* The elements of all these, and how deep each is nested.
RECURSIVE Within(_)
Within(e) == {e} \cup UNION {Within(e.kids[k]) : k \in DOMAIN e.kids}

KmlElements == UNION {UNION {Within(d) : d \in DocumentsIn(u)} : u \in RouteFiles}

KmlHeight[e \in KmlElements] ==
  LET below == {KmlHeight[e.kids[k]] : k \in DOMAIN e.kids} IN 1 + Max(below \cup {-1})

HeightOf(e) == KmlHeight[e]
=============================================================================

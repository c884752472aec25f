---------------------------- MODULE MCEvaluation ----------------------------
(* Evaluation for TLC.  Catalogues of arguments, one for each question:      *)
(* every operator against every type of value, trees with a defect beside a  *)
(* child that decides, pairs of rules on one field, versions on the days     *)
(* around their windows, overlays that replace a rule, consultants'          *)
(* overrides, and rules that conflict, wait for one another or form a cycle. *)
EXTENDS Evaluation

acres == "project.acres"
flood == "geometry.flood"
type  == "project.type"

Citations == <<[reference |-> "a", citation_type |-> "statute"],
               [reference |-> "b", citation_type |-> "form"],
               [reference |-> "a", citation_type |-> "website"]>>

\* A schema-valid rule.
Rule(n, tree) ==
  [rule_id |-> n, version |-> <<1, 0>>, status |-> "draft", title |-> "t",
   effective_from |-> NoDate, effective_to |-> NoDate,
   jurisdiction_id |-> 1, jurisdiction_level |-> "federal",
   applicable_project_types |-> {"road"}, triggers |-> tree,
   permits |-> {"permit"}, forms |-> {"form"}, agencies |-> {"agency"},
   supersedes |-> {}, prerequisites |-> <<>>, typical_lead_time_days |-> n,
   source_citations |-> Citations, last_verified |-> 30, reviewer |-> "r",
   confidence_tier |-> 3, known_unknowns |-> <<"k", " ", "">>,
   advisories |-> <<[text |-> "a", signals |-> {"discretion"}],
                    [text |-> "", signals |-> {"coordinate"}]>>]

Federal == (1 :> [level |-> "federal", source |-> "manual_entry"])

Argument(rules, project, overlays) ==
  [rules |-> rules, overlay |-> NoOverlay, governing_only |-> FALSE,
   detection |-> [jurisdictions |-> Federal, overlays |-> overlays],
   jurisdiction_overrides |-> <<>>, overlay_overrides |-> <<>>,
   project |-> project, project_types |-> {"road"}, evaluation_date |-> 400]

-----------------------------------------------------------------------------
(* Operators and trees.                                                    *)

Numbers == {Number(2), Number(3), Number(4)}
Lists   == {List(<<>>), List(<<Number(1), Words(<<1>>)>>), List(<<Bool(1)>>)}
Strings == {Words(<<1>>), Words(<<1, 2>>)}
Values  == Numbers \cup Lists \cup Strings \cup {Date(3), Bool(1), Number(1), Null}

Leaves1 == {Leaf(acres, op, v) :
              op \in OPERATOR_KEYS \cup {"like"},
              v \in {Number(1), Number(3), Date(3), Bool(1), Words(<<1>>), Null} \cup Lists}

\* Leaves that hold, do not hold, miss their field or refuse its value when the
\* area is 3.
Holding == Leaf(acres, ">", Number(2))
Failing == Leaf(acres, "<", Number(2))
Missing == Leaf(type, "=", Words(<<1>>))
Refused == Leaf(acres, "contains", Number(2))

Some == {Holding, Failing, Missing, Refused, Malformed, AllOf(<<>>)}

Trees == UNION {{AllOf(<<a, b>>), AnyOf(<<a, b>>), NotOf(AnyOf(<<a, b>>)),
                 AnyOf(<<Holding, AllOf(<<a, b>>)>>)} : a \in Some, b \in Some}

Operators ==
  {Argument(<<Rule(1, leaf)>>, project, <<>>) :
     leaf \in Leaves1, project \in {<<>>} \cup {(acres :> v) : v \in Values}}

TreeArguments ==
  {[Argument(<<Rule(1, tree), [Rule(2, other) EXCEPT !.jurisdiction_id = j]>>,
             (acres :> Number(3)), (flood :> Null))
      EXCEPT !.project_types = types] :
     tree \in Trees, other \in {Leaf(flood, "exists", Null), Malformed},
     j \in {1, 3}, types \in {{"road"}, {"rail"}}}

\* Two rules on one field: every pair of comparisons and of thresholds.
Comparisons == {Leaf(acres, op, v) : op \in _ORDERED_OPS, v \in {Number(2), Number(4), Number(6)}}
OnOneField ==
  {Argument(rules, (acres :> Number(4)), <<>>) : rules \in UNION {
     {<<Rule(1, a), Rule(2, b)>>, <<Rule(2, b), Rule(1, a)>>} :
     a \in Comparisons \cup {Leaf(acres, "=", Null), Leaf(acres, "=", Words(<<2>>))},
     b \in Comparisons \cup {NotOf(AnyOf(<<Holding, Leaf(acres, ">", Number(6))>>)),
                             AllOf(<<Failing, Leaf(acres, "<", Number(6))>>),
                             Leaf(acres, "=", Words(<<1>>)), Leaf(acres, "<", Date(3))}}}

-----------------------------------------------------------------------------
(* Versions and overlays.                                                  *)

Version(n, key, pad, status, from, to, tree) ==
  [Rule(n, tree) EXCEPT !.version = <<key, pad>>, !.status = status,
     !.effective_from = from, !.effective_to = to]

\* Two versions of a rule, the later one of which may not fire.
History ==
  {<<Version(1, 1, 0, sa, fa, ta, Holding), Version(1, kb, 1, sb, fb, tb, tree)>> :
     sa \in {"effective", "archived"}, fa \in {1, 2}, ta \in {NoDate, 2, 3},
     kb \in {1, 2, 10}, sb \in {"effective", "published"}, fb \in {NoDate, 1, 2},
     tb \in {NoDate, 3}, tree \in {Holding, Failing}}

On(args, date, governing) ==
  {[a EXCEPT !.evaluation_date = date, !.governing_only = governing] : a \in args}

Historical ==
  UNION {On({Argument(h \o <<Rule(2, Failing)>>, (acres :> Number(3)), <<>>) : h \in History},
            day, TRUE) : day \in 1..4}

\* Taken as they come, the versions of a rule are all evaluated; no two fire.
Direct ==
  {[Argument(<<Version(1, 1, 0, "draft", NoDate, NoDate, a),
              Version(1, 2, 0, "draft", NoDate, NoDate, b)>>, (acres :> Number(3)), <<>>)
      EXCEPT !.overlay = overlay] :
     overlay \in {NoOverlay, [upsert |-> <<>>, remove |-> {}]},
     <<a, b>> \in {<<Holding, Failing>>, <<Failing, Holding>>, <<Failing, Failing>>}}

Changed1 == {Holding, Failing, Missing, Leaf(acres, "=", Number(1)), Leaf(acres, "=", Bool(1)),
             AllOf(<<Holding>>), AllOf(<<Holding, Missing>>), AllOf(<<Holding, Missing, Failing>>),
             AllOf(<<Missing, Holding>>), AnyOf(<<Holding, AllOf(<<Holding>>)>>),
             AnyOf(<<Holding, AllOf(<<Missing, Failing>>)>>), NotOf(Holding), NotOf(Failing)}

Overlaid ==
  {[Argument(<<Rule(1, a), Rule(2, Holding)>>, (acres :> Number(n)), <<>>)
      EXCEPT !.overlay = [upsert |-> <<Version(1, key, 0, "draft", NoDate, NoDate, b),
                                       Rule(3, Holding)>>, remove |-> remove]] :
     a \in Changed1, b \in Changed1, key \in {1, 2}, n \in {1, 3}, remove \in {{}, {2}}}

-----------------------------------------------------------------------------
(* Overrides, and several rules.                                           *)

\* Two stored areas, and a footprint that touches one of them or none.
Detected ==
  {detect((1 :> cells), ref, (1 :> {1, 2, 3}) @@ (2 :> {1}) @@ (3 :> {2}),
          <<"federal", "state", "municipality">>, us) :
     cells \in {{1}, {2, 3}, {4}}, ref \in {1, 2}}

Override(action, n) ==
  [action |-> action, key |-> n, value |-> [level |-> "county", source |-> "user_override"]]
OverlayOverride(action, value) == [action |-> action, key |-> flood, value |-> value]

Overridden ==
  {[Argument(<<Rule(1, Leaf(flood, "exists", Null))>>, <<>>, <<>>)
      EXCEPT !.detection = [d EXCEPT !.overlays = overlays],
             !.jurisdiction_overrides = j, !.overlay_overrides = o] :
     d \in Detected, overlays \in {<<>>, (flood :> Number(1))},
     j \in {<<>>, <<Override("remove", 1), Override("add", 1)>>, <<Override("rename", 2)>>}
            \cup {<<Override(a, m), Override(b, n)>> : a, b \in {"add", "remove"}, m, n \in {2, 3}},
     o \in {<<>>, <<OverlayOverride("set", Number(2)), OverlayOverride("set", Null)>>,
            <<OverlayOverride("remove", Null), OverlayOverride("set", Number(1))>>}}

\* Rules of two jurisdictions with a shared permit, prerequisites and a
\* supersession, and a chain with a level of the user's own.
Several ==
  {[Argument(<<[Rule(1, Holding) EXCEPT !.prerequisites = p1],
               [Rule(2, Holding) EXCEPT !.jurisdiction_id = 2, !.jurisdiction_level = "state",
                                        !.prerequisites = p2, !.supersedes = s,
                                        !.confidence_tier = tier, !.last_verified = verified],
               [Rule(3, Missing) EXCEPT !.permits = {}]>>, (acres :> Number(3)), <<>>)
      EXCEPT !.detection.jurisdictions =
        Federal @@ (2 :> [level |-> level, source |-> "manual_entry"])] :
     p1 \in {<<>>, <<2>>, <<3, 2>>}, p2 \in {<<>>, <<1>>}, s \in {{}, {<<1, <<1, 0>>>>}},
     tier \in {1, NoTier}, verified \in {Unreadable, NoDate, 34, 35, 401},
     level \in {"state", "unheard of"}}

Catalogue ==
  Operators \cup TreeArguments \cup OnOneField \cup Historical \cup Direct
    \cup Overlaid \cup Overridden \cup Several

NoRequests == {<<>>}
=============================================================================

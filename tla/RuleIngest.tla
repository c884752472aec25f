------------------------------ MODULE RuleIngest -----------------------------
(***************************************************************************)
(* Loading rule files into the regulatory store                            *)
(* (ipermit_regulatory/ingest.py, repository.py and the RegulatoryRule     *)
(* table of models.py).  A file is read row by row: each row is            *)
(* normalized, validated against the rule schema and added to the caller's *)
(* session; the first bad row stops the reading.  The session, and the     *)
(* choice to commit what was added before, are the caller's.               *)
(*                                                                         *)
(* A cell is what the code can tell about it: "fine", "blank", "garbled"   *)
(* (not a number, not JSON), "misshapen" (readable, but a number or an     *)
(* object where a list or a text is wanted), "foreign" (of the right       *)
(* shape, but not what the schema allows), "unreal" (a date no calendar    *)
(* has, which the schema lets pass: formats are not asserted), "kebab" (a  *)
(* level spelt with dashes).                                               *)
(***************************************************************************)
EXTENDS Naturals, Sequences, FiniteSets, SequencesExt

CONSTANTS
    Files,        \* the files that may be loaded: sequences of rows, each with its key,
                  \* its status, whether it is a comment, and its cells
    MaxLoads      \* bound: files read

VARIABLES
    rules,        \* committed RegulatoryRule rows
    load,         \* the file being read
    loads

ingestVars == <<rules, load, loads>>

\* lists: supersedes, known_unknowns, advisories and tags.
Fields == {"scalars", "level", "types", "tier", "effective_from", "verified", "citations",
           "body", "sequencing", "lists"}

Cells == {"fine", "blank", "garbled", "garbled item", "misshapen", "foreign", "unreal", "kebab"}

ASSUME FilesAssumption ==
    \A file \in Files :
        /\ file \in Seq(Range(file))
        /\ \A row \in Range(file) : /\ row.comment \in BOOLEAN
                                    /\ row.cells \in [Fields -> Cells]
                                    /\ row.cells["scalars"] # "misshapen"   \* taken as text

Required == {"scalars", "level", "types", "tier", "citations", "verified", "body"}

Raised(error) == [error |-> error]

Raises(doc) == DOMAIN doc = {"error"}

\* Blank cells are omitted, but for the lists the schema requires and last_verified; JSON that
\* cannot be read is omitted too, and so is an optional list that is none.  A level is
\* normalised; the text of anything but a date is a date no calendar has.
Normalized(f, cell) ==
    CASE cell = "blank" -> IF f \in {"types", "citations"} THEN "foreign"   \* the empty list
                           ELSE IF f = "verified" THEN "unreal"            \* the empty string
                           ELSE "absent"
      [] cell = "garbled" /\ f = "citations"                     -> "foreign"
      [] cell = "garbled" /\ f \in {"body", "sequencing", "lists"} -> "absent"
      [] cell = "misshapen" /\ f = "lists"                       -> "absent"
      [] cell \notin {"fine", "blank"} /\ f \in {"effective_from", "verified"} -> "unreal"
      [] cell = "kebab" /\ f = "level"                           -> "fine"
      [] OTHER                                                   -> cell

\* normalize: a number, or a citation inside a list, that cannot be read is an error; so are
\* a level that is no text, with an error that is not caught, and citations that are no list.
normalize(row) ==
    IF row.cells["level"] = "misshapen" THEN Raised("attribute_error")
    ELSE IF \/ row.cells["tier"] \in {"garbled", "misshapen"}
            \/ row.cells["citations"] \in {"garbled item", "misshapen"}
    THEN Raised("ingest_error")
    ELSE [f \in Fields |-> Normalized(f, row.cells[f])]

\* validate_rule: the schema, which wants a start date of a rule that is or was in effect.
SchemaAccepts(doc, status) ==
    /\ \A f \in Fields : doc[f] \in {"fine", "unreal"} \/ (doc[f] = "absent" /\ f \notin Required)
    /\ status \in {"effective", "archived"} => doc["effective_from"] # "absent"

\* _build_rule parses the dates.
DatesParse(doc) == \A f \in Fields : doc[f] # "unreal"

-----------------------------------------------------------------------------
NoLoad == [stage |-> "none"]

IngestInit == rules = {} /\ load = NoLoad /\ loads = 0

Start(file, dry_run) ==
    /\ load = NoLoad
    /\ loads < MaxLoads
    /\ loads' = loads + 1
    /\ load' = [stage |-> "reading", file |-> file, next |-> 1, dry_run |-> dry_run, pending |-> <<>>]
    /\ UNCHANGED rules

Stop(error) == load' = [load EXCEPT !.stage = error]

Added(row, doc) == [key |-> row.key, status |-> row.status, doc |-> doc, cells |-> row.cells,
                    load |-> loads, file |-> load.file, index |-> load.next]

\* Faulty variant: add_rule adds the row to the session before it validates it.
LoadAddingFirst(row) ==
    LET doc == normalize(row)
    IN IF Raises(doc) THEN Stop(doc.error)
       ELSE load' = [load EXCEPT !.next = @ + 1,
                        !.pending = IF load.dry_run THEN @ ELSE Append(@, Added(row, doc)),
                        !.stage = IF ~SchemaAccepts(doc, row.status) THEN "ingest_error" ELSE @]

\* _load_one and add_rule: a date that does not parse escapes as a plain ValueError.
_load_one(row) ==
    LET doc == normalize(row)
    IN IF Raises(doc) THEN Stop(doc.error)
       ELSE IF ~SchemaAccepts(doc, row.status) THEN Stop("ingest_error")
       ELSE IF load.dry_run THEN load' = [load EXCEPT !.next = @ + 1]
       ELSE IF ~DatesParse(doc) THEN Stop("value_error")
       ELSE load' = [load EXCEPT !.next = @ + 1, !.pending = Append(@, Added(row, doc))]

\* load_rules_from_csv skips comment rows; a JSON file has none.
ReadRow ==
    /\ load.stage = "reading" /\ load.next <= Len(load.file)
    /\ LET row == load.file[load.next]
       IN IF row.comment THEN load' = [load EXCEPT !.next = @ + 1] ELSE _load_one(row)
    /\ UNCHANGED <<rules, loads>>

Finish ==
    /\ load.stage = "reading" /\ load.next > Len(load.file)
    /\ Stop("loaded")
    /\ UNCHANGED <<rules, loads>>

LoadEnded == load # NoLoad /\ load.stage # "reading"

Keys(s) == {s[i].key : i \in DOMAIN s}

\* The caller commits, also after an error: a key the table has fails the flush.
CommitLoad ==
    /\ LoadEnded
    /\ rules' = IF Cardinality(Keys(load.pending)) < Len(load.pending)
                   \/ Keys(load.pending) \cap {r.key : r \in rules} # {}
                THEN rules ELSE rules \cup Range(load.pending)
    /\ load' = NoLoad
    /\ UNCHANGED loads

RollBack == LoadEnded /\ load' = NoLoad /\ UNCHANGED <<rules, loads>>

IngestNext ==
    \/ \E file \in Files, dry_run \in BOOLEAN : Start(file, dry_run)
    \/ ReadRow \/ Finish \/ CommitLoad \/ RollBack

IngestSpec == IngestInit /\ [][IngestNext]_ingestVars

-----------------------------------------------------------------------------
Bad(row) ==
    LET doc == normalize(row)
    IN ~row.comment /\ (Raises(doc) \/ ~SchemaAccepts(doc, row.status) \/ ~DatesParse(doc))

MayBeLost(f, cell) ==
    \/ cell = "blank"
    \/ f = "sequencing" /\ cell = "garbled"
    \/ f = "lists" /\ cell \in {"garbled", "misshapen"}

(* Hazard: a file fails in the middle, or at the commit, and the caller    *)
(* commits or not (ingest.py:251-271).  Every stored row satisfies the     *)
(* schema and has real dates; a key is stored once; a file's rows are      *)
(* stored together, up to its first bad row; and what a row said and the   *)
(* document does not is the sequencing, when it could not be read, or an   *)
(* optional list, when it could not be read or is none.                    *)
StoredRulesAreValid ==
    /\ \A r \in rules : SchemaAccepts(r.doc, r.status) /\ DatesParse(r.doc)
    /\ \A r, s \in rules : r.key = s.key => r = s
    /\ \A r \in rules, f \in Fields :
          r.doc[f] = "absent" => MayBeLost(f, r.cells[f])
    /\ \A r \in rules :
          {s.index : s \in {q \in rules : q.load = r.load}}
              = {i \in DOMAIN r.file : ~r.file[i].comment /\ \A j \in 1..i : ~Bad(r.file[j])}
=============================================================================

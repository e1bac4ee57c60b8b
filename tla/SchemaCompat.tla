---------------------------- MODULE SchemaCompat ----------------------------
(***************************************************************************)
(* check-compat of crates/actant-contracts/src/bin/cli.rs: each release of *)
(* the contract schemas is compared with the baseline the last one left,   *)
(* keyword by keyword, and becomes the next baseline.  A schema here has   *)
(* one type of each sort: an object with properties and required fields,   *)
(* and an enumeration.                                                     *)
(***************************************************************************)
EXTENDS Naturals, FiniteSets

CONSTANTS
    Fields,      \* property names
    Values,      \* values an enumeration may list
    MaxReleases  \* bound on releases

VARIABLES
    first,       \* the schemas of the first release
    baseline,    \* schemas.json as the last release left it
    releases

schemaVars == <<first, baseline, releases>>

\* A property is absent, of any type, or of a named type; "absent" stands
\* for a keyword or a definition that is not there.
Kinds == {"absent", "any", "string", "number"}
Schemas == [props : [Fields -> Kinds], required : SUBSET Fields,
            enum : SUBSET Values \cup {{"absent"}}, defined : BOOLEAN]
Absent == {"absent"}

-----------------------------------------------------------------------------
(* compare_schema_value, as the set of violations.                         *)

CompareScalarField(base, cur) == {f \in Fields :
    /\ base.props[f] \in {"string", "number"} /\ cur.props[f] # "absent"
    /\ cur.props[f] # base.props[f]}

CompareProperties(base, cur) == {f \in Fields : base.props[f] # "absent" /\ cur.props[f] = "absent"}

\* Fault: an enumeration that is gone is no restriction any more.
IgnoresRemoval(base, cur) ==
    IF base.enum = Absent \/ cur.enum = Absent THEN {} ELSE base.enum \ cur.enum

CompareEnum(base, cur) ==
    IF base.enum = Absent THEN {}
    ELSE IF cur.enum = Absent THEN {"enum removed"}
    ELSE base.enum \ cur.enum

\* Fault: only fields that are no longer required count.
DroppedOnly(base, cur) == base.required \ cur.required

CompareRequired(base, cur) ==
    (base.required \ cur.required) \cup (cur.required \ base.required)

HasProperties(s) == \E f \in Fields : s.props[f] # "absent"

CompatibilityViolations(base, cur) ==
    IF ~base.defined THEN {}
    ELSE IF ~cur.defined THEN {"type removed"}
    ELSE CompareEnum(base, cur) \cup
         (IF HasProperties(base)
          THEN CompareScalarField(base, cur) \cup CompareProperties(base, cur) \cup CompareRequired(base, cur)
          ELSE {})

-----------------------------------------------------------------------------
SchemaInit ==
    /\ first \in Schemas /\ baseline = first
    /\ releases = 0

\* current is what schemas() emits at the release.
CheckCompat(current) ==
    /\ releases < MaxReleases
    /\ CompatibilityViolations(baseline, current) = {}
    /\ baseline' = current /\ releases' = releases + 1
    /\ UNCHANGED first

SchemaNext == \E current \in Schemas : CheckCompat(current)

SchemaSpec == SchemaInit /\ [][SchemaNext]_schemaVars

-----------------------------------------------------------------------------
Documents == [fields : [Fields -> {"missing", "string", "number"}], value : Values]

Valid(doc, s) ==
    /\ s.enum = Absent \/ doc.value \in s.enum
    /\ \A f \in Fields :
          /\ f \in s.required => doc.fields[f] # "missing"
          /\ s.props[f] \in {"string", "number"} => doc.fields[f] \in {"missing", s.props[f]}

(* Releases that each passed the check against the one before are compatible
   with the first of them: no type, property, variant or requirement is lost
   over several steps none of which lost it.                               *)
CompatibleWithFirst ==
    CompatibilityViolations(first, baseline) = {}

(* A document the first release accepts is accepted by every later one, unless
   a release put a constraint where there had been none: a type on a property
   without one, an enumeration, or required fields on an object that had no
   properties.  The check does not look at those.                          *)
DocumentsStayValid ==
    \/ \E f \in Fields : first.props[f] \in {"absent", "any"} /\ baseline.props[f] \in {"string", "number"}
    \/ first.enum = Absent /\ baseline.enum # Absent
    \/ ~HasProperties(first) \/ ~first.defined
    \/ \A doc \in Documents : Valid(doc, first) => Valid(doc, baseline)
=============================================================================

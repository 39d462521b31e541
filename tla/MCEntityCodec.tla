--------------------------- MODULE MCEntityCodec ---------------------------
(***************************************************************************)
(* Entity classes of examples/basic_usage.py, as field descriptors:       *)
(* Person (lines 42-75), without full_name, which model_post_init derives, *)
(* and without work_address: it is a second private related_node_field    *)
(* handled by the same lines of the codec as home_address, which stands   *)
(* for both; Company (78-90), WorksFor (94-101), Knows (104-110) and      *)
(* Manages (113-118), with one to three values per field.                 *)
(***************************************************************************)
EXTENDS EntityCodec

CONSTANTS s1, s2, n0, n30, n40, c0, c1, l0, l1, a1, i1, h1, o0, o1,
          p1, p2, p3, d1, d2, m1, yes, no, f1, f2, st0, st1

MCValues == {s1, s2, n0, n30, n40, c0, c1, l0, l1, a1, i1, h1, o0, o1,
             p1, p2, p3, d1, d2, m1, yes, no, f1, f2, st0, st1}

Fd(name, how, label, json, rel_type, private, domain, default) ==
    [name |-> name, kind |-> how, label |-> label, json |-> json,
     rel_type |-> rel_type, private |-> private, domain |-> domain,
     default |-> default]

\* property_field(label=...), property_field(default=0)
FirstName == Fd("first_name", "simple", "first_name", FALSE, Null, FALSE, {s1, s2}, NoDefault)
LastName  == Fd("last_name", "simple", "last_name", FALSE, Null, FALSE, {s1, s2}, NoDefault)
Age       == Fd("age", "simple", Null, FALSE, Null, FALSE, {n0, n30, n40}, n0)
\* embedded_field(default_factory=...)
ContactInfo == Fd("contact_info", "embedded", Null, TRUE, Null, FALSE, {c0, c1}, c0)
Skills      == Fd("skills", "embedded", Null, TRUE, Null, FALSE, {l0, l1}, l0)
\* related_node_field(relationship_type="HAS_HOME_ADDRESS", private=True, default=None)
HomeAddress == Fd("home_address", "related", Null, FALSE, "HAS_HOME_ADDRESS", TRUE, {Null, a1}, Null)

\* The fields of Person stored as plain properties.
PersonSimple == <<FirstName, LastName, Age>>
Person == <<FirstName, LastName, Age, ContactInfo, Skills, HomeAddress>>

\* Company: name = property_field(index=True); industry and founded bare;
\* headquarters = embedded_field(); offices = embedded_field(default_factory=list)
CompanySimple ==
    << Fd("name", "simple", Null, FALSE, Null, FALSE, {s1, s2}, NoDefault),
       Fd("industry", "none", Null, FALSE, Null, FALSE, {i1}, NoDefault),
       Fd("founded", "none", Null, FALSE, Null, FALSE, {d1, d2}, NoDefault) >>
Company ==
    CompanySimple \o
    << Fd("headquarters", "embedded", Null, TRUE, Null, FALSE, {h1}, NoDefault),
       Fd("offices", "embedded", Null, TRUE, Null, FALSE, {o0, o1}, o0) >>

\* WorksFor: bare annotations; salary: Optional[float] = None; is_remote = False
Position == Fd("position", "none", Null, FALSE, Null, FALSE, {p1, p2, p3}, NoDefault)
WorksFor ==
    << Position,
       Fd("start_date", "none", Null, FALSE, Null, FALSE, {d1, d2}, NoDefault),
       Fd("salary", "none", Null, FALSE, Null, FALSE, {Null, m1}, Null),
       Fd("is_remote", "none", Null, FALSE, Null, FALSE, {yes, no}, no) >>

\* Knows: since; relationship_type = "friend"; strength = 1.0
Knows ==
    << Fd("since", "none", Null, FALSE, Null, FALSE, {d1, d2}, NoDefault),
       Fd("relationship_type", "none", Null, FALSE, Null, FALSE, {f1, f2}, f1),
       Fd("strength", "none", Null, FALSE, Null, FALSE, {st0, st1}, st1) >>

\* Manages: since; direct_report = True
Manages ==
    << Fd("since", "none", Null, FALSE, Null, FALSE, {d1, d2}, NoDefault),
       Fd("direct_report", "none", Null, FALSE, Null, FALSE, {yes, no}, yes) >>

\* WorksFor with position declared as property_field(index=True), as
\* Company.name is (line 82): a simple field with no label.
WorksForIndexed == [WorksFor EXCEPT ![1] = [Position EXCEPT !.kind = "simple"]]
\* A user class, not one of the examples, whose first_name is declared
\* property_field(label="last_name"): the storage label of its own
\* last_name field. Nothing in the schema rejects it.
Renamed == <<[FirstName EXCEPT !.label = "last_name"], LastName>>
MCPlainNodes == {PersonSimple, CompanySimple}
MCCollidingNodes == {Renamed}
MCNoRels == {}
MCNodes == {Person, Company}
MCRels == {WorksFor, Knows, Manages}
MCRelsIndexed == {WorksForIndexed}
=============================================================================

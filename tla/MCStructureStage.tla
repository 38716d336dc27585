--------------------------- MODULE MCStructureStage ---------------------------
(* Instances of StructureStage: custom sections of every type and fate,      *)
(* headings and parser leftovers among the lines, one text in two sections,  *)
(* and a source that is edited between two builds.                           *)
EXTENDS StructureStage

MCPhrase   == {"Go", "go", "C++", "C#", "AWS", "Award", "Skills", "Certs", "Hobbies", "Talks", "Lecture",
               "Lead", "lead", "added_tokens", "Helped with", "Supported", "Responsible for", "I",
               "ninja", "2x", "grew", "Managed tooling", "oling", "Oling", "Gurugram", "gram",
               "2019", "2021", "to", "now", "present", "Summer", "October"}
MCCasefold == [p \in MCPhrase |-> CASE p = "Go" -> "go" [] p = "Lead" -> "lead" [] p = "Oling" -> "oling"
                                    [] OTHER -> p]
MCTokens   == [p \in MCPhrase |-> CASE p \in {"Go", "go"} -> {"go"} [] p \in {"C++", "C#"} -> {"c"}
                                    [] p \in {"Lead", "lead"} -> {"lead", "team"} [] p = "Oling" -> {"oling"}
                                    [] OTHER -> {p}]
MCHeading  == [p \in MCPhrase |-> CASE p \in {"Go", "go"} -> "go" [] p = "C++" -> "c" [] p = "C#" -> "c"
                                    [] OTHER -> p]
MCField        == {"name", "summary", "engineer", "intern", "years", "since"}
MCFieldSection == [name |-> "basics", summary |-> "basics", engineer |-> "work", intern |-> "work",
                   years |-> "work", since |-> "projects"]
MCBulletFields == {"engineer", "intern"}
MCRoles        == <<"engineer", "intern">>
MCOpenerRules  == [p \in MCPhrase |->
                     CASE p = "Helped with" -> {"WEAK_OPENER", "VAGUE_IMPACT"}
                       [] p = "Responsible for" -> {"WEAK_OPENER"}
                       [] p = "I" -> {"FIRST_PERSON_OPENER"}
                       [] p = "Managed tooling" -> {"DUTY_PATTERN"} [] OTHER -> {}]
MCCut          == [p \in MCPhrase |-> IF p = "Managed tooling" THEN <<"oling">> ELSE <<>>]
MCStripped     == [p \in MCPhrase |-> CASE p = "ninja" -> <<>> [] p = "Gurugram" -> <<"gram">>
                                         [] OTHER -> <<p>>]
MCReplacement  == [p \in MCPhrase |-> IF p = "Helped with" THEN <<"Supported">> ELSE <<>>]
MCCapital      == [p \in MCPhrase |-> CASE p = "lead" -> "Lead" [] p = "go" -> "Go"
                                         [] p = "oling" -> "Oling" [] OTHER -> p]
MCAnswerTexts  == { << <<"grew", "2x">> >>, << <<"grew">>, <<"2x">> >>, <<>> }
MCAliases      == [h \in {"Skills", "Certs", "Talks"} |->
                     CASE h = "Skills" -> "skills" [] h = "Certs" -> "certifications"
                       [] h = "Talks" -> "publications"]
MCOverlays     == { [h \in {} |-> "other"], [h \in {"Talks"} |-> "languages"] }
MCSectionOrder == <<"basics", "work", "projects", "skills", "certifications", "awards", "publications",
                    "languages", "other">>

Plain(line) == [title |-> line, details |-> <<>>]
Strings(key, name, lines) ==
    [key |-> key, name |-> name, type |-> "strings", items |-> [i \in DOMAIN lines |-> Plain(lines[i])]]
Items(key, name, items) == [key |-> key, name |-> name, type |-> "items", items |-> items]
Prose(key, name, line)  == [key |-> key, name |-> name, type |-> "text", items |-> <<Plain(line)>>]
Resume(years, skills, certs, custom, meta, ids) ==
    [fields |-> [name |-> << <<"Lead">> >>, summary |-> << <<"Go", "Gurugram">> >>,
                 engineer |-> << <<"Responsible for", "lead", "ninja">>,
                                 <<"Managed tooling", "grew", "AWS">> >>,
                 intern |-> << <<"Helped with", "2x">> >>,
                 years |-> << years[1] >>, since |-> << years[2] >>],
     lists  |-> [skills |-> skills, certifications |-> certs, awards |-> << <<"Award">> >>,
                 languages |-> <<>>],
     custom |-> custom, meta |-> meta,
     ids |-> [engineer |-> ids[1], intern |-> ids[2]]]
Meta(key, name) == [key |-> key, name |-> name]

Hobbies == Strings("a", "Hobbies", << <<"Hobbies">>, <<"Lead">>, <<"added_tokens">> >>)
HobbiesShifted == Strings("a", "Hobbies", << <<"AWS">>, <<"Lead">> >>)
Talks   == Items("b", "Talks", << [title |-> <<"AWS">>, details |-> << <<"Lecture">>, <<>> >>] >>)
Certs   == Items("c", "Certs", << Plain(<<"AWS">>), Plain(<<"C++">>) >>)
OnlyHeading == Strings("b", "Talks", << <<"Talks">> >>)
Skills  == Strings("d", "Skills", << <<"Skills">>, <<"C++", "C#">>, <<"AWS">> >>)

MCSources ==
    { Resume(<< <<"2019", "to", "now">>, <<"2019", "Summer">> >>, << <<"Go", "C++">>, <<"AWS">> >>, << <<"AWS">> >>, <<Hobbies, Talks, Skills>>,
             <<Meta("basics", "Lead"), Meta("d", "Skills"), Meta("work", "Lead")>>, <<1, 2>>),
      Resume(<< <<"Summer", "2021">>, <<"2019", "2021">> >>, << <<"Go">>, <<"Go", "C#">> >>, << <<"Go">>, <<"go">> >>,
             <<HobbiesShifted, OnlyHeading, Certs>>,
             <<Meta("additional", "Skills"), Meta("summary", "Lead")>>, <<0, 0>>),
      Resume(<< <<"October", "2021">>, <<>> >>, << <<"Go">>, <<"AWS">> >>, << <<"C++">> >>, <<Hobbies, Certs, Prose("e", "Talks", <<"Award">>)>>,
             <<>>, <<1, 2>>) }
MCTargets == {"skills", "awards", "other"}
=============================================================================

------------------------------ MODULE MCLearning ------------------------------
(* Instances of Learning: enough records of one kind for a preference to come *)
(* up, an edit accepted and later undone, old records without diff terms,     *)
(* timestamps of two precisions, evidence that grounds one section or two.    *)
EXTENDS Learning

MCWord    == {"ops", "go", "rust", "led", "50"}
MCSurface == [w \in MCWord |-> w]
MCStem    == MCSurface
MCSeed    == [c \in {<<"ops">>} |-> {<<"go">>}]
MCFieldClass   == [summary |-> "summary", company |-> "protected", bullets |-> "experience",
                   skills |-> "skills", certs |-> "lists"]
MCField        == DOMAIN MCFieldClass
MCFieldSection == [summary |-> "summary", company |-> "workExperience",
                   bullets |-> "workExperience", skills |-> "additional", certs |-> "additional"]
MCSlot         == [summary |-> "summary", experience |-> "bullets", skill |-> "skills",
                   certification |-> "certs"]
MCSize       == [w \in MCWord |-> 5]
MCCarries    == [w \in MCWord |-> IF w = "led" THEN {"led", "tighten"} ELSE {w}]
MCQuantified == {"50"}

MCPhrase    == {"Ops", "ops", "Fixes", "Go", "the"}
MCCleanForm == [p \in MCPhrase |-> CASE p \in {"Ops", "ops"} -> "ops" [] p = "Fixes" -> "fixes"
                                     [] p = "Go" -> "go" [] OTHER -> NoTerm]
MCPhraseWords == [p \in MCPhrase |-> CASE p \in {"Ops", "ops"} -> {"ops"} [] p = "Fixes" -> {"fixes"}
                                     [] p = "Go" -> {"go"} [] OTHER -> {"the"}]
MCAlphabet  == <<"aggressive", "concise", "detailed", "fixes", "go", "impactful", "keyword",
                 "minimal", "ops", "shorter", "tighten">>
MCGeneric      == {"fixes"}
MCToolOrNumber == {"go"}
MCDecay        == [age \in 0 .. 1 |-> 2 - age]
MCConciseType  == {"tighten"}

Record(outcome, type, diff, target, lengths, distance, time) ==
    [id |-> 0, outcome |-> outcome, section |-> "experience", type |-> type,
     removed |-> diff[1], added |-> diff[2], preserved |-> diff[3], target |-> target,
     original |-> lengths[1], proposed |-> lengths[2], final |-> lengths[3],
     distance |-> distance, time |-> time]
\* Timestamps: a day and a time, a day alone, and a text that is no date.
MCStampAt == [n \in 0 .. 1 |-> <<1 + n, 5>>]
BareDate  == <<2>>
NoDate    == <<9>>
MCInstant == (MCStampAt[0] :> 0) @@ (MCStampAt[1] :> 1) @@ (BareDate :> 0) @@ (NoDate :> Undated)
MCForm    == [s \in DOMAIN MCInstant |-> Len(s)]
MCFeedback ==
    { Record("accepted", "keyword", <<{}, {"Ops"}, {"ops", "the"}>>, {}, <<20, 30, None>>, 7, None),
      Record("accepted_modified", "tighten", <<{"Fixes"}, {"Go"}, {}>>, {"Go"}, <<20, 30, 10>>,
             None, NoDate),
      Record("undone", "keyword", <<{}, {}, {"ops"}>>, {}, <<20, 30, None>>, 7, BareDate),
      Record("rejected", "keyword", <<{}, {}, {}>>, {"Go"}, <<0, 10, None>>, None, None) }
MCPairs == { [preferred |-> "Go", rejected |-> "Fixes", strength |-> 1, time |-> MCStampAt[0]] }

Ev(content, tags, grounds) ==
    [content |-> content, tags |-> tags, refuting |-> FALSE, refuted |-> {}, confirmed |-> TRUE,
     grounds |-> grounds]
SkillEvidence == Ev(<<"ops">>, {}, {"additional"})
Note          == Ev(<<"led", "50">>, {}, {})
WorkEvidence  == Ev(<<"rust">>, {<<"led">>}, {"workExperience"})
Doc(bullets, skills) ==
    [summary |-> Text(<< >>), company |-> Text(<< >>), bullets |-> List(bullets),
     skills |-> List(skills), certs |-> List(<< >>)]
OneSection == [doc |-> Doc(<< <<"led", "50">> >>, << <<"ops">> >>), evidence |-> {SkillEvidence, Note}]
MCRankContexts  == { OneSection }
Edit(id, section, words, original, type) ==
    [id |-> id, section |-> section, words |-> words, original |-> original, type |-> type,
     gain |-> [ats |-> 4, keyword |-> 10]]
MCCandidates ==
    << Edit(1, "skill", <<"go">>, 0, "keyword"), Edit(2, "skill", <<"rust">>, 0, None),
      Edit(3, "experience", <<"led", "50">>, 20, "tighten"),
      Edit(4, "certification", <<"ops">>, 0, "keyword"), Edit(5, "summary", <<"ops">>, 0, None) >>
MCPendingEdits ==
    { [section |-> "experience", type |-> "keyword", target |-> {"ops"}, strength |-> "moderate"],
      [section |-> "skill", type |-> "tighten", target |-> {"Go"}, strength |-> "bold"] }
=============================================================================

--------------------------- MODULE MCKeywordLoop ----------------------------
(* Instances of KeywordLoop: two resumes whose wording meets the jobs by an  *)
(* alias, a stem, a phrase, a near word and a word only the contact line has,*)
(* and alias files that do and do not place those words already.             *)
EXTENDS KeywordLoop

MCWord == {"API", "api", "apis", "interface", "ci", "continuous", "integration", "postgres",
           "pg", "react", "reactjs", "go", "golang", "web", "design", "ui", "years"}
MCSurface == [w \in MCWord |-> IF w = "API" THEN "api" ELSE w]
MCStem    == [w \in MCWord |-> IF w \in {"API", "apis"} THEN "api" ELSE w]

MCSeed ==
    [c \in {<<"interface">>, <<"continuous", "integration">>, <<"postgres">>, <<"golang">>} |->
        CASE c = <<"interface">>                -> {<<"api">>}
          [] c = <<"continuous", "integration">> -> {<<"ci">>}
          [] c = <<"postgres">>                 -> {<<"pg">>}
          [] OTHER                              -> {<<"go">>}]

MCGapSections == {"summary", "experience", "skills"}
MCHighValue   == {"experience", "skills"}
MCPatterns ==
    [s \in {"summary", "experience", "education", "skills"} |->
        IF s = "experience" THEN {"design"} ELSE {}]
MCProse     == {"years"}
MCNearWords == { {"react", "reactjs"}, {"api", "apis"}, {"golang", "go"} }
MCGeneric   == {"web"}

Line(section, words) == [section |-> section, words |-> words]
MCResumes ==
    { << Line("contact", <<"golang">>),
         Line("experience", <<"continuous", "integration">>),
         Line("skills", <<"apis">>), Line("skills", <<"reactjs">>), Line("skills", <<"postgres">>) >>,
      << Line("summary", <<"web", "ui">>), Line("experience", <<"integration", "design">>),
         Line("skills", <<"interface">>), Line("skills", <<"go">>), Line("skills", <<"pg">>) >>,
      << Line("contact", <<"reactjs">>), Line("skills", <<"API">>), Line("skills", <<"continuous">>),
         Line("skills", <<"integration">>) >> }

Need(text, keywords, required) == [text |-> text, keywords |-> keywords, required |-> required]
MCJobs ==
    { [requirements   |-> << Need(<<"api">>, <<>>, TRUE),
                             Need(<<"years", "react">>, << <<"react">>, <<"ci">> >>, TRUE) >>,
       qualifications |-> << Need(<<"web", "design">>, <<>>, FALSE) >>,
       keywords       |-> << <<"pg">>, <<"golang">> >>],
      [requirements   |-> << Need(<<"postgres">>, << <<"pg">>, <<"integration", "design">> >>, TRUE) >>,
       qualifications |-> << Need(<<"react">>, <<>>, TRUE), Need(<<"go">>, << <<"API">> >>, FALSE) >>,
       keywords       |-> << <<"continuous", "integration">> >>],
      [requirements   |-> <<>>, qualifications |-> <<>>,
       keywords       |-> << <<"react">>, <<"pg">>, <<"integration", "ui">> >>] }

MCAliasFiles ==
    { [c \in {} |-> {}],
      [c \in { <<"postgres">> } |-> { <<"ui">> }],
      [c \in { <<"react">> } |-> { <<"design">> }] }
=============================================================================

---------------------------- MODULE MCPerfectFit ----------------------------
(* Two roles, an old one and a present one.  Skills with equal items, equal  *)
(* scores and a soft one; bullets that tie within a role or across roles,    *)
(* that are too long, that differ in case, and that shorten to a bullet      *)
(* already there.                                                            *)
EXTENDS PerfectFit

MCWord    == {"python", "Python", "sql", "teamwork", "proven", "saved", "email",
              "senior", "intern", "acme"}
MCSurface == [w \in MCWord |-> IF w = "Python" THEN "python" ELSE w]
MCStem    == MCSurface

MCField        == {"skills", "role1", "role2", "summary"}
MCFieldClass   == [skills |-> "skills", role1 |-> "experience", role2 |-> "experience",
                   summary |-> "summary"]
MCFieldSection == [skills |-> "additional", role1 |-> "workExperience",
                   role2 |-> "workExperience", summary |-> "summary"]
MCSeed == [c \in {} |-> {}]
NoAliases == { [c \in {} |-> {}] }

Python   == <<"python">>
MCSkills == { <<Python>>, <<Python, <<"sql">>, Python>>,
              << <<"teamwork">>, <<"sql">>, <<"email">> >>,
              << <<"sql">>, <<"teamwork">>, Python, <<"teamwork">> >> }
MCBullets1 == { << <<"saved", "python">> >>,
                << <<"email">>, <<"proven", "saved", "sql">> >>,
                << <<"saved", "sql">>, <<"proven", "saved", "sql">>, <<"email">> >>,
                << <<"sql">>, <<"saved", "python", "sql">>, <<"sql">> >>,
                << <<"proven", "email", "sql">>, <<"email", "sql">>, <<"saved", "sql">> >>,
                << <<"email">>, <<"proven", "saved", "python">>, <<"proven", "saved", "Python">> >> }
MCBullets2 == { << <<"email">> >>, << <<"email", "sql">> >>, << <<"saved", "sql">>, <<"proven", "python", "sql">> >> }
MCSummaries == { Python, <<"proven", "saved", "sql">>, <<"proven", "email", "sql">> }

Resumes(skills, bullets1, bullets2, summaries) ==
    { [skills |-> List(s), role1 |-> List(b), role2 |-> List(c), summary |-> Text(t)] :
        s \in skills, b \in bullets1, c \in bullets2, t \in summaries }
MCRevisions ==
    [refine |-> Resumes(MCSkills, { << <<"saved", "python">> >> }, { << <<"email">> >> }, MCSummaries)
                \cup Resumes({ <<Python>> }, MCBullets1, MCBullets2, MCSummaries)]
MCResume      == {"refine"}
MCWorkingFile == [refine |-> "refine.tailored"]
MCJob         == {"job"}
MCJobSkills   == [job |-> {}]

MCRoles       == << "role1", "role2" >>
MCRoleTitle   == [role1 |-> <<"senior">>, role2 |-> <<"intern">>]
MCRoleCompany == [role1 |-> <<"acme">>, role2 |-> <<"acme">>]
MCRoleYears   == [role1 |-> [start |-> 2022, end |-> Present],
                  role2 |-> [start |-> 2015, end |-> 2016]]
MCJobTerms    == [job |-> {Python}]
MCVocabulary ==
    [specific |-> {"python", "sql"}, umbrella |-> {}, soft |-> { <<"teamwork">> },
     foundational |-> { <<"email">> }, numbers |-> {}, impact |-> {"saved"}, scope |-> {},
     toolOpeners |-> {}, weakOpeners |-> {}, commas |-> {},
     senior |-> {"senior"}, mid |-> {}, junior |-> {"intern"}]
MCFiller == {"proven"}
MCBudget == [skills |-> 2, entries |-> 1, bullets |-> 2, summaryWords |-> 2, bulletWords |-> 2]

Says(content, refuted) ==
    [content |-> content, tags |-> {}, refuting |-> FALSE, refuted |-> refuted,
     confirmed |-> TRUE, grounds |-> {}]
MCEvidence ==
    { {Says(w, {}) : w \in { Python, <<"sql">>, <<"teamwork">>, <<"email">>, <<"saved", "sql">>,
                             <<"python", "sql">> }},
      {Says(Python, {}), Says(<<"saved", "email">>, { <<"saved", "sql">> })} }
MCFitModes == {"auto", "decisions"}
MCAnswers  == {"approve", "skip"}
=============================================================================

------------------------------- MODULE MCAlign -------------------------------
(* Instances of AlignResume: one entry of work experience, a summary, a skill *)
(* list and certifications; answers of the provider that mix changes of every *)
(* kind, some blocked, some ungrounded, some that shift the items under the   *)
(* others, and entries that are no change at all.                             *)
EXTENDS AlignResume

MCWord    == {"ops", "infra", "go", "Go", "rust", "lead", "Lead", "acme", "led", "50"}
MCSurface == [w \in MCWord |-> CASE w = "Go" -> "go" [] w = "Lead" -> "lead" [] OTHER -> w]
MCStem    == MCSurface
MCSeed    == [c \in {<<"ops">>} |-> {<<"infra">>}]

MCFieldClass   == [summary |-> "summary", company |-> "protected", bullets |-> "experience",
                   skills |-> "skills", certs |-> "lists"]
MCField        == DOMAIN MCFieldClass
MCFieldSection == [summary |-> "summary", company |-> "workExperience",
                   bullets |-> "workExperience", skills |-> "additional", certs |-> "additional"]
MCFieldEntry   == [summary |-> "summary", company |-> "work1", bullets |-> "work1",
                   skills |-> "additional", certs |-> "additional"]
MCClaimFields  == MCField
MCFieldOrder   == <<"summary", "company", "bullets", "skills", "certs">>
MCHeading      == [work1 |-> <<"company">>]
MCMetric       == {"50"}

Doc(summary, bullets, skills, certs) ==
    [summary |-> Text(summary), company |-> Text(<<"acme">>), bullets |-> List(bullets),
     skills |-> List(skills), certs |-> List(certs)]
MCResumes ==
    { Doc(<<"lead", "ops">>, << <<"ops">>, <<"led", "50">> >>, << <<"go">> >>, << >>),
      Doc(<<"lead">>, << <<"lead">>, <<"lead">>, <<"ops">> >>, << <<"Go">>, <<"ops">> >>,
          << <<"infra">> >>) }

MCJobs ==
    { [skills |-> {<<"rust">>}, description |-> Null],
      [skills |-> {<<"rust">>, <<"infra">>}, description |-> Text(<<"lead", "infra">>)] }

Evidence(content, refuted, confirmed) ==
    [kind |-> "user_statement", content |-> content, tags |-> {content}, refuting |-> FALSE,
     refuted |-> refuted, confirmed |-> confirmed, grounds |-> {}]
MCDerived == << >>
MCEvidenceInputs ==
    { MCDerived,
      << Evidence(<<"lead", "ops", "acme", "go">>, {}, TRUE),
         Evidence(<<"ops">>, { <<"rust">> }, FALSE) >>,
      << Evidence(<<"acme">>, {}, FALSE), Evidence(<<"rust">>, {}, TRUE) >> }

Call(freedom, human, validate) == [freedom |-> freedom, human |-> human, validate |-> validate]
MCCalls == { Call(12, FALSE, TRUE), Call(10, TRUE, TRUE), Call(2, FALSE, FALSE),
             Call(6, FALSE, FALSE) }

At(f, i) == [field |-> f, index |-> i]
Propose(path, action, old, new) ==
    [path |-> path, action |-> action, original |-> old, value |-> new, terminology |-> FALSE]
MCMalformed == [malformed |-> TRUE]

AddRustAndInfra == Propose(At("skills", 0), "add_skill", Null, List(<< <<"rust">>, <<"infra">> >>))
AddGo        == Propose(At("skills", 0), "add_skill", Null, Text(<<"go">>))
NewSkills    == Propose(At("skills", 0), "reorder", Null, List(<< <<"rust">>, <<"Go">> >>))
FirstRust    == Propose(At("bullets", 1), "replace", Text(<<"ops">>), Text(<<"rust", "50">>))
SecondOps    == Propose(At("bullets", 2), "replace", Null, Text(<<"ops">>))
DropFirst    == Propose(At("bullets", 0), "remove", Null, List(<< <<"ops">> >>))
DropLead     == Propose(At("bullets", 0), "remove", Null, List(<< <<"lead">> >>))
NewBullet    == Propose(At("bullets", 0), "append", Null, Text(<<"rust">>))
Reversed     == Propose(At("bullets", 0), "reorder", Null,
                       List(<< <<"led", "50">>, <<"ops">>, <<"lead">> >>))
OneCert      == Propose(At("certs", 0), "replace", Null, Text(<<"go", "rust">>))
NewCert      == Propose(At("certs", 0), "append", Null, Text(<<"rust">>))
RenameEmployer == Propose(At("company", 0), "replace", Null, Text(<<"rust">>))
NewSummary   == Propose(At("summary", 0), "replace", Text(<<"Lead">>), Text(<<"rust">>))
ShortSummary == Propose(At("summary", 0), "replace", Null, Text(<<"ops">>))

Answered(entries) == [outcome |-> "answered", entries |-> entries]
Outcome(outcome)  == [outcome |-> outcome, entries |-> <<>>]
MCChangeResponses ==
    { Outcome("failed"), Outcome("missing"), Outcome("not_list"),
      Answered(<< AddRustAndInfra, FirstRust, MCMalformed, NewBullet >>),
      Answered(<< DropFirst, SecondOps, RenameEmployer, AddGo, NewSummary >>),
      Answered(<< MCMalformed, DropLead, DropLead, NewBullet, SecondOps, ShortSummary >>),
      Answered(<< NewSkills, OneCert, Reversed, ShortSummary, FirstRust >>),
      Answered(<< NewCert, NewCert, AddRustAndInfra, RenameEmployer, NewSkills >>) }

Targets(targets) == [outcome |-> "answered", targets |-> targets]
MCPlanResponses ==
    { [outcome |-> "failed", targets |-> <<>>],
      Targets(<< <<"rust">>, <<"Go">>, <<"go">>, <<>>, <<"infra">> >>) }

Suggestion(current, keyword, location) ==
    [current |-> current, keyword |-> keyword, location |-> location]
MCSuggestions ==
    { Suggestion(<<"ops">>, <<"infra">>, At("bullets", 1)),
      Suggestion(<<"ops">>, <<"rust">>, At("summary", 0)),
      Suggestion(<<"lead", "ops">>, <<"rust">>, At("summary", 0)),
      Suggestion(<<"acme">>, <<"rust">>, At("company", 0)) }
=============================================================================

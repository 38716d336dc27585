--------------------------- MODULE MCEditSession ----------------------------
(* Instances of EditSession.  The configurations share the words, fields and *)
(* documents below and choose the proposals, answers and bounds.             *)
EXTENDS EditSession

MCWord    == {"ops", "infra", "go", "Go", "rust"}
MCSurface == [w \in MCWord |-> IF w = "Go" THEN "go" ELSE w]
MCStem    == MCSurface

MCField        == {"technicalSkills", "bullets", "summary"}
MCFieldClass   == [technicalSkills |-> "skills", bullets |-> "experience", summary |-> "summary"]
MCFieldSection == [technicalSkills |-> "additional", bullets |-> "workExperience",
                   summary |-> "summary"]
MCClaimFields    == MCField
MCAdditionFields == {"technicalSkills"}
MCSeed == [c \in {} |-> {}]

Doc(summary) ==
    [technicalSkills |-> List(<< <<"go">> >>), bullets |-> List(<< <<"ops">> >>),
     summary |-> Text(summary)]

MCResume      == {"original", "refine"}
MCOneResume   == {"original"}
MCJob         == {"job"}
MCRevisions   == [original |-> {Doc(<<"ops">>), Doc(<<"go">>)}, refine |-> {Doc(<<"ops">>)}]
MCOneRevision == [original |-> {Doc(<<"ops">>)}]
MCWorkingFile == [original |-> "original.tailored", refine |-> "refine.tailored"]
MCOneWorking  == [original |-> "original.tailored"]
MCAllModes    == {"interactive", "review_at_end", "auto"}
MCReviewModes == {"interactive", "auto"}
MCInteractive == {"interactive"}
MCJobSkills   == [job |-> {<<"rust">>}]

At(f, i) == [field |-> f, index |-> i]
Proposal(path, action, original, value, terminology) ==
    [path |-> path, action |-> action, original |-> original, value |-> value,
     terminology |-> terminology]
Provenance(path, claim, status) == [path |-> path, claim |-> claim, status |-> status]
Evidence(content, refuted, confirmed) ==
    [content |-> content, tags |-> {}, refuting |-> FALSE, refuted |-> refuted,
     confirmed |-> confirmed, grounds |-> {}]

AddSkillRust  == Proposal(At("technicalSkills", 0), "add_skill", Null, Text(<<"rust">>), FALSE)
AddSkillInfra == Proposal(At("technicalSkills", 0), "add_skill", Null, Text(<<"infra">>), FALSE)
AppendBullet  == Proposal(At("bullets", 0), "append", Null, Text(<<"rust">>), FALSE)
RewriteBullet == Proposal(At("bullets", 1), "replace", Text(<<"ops">>), Text(<<"rust">>), FALSE)
SayInfra      == Proposal(At("summary", 0), "replace", Text(<<"ops">>), Text(<<"infra">>), TRUE)
SayGo         == Proposal(At("summary", 0), "replace", Text(<<"ops">>), Text(<<"go">>), TRUE)
BulletInfra   == Proposal(At("bullets", 1), "replace", Text(<<"ops">>), Text(<<"infra">>), TRUE)

-----------------------------------------------------------------------------
(* Review: two sections whose changes interleave, a path with two changes,  *)
(* two identical changes, provenance auto mode accepts for some changes,    *)
(* and a proposal with nothing in it.                                       *)

ReviewProposals ==
    { [changes |-> <<AddSkillRust, SayInfra, AddSkillInfra>>, evidence |-> {},
       provenance |-> {Provenance(At("summary", 0), <<"infra">>, "supported"),
                       Provenance(At("technicalSkills", 0), <<"rust">>, "verified")}],
      [changes |-> <<AppendBullet, AppendBullet, SayGo>>, evidence |-> {},
       provenance |-> {Provenance(At("bullets", 0), <<"infra">>, "verified"),
                       Provenance(At("summary", 0), <<"go">>, "ambiguous")}],
      [changes |-> <<>>, evidence |-> {}, provenance |-> {}] }

Answer(action, content) == [action |-> action, content |-> content]
ReviewAnswers ==
    { Answer("approve", Null), Answer("reject", Null), Answer("edit", Text(<<"rust">>)),
      Answer("retry", Null) }
NoAliases     == { [c \in {} |-> {}] }
NoFreedoms    == {}

-----------------------------------------------------------------------------
(* Commit: changes that clash, truth that only the combination contradicts, *)
(* evidence that refutes, pointers and files that move under the session,   *)
(* and provenance that auto mode accepts, defers and never accepts.         *)

GateProposals ==
    { [changes |-> <<SayInfra, AddSkillRust>>,
       evidence |-> {Evidence(<<"ops">>, {<<"rust">>}, FALSE)}, provenance |-> {}],
      [changes |-> <<RewriteBullet, AppendBullet>>,
       evidence |-> {}, provenance |-> {Provenance(At("bullets", 0), <<"rust">>, "verified")}] }
CommitProposals ==
    GateProposals \cup
    { [changes |-> <<SayInfra, AddSkillRust, RewriteBullet>>, evidence |-> {},
       provenance |-> {Provenance(At("summary", 0), <<"infra">>, "supported"),
                       Provenance(At("technicalSkills", 0), <<"rust">>, "verified"),
                       Provenance(At("bullets", 1), <<"rust">>, "user_confirmed"),
                       Provenance(At("bullets", 0), <<"rust">>, "ambiguous")}] }
CommitAnswers ==
    { Answer("approve", Null), Answer("skip", Null), Answer("edit", Text(<<"go">>)) }
MCFreedoms    == {3, 10}

-----------------------------------------------------------------------------
(* Aliases: two swaps of one word, alias files that already place it.       *)

AliasProposals ==
    { [changes |-> <<SayInfra, BulletInfra>>, evidence |-> {}, provenance |-> {}],
      [changes |-> <<SayGo, BulletInfra>>,
       evidence |-> {Evidence(<<"go">>, {<<"rust">>}, FALSE)}, provenance |-> {}] }
AliasAnswers ==
    { Answer("approve", Null), Answer("edit", Text(<<"go">>)), Answer("edit", Text(<<"rust">>)) }
MCAliasFiles ==
    { [c \in {} |-> {}],
      [c \in { <<"go">> } |-> { <<"infra">> }],
      [c \in { <<"infra">>, <<"rust">> } |-> IF c = <<"infra">> THEN { <<"go">> } ELSE {}],
      [c \in { <<"infra">>, <<"rust">> } |-> { <<"go">> }] }
=============================================================================

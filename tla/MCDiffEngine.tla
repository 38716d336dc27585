---------------------------- MODULE MCDiffEngine ----------------------------
(* A resume with one field of each class, short lists with a duplicate, and *)
(* changes that collide: two orders, a removal, a replacement of an item    *)
(* and of a whole list, and additions of known, verified and unknown skills. *)
EXTENDS DiffEngine

MCWord    == {"go", "Go", "sql", "rust", "ops"}
MCSurface == [w \in MCWord |-> IF w = "Go" THEN "go" ELSE w]
MCStem    == [w \in MCWord |-> IF w = "Go" THEN "go" ELSE w]

MCField   == {"skills", "bullets", "summary", "degree", "company", "custom"}
MCFieldClass ==
    [skills |-> "skills", bullets |-> "experience", summary |-> "summary",
     degree |-> "education", company |-> "protected", custom |-> "unlisted"]
MCFieldSection ==
    [skills |-> "additional", bullets |-> "workExperience", summary |-> "summary",
     degree |-> "education", company |-> "workExperience", custom |-> "custom"]

MCResumes ==
    {[skills |-> List(<< <<"go">>, <<"sql">>, <<"Go">> >>),
      bullets |-> List(<< <<"go", "ops">>, <<"sql">> >>),
      summary |-> Text(<<"ops">>),
      degree |-> Null,
      company |-> Text(<<"ops">>),
      custom |-> List(<< <<"go">> >>)]}

At(f, i) == [field |-> f, index |-> i]
Propose(p, a, o, v) ==
    [path |-> p, action |-> a, original |-> o, value |-> v, terminology |-> FALSE]

MCChanges ==
    { Propose(At("skills", 0), "reorder", Null, List(<< <<"sql">>, <<"go">>, <<"Go">> >>)),
      Propose(At("skills", 0), "reorder", Null, List(<< <<"Go">>, <<"rust">>, <<"ops">> >>)),
      Propose(At("skills", 0), "remove", Null, List(<< <<"go">> >>)),
      Propose(At("skills", 0), "remove", List(<< <<"go">>, <<"sql">>, <<"Go">> >>),
             List(<< <<"sql">>, <<"sql">> >>)),
      Propose(At("skills", 0), "append", Null, Text(<<"ops">>)),
      Propose(At("skills", 0), "add_skill", Null, List(<< <<"rust">>, <<"Go">>, <<"ops">> >>)),
      Propose(At("bullets", 0), "reorder", Null, List(<< <<"sql">>, <<"rust">> >>)),
      Propose(At("bullets", 1), "replace", Text(<<"Go", "ops">>), Text(<<"go">>)),
      Propose(At("bullets", 1), "replace", Text(<<"rust">>), Text(<<"go">>)),
      Propose(At("bullets", 0), "replace", Null, Text(<<"go">>)),
      Propose(At("bullets", 2), "append", Null, Text(<<"go">>)),
      Propose(At("summary", 0), "replace", Text(<<"ops">>), Text(<<"rust">>)),
      Propose(At("degree", 0), "replace", Null, Text(<<"go">>)),
      Propose(At("company", 0), "replace", Text(<<"ops">>), Text(<<"go">>)),
      Propose(At("custom", 0), "append", Null, Text(<<"go">>)) }

MCSkillSets == { {}, {<<"rust">>} }
MCFreedoms == {-1, 3, 7, 11}
=============================================================================
